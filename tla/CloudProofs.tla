----------------------------- MODULE CloudProofs -----------------------------
(* Proofs about the clouds: a query for hashes is answered exactly, for      *)
(* every remote and every setting of the traversal; and whatever the threads *)
(* that work on a remote do, and however they fail, objects are whole, no    *)
(* two threads of a process make a directory of Drive, and a download that   *)
(* ends well is complete.                                                    *)
EXTENDS Trees, Query, FiniteSetTheorems, WellFoundedInduction, TLAPS

(* Every hash that does not start with the digits of the estimate starts     *)
(* with one of the prefixes that are traversed.                              *)
LEMMA PrefixesCover ==
    ASSUME NEW R \in SUBSET Md5
    PROVE  R = ListHashes(R, <<PrefixLen, 0>>) \cup
               UNION {ListHashes(R, prefix) : prefix \in TraversePrefixes}
<1>1. \A prefix : ListHashes(R, prefix) \subseteq R
  BY DEF ListHashes, Starting
<1>2. ASSUME NEW h \in R, h \notin ListHashes(R, <<PrefixLen, 0>>)
      PROVE  \E prefix \in TraversePrefixes : h \in ListHashes(R, prefix)
  <2> DEFINE two == Digits[h] \div Base
  <2>1. Base \in Nat /\ Base > 0 /\ Digits[h] \in Nat /\ Digits[h] < Base * Base * Base
    BY QueryAssumption
  <2>2. two \in Nat /\ two * Base <= Digits[h] /\ Digits[h] < (two + 1) * Base
    BY <2>1, SMTT(30)
  <2>3. two <= Base * Base - 1
    <3>1. two * Base < (Base * Base) * Base
      BY <2>1, <2>2
    <3> QED
      BY <2>1, <2>2, <3>1, SMTT(30)
  <2>4. CASE two # 0
    <3>1. <<2, two>> \in TraversePrefixes
      BY <2>1, <2>2, <2>3, <2>4 DEF TraversePrefixes
    <3>2. h \in ListHashes(R, <<2, two>>)
      BY DEF ListHashes, Starting
    <3> QED
      BY <3>1, <3>2
  <2>5. CASE two = 0 /\ PrefixLen = 2
    BY <1>2, <2>5 DEF ListHashes, Starting
  <2>6. CASE two = 0 /\ PrefixLen = 3
    <3>1. Digits[h] # 0
      BY <1>2, <2>6 DEF ListHashes, Starting
    <3>2. Digits[h] \in 1..(Base - 1)
      <4>1. Digits[h] < (0 + 1) * Base
        BY <2>2, <2>6
      <4> QED
        BY <2>1, <3>1, <4>1
    <3>3. <<3, Digits[h]>> \in TraversePrefixes
      BY <2>6, <3>2 DEF TraversePrefixes
    <3>4. h \in ListHashes(R, <<3, Digits[h]>>)
      BY DEF ListHashes, Starting
    <3> QED
      BY <3>3, <3>4
  <2> QED
    BY <2>4, <2>5, <2>6, QueryAssumption
<1> QED
  BY <1>1, <1>2

LEMMA TraverseAll ==
    ASSUME NEW R \in SUBSET Md5
    PROVE  Traverse(R, ListHashes(R, <<PrefixLen, 0>>)) = R
BY PrefixesCover DEF Traverse

(* When the estimate stops early, each of the remaining hashes is asked for. *)
LEMMA StoppedIsTooLarge ==
    ASSUME NEW R \in SUBSET Md5, NEW H \in SUBSET Md5, NEW L \in SUBSET R,
           TooMany(Cardinality(L), H)
    PROVE  TooLarge(L, H)
<1>1. IsFiniteSet(L) /\ Cardinality(L) \in Nat /\ IsFiniteSet(H) /\ Cardinality(H) \in Nat
  BY QueryAssumption, FS_Subset, FS_CardinalityType
<1>2. TotalPrefixes \in Nat
  BY QueryAssumption DEF TotalPrefixes
<1>3. L # {}
  <2> SUFFICES ASSUME L = {} PROVE FALSE
    OBVIOUS
  <2>1. Cardinality(L) = 0
    BY FS_EmptySet
  <2> QED
    BY <1>2, <2>1, QueryAssumption DEF TooMany
<1>4. EstimatedSize(L) = Cardinality(L) * TotalPrefixes
  BY <1>1, <1>2, <1>3 DEF EstimatedSize
<1> QED
  BY <1>4 DEF TooMany, TooLarge

(* The answer of hashes_exist is exact, for any remote and any hashes that   *)
(* are asked for (CloudCache.hashes_exist).                                  *)
THEOREM QueryIsExact == QueryExact
<1> SUFFICES ASSUME NEW R \in SUBSET Md5, NEW H \in SUBSET Md5, NEW L \in Estimates(R, H)
             PROVE  HashesExist(R, H, L) = H \cap R
  BY DEF QueryExact
<1>1. L \subseteq R
  BY DEF Estimates, ListHashes, Starting
<1>2. CASE Cardinality(H) = 1 \/ ~CanTraverse \/ TooLarge(L, H)
  BY <1>1, <1>2 DEF HashesExist, Existing
<1>3. CASE ~(Cardinality(H) = 1 \/ ~CanTraverse \/ TooLarge(L, H))
  <2>1. L = ListHashes(R, <<PrefixLen, 0>>)
    BY <1>1, <1>3, StoppedIsTooLarge DEF Estimates
  <2>2. Traverse(R, L) = R
    BY <2>1, TraverseAll
  <2> QED
    BY <1>3, <2>2 DEF HashesExist
<1> QED
  BY <1>2, <1>3

(* gc is given every object of the remote (CloudCache.all).                  *)
THEOREM AllIsExact == AllExact
BY TraverseAll DEF AllExact, All

-----------------------------------------------------------------------------
(* Trees: the least of some naturals, which Drive's items are chosen by.     *)
LEMMA LeastExists ==
    ASSUME NEW S \in SUBSET Nat, S # {}
    PROVE  \E x \in S : \A y \in S : x <= y
<1> DEFINE R == {ss \in Nat \X Nat : ss[1] < ss[2]}
<1>1. IsWellFoundedOn(R, Nat)
  BY NatLessThanWellFounded DEF OpToRel
<1> HIDE DEF R
<1>2. PICK x \in S : \A y \in S : ~(<<y, x>> \in R)
  BY <1>1, WFMin
<1>3. \A y \in S : ~(y < x)
  BY <1>2 DEF R
<1> QED
  BY <1>3

LEMMA MinIsMember ==
    ASSUME NEW S \in SUBSET Nat, S # {}
    PROVE  Min(S) \in S
BY LeastExists DEF Min

(* Of the items that a process finds under a name it takes one of them. *)
LEMMA ChosenIsFound ==
    ASSUME items \in SUBSET Item, NEW p, NEW h, Exists(p, h)
    PROVE  Chosen(p, h) \in Found(p, h)
<1> DEFINE S == {i.id : i \in Found(p, h)}
<1>1. Found(p, h) \subseteq items /\ Found(p, h) # {}
  BY DEF Found, Exists
<1>2. S \in SUBSET Nat /\ S # {}
  BY <1>1 DEF Item
<1>3. PICK x \in S : \A y \in S : x <= y
  BY <1>2, LeastExists
<1>4. PICK i \in Found(p, h) : i.id = x
  BY <1>3
<1>5. \A j \in Found(p, h) : i.id <= j.id
  BY <1>3, <1>4
<1> QED
  BY <1>4, <1>5 DEF Chosen

(* The steps of each cloud. *)
LEMMA StepsOfClouds ==
    ASSUME NEW c \in Clouds
    PROVE  /\ Head(Steps(c)) \in {"put", "makedirs", "write", "open", "resolve"}
           /\ Head(Steps(c)) = "makedirs" => c \in {"ssh", "local", "webdav"}
           /\ Head(Steps(c)) = "open" => c \in InPlace
           /\ c \in {"ssh", "local"} => Steps(c)[2] = "write"
           /\ c = "webdav" => Steps(c)[2] = "open"
<1> DEFINE Put1 == <<"put">>
           Temporary == <<"write", "rename">>
           Renamed == <<"makedirs", "write", "rename">>
           Opened == <<"open">>
           MadeOpened == <<"makedirs", "open">>
           Resolved == <<"resolve", "put">>
<1>1. /\ Head(Put1) = "put"
      /\ Head(Temporary) = "write"
      /\ Head(Renamed) = "makedirs" /\ Renamed[2] = "write"
      /\ Head(Opened) = "open"
      /\ Head(MadeOpened) = "makedirs" /\ MadeOpened[2] = "open"
      /\ Head(Resolved) = "resolve"
  OBVIOUS
<1>2. /\ c \in {"s3", "gs", "azure", "oss", "http"} => Steps(c) = Put1
      /\ c = "hdfs" => Steps(c) = Temporary
      /\ c \in {"ssh", "local"} => Steps(c) = Renamed
      /\ c = "webhdfs" => Steps(c) = Opened
      /\ c = "webdav" => Steps(c) = MadeOpened
      /\ c = "gdrive" => Steps(c) = Resolved
  BY DEF Steps, S3Upload, GSUpload, AzureUpload, OSSUpload, HTTPUpload, HDFSUpload,
         SSHUpload, LocalUpload, WebHDFSUpload, WebDAVUpload, GDriveUpload
<1> HIDE DEF Put1, Temporary, Renamed, Opened, MadeOpened, Resolved
<1> QED
  BY <1>1, <1>2 DEF Clouds, InPlace
(* What a thread does, as its type says. *)
Work == [step : Step, hash : Hash \cup {None}, dir : Nat, whole : BOOLEAN]

LEMMA IdleType == Idle \in Work /\ Idle.step = "idle"
BY DEF Idle, Work, Step

(* An object is put under its name. *)
LEMMA PutType ==
    ASSUME TypeOK, NEW h \in Hash, NEW whole \in BOOLEAN
    PROVE  Put(h, whole) \in SUBSET Item
BY DEF TypeOK, Put, Item

(* The directories of an object, when there are any, have a least. *)
LEMMA ParentsType ==
    ASSUME TypeOK, NEW p \in Process
    PROVE  /\ Known(p) \in SUBSET Nat
           /\ Parents(p) \in SUBSET Nat
           /\ Parents(p) # {} => Min(Parents(p)) \in Nat
<1>1. Known(p) \in SUBSET Nat /\ Parents(p) \in SUBSET Nat
  BY DEF TypeOK, Known, Parents
<1> QED
  BY <1>1, MinIsMember

(* A step of one thread that keeps the types of what a thread does. *)
LEMMA WorkStep ==
    ASSUME TypeOK, StepsFit, NEW t \in Thread, NEW w \in Work, UNCHANGED cloud,
           work' = [work EXCEPT ![t] = w],
           w.step # "idle" => w.hash \in Hash,
           w.step = "makedirs" => cloud \in {"ssh", "local", "webdav"},
           w.step \in {"open", "writing"} => cloud \in InPlace
    PROVE  work' \in [Thread -> Work] /\ StepsFit'
<1>1. work \in [Thread -> Work]
  BY DEF TypeOK, Work
<1> QED
  BY <1>1 DEF StepsFit

LEMMA GotoStep ==
    ASSUME TypeOK, StepsFit, NEW t \in Thread, NEW s \in Step, UNCHANGED cloud,
           Goto(t, s), work[t].step # "idle",
           s \in {"open", "writing"} => cloud \in InPlace, s # "makedirs"
    PROVE  work' \in [Thread -> Work] /\ StepsFit'
<1> DEFINE w == [work[t] EXCEPT !.step = s]
<1>1. work[t] \in Work /\ work[t].hash \in Hash
  BY DEF TypeOK, Work, StepsFit
<1>2. w \in Work /\ w.step = s /\ w.hash = work[t].hash
  BY <1>1 DEF Work
<1>3. work' = [work EXCEPT ![t] = w]
  BY DEF Goto
<1> HIDE DEF w
<1> QED
  BY <1>1, <1>2, <1>3, WorkStep

Fetch == [step : {"idle", "running", "ok", "failed"}, all : SUBSET Hash,
          pending : SUBSET Hash, failed : BOOLEAN]

(* What the steps of a download make of it. *)
LEMMA FetchType ==
    ASSUME NEW r \in Fetch, NEW S \in SUBSET Hash, NEW b \in BOOLEAN, NEW s \in {"failed", "ok"}
    PROVE  /\ [r EXCEPT !.pending = S] \in Fetch
           /\ [r EXCEPT !.pending = S, !.failed = b] \in Fetch
           /\ [r EXCEPT !.failed = b] \in Fetch
           /\ [r EXCEPT !.step = s] \in Fetch
BY DEF Fetch

(* Every variable keeps its type, and every thread is at a step of its cloud. *)
LEMMA TreesTypeStep ==
    ASSUME TypeOK, StepsFit, OneCreator, [Next]_vars
    PROVE  TypeOK' /\ StepsFit'
<1> DEFINE Rest == /\ cloud \in Cloud
                   /\ dirs \in SUBSET Nat /\ items \in SUBSET Item /\ litter \in SUBSET Hash
                   /\ ids \in [Process -> {Unlisted} \cup SUBSET Nat]
                   /\ creator \in [Process -> Thread \cup {None}]
                   /\ fetch \in [Process -> Fetch]
                   /\ copy \in [Process -> SUBSET [name : Hash, whole : BOOLEAN]]
                   /\ made \in [Process -> Nat] /\ unheard \in [Process -> Nat]
                   /\ fresh \in Nat
<1>1. Rest /\ work \in [Thread -> Work]
  BY DEF TypeOK, Work, Fetch
<1>2. (Rest /\ work \in [Thread -> Work])' => TypeOK'
  BY DEF TypeOK, Work, Fetch
<1> SUFFICES Rest' /\ work' \in [Thread -> Work] /\ StepsFit'
  BY <1>2
<1>3. \A t \in Thread : ProcessOf[t] \in Process
  BY ProcessOfAssumption
<1>4. \A t \in Thread : work[t].step # "idle" => work[t].hash \in Hash
  BY DEF StepsFit
<1>5. cloud \in Clouds
  BY <1>1, CloudAssumption
(* A step that leaves a thread idle and puts its object, or nothing. *)
<1>6. ASSUME NEW t \in Thread, work' = [work EXCEPT ![t] = Idle], UNCHANGED cloud
      PROVE  work' \in [Thread -> Work] /\ StepsFit'
  BY <1>6, IdleType, WorkStep
<1>7. ASSUME NEW t \in Thread, NEW h \in Hash, Upload(t, h)
      PROVE  Rest' /\ work' \in [Thread -> Work] /\ StepsFit'
  <2> DEFINE w == [Idle EXCEPT !.hash = h, !.step = Head(Steps(cloud))]
  <2>1. w.step = Head(Steps(cloud)) /\ w.hash = h /\ w \in Work
    BY <1>5, StepsOfClouds DEF Idle, Work, Step
  <2>2. work' = [work EXCEPT ![t] = w] /\ UNCHANGED cloud
    BY <1>7 DEF Upload
  <2>3. Rest'
    BY <1>1, <1>7 DEF Upload, remoteVars, driveVars
  <2> HIDE DEF w
  <2> QED
    BY <1>5, <2>1, <2>2, <2>3, StepsOfClouds, WorkStep
<1>8. ASSUME NEW t \in Thread, PutObject(t)
      PROVE  Rest' /\ work' \in [Thread -> Work] /\ StepsFit'
  <2>1. items' \in SUBSET Item
    BY <1>4, <1>8, PutType DEF PutObject
  <2>2. Rest'
    BY <1>1, <1>8, <2>1 DEF PutObject, driveVars
  <2> QED
    BY <1>6, <1>8, <2>2 DEF PutObject, Uploaded
<1>9. ASSUME NEW t \in Thread, MakeDirs(t)
      PROVE  Rest' /\ work' \in [Thread -> Work] /\ StepsFit'
  <2>1. Rest'
    BY <1>1, <1>9 DEF MakeDirs, driveVars
  <2>2. cloud \in {"ssh", "local", "webdav"}
    BY <1>9 DEF MakeDirs, StepsFit
  <2>3. Steps(cloud)[2] = IF cloud = "webdav" THEN "open" ELSE "write"
    BY <1>5, <2>2, StepsOfClouds
  <2>4. Goto(t, Steps(cloud)[2]) /\ UNCHANGED cloud /\ work[t].step # "idle"
    BY <1>9 DEF MakeDirs
  <2> QED
    BY <2>1, <2>3, <2>4, GotoStep DEF Step, InPlace
<1>10. ASSUME NEW t \in Thread, WriteTemporary(t)
       PROVE  Rest' /\ work' \in [Thread -> Work] /\ StepsFit'
  <2>1. Rest'
    BY <1>1, <1>10 DEF WriteTemporary, remoteVars, driveVars
  <2>2. Goto(t, "rename") /\ UNCHANGED cloud /\ work[t].step # "idle"
    BY <1>10 DEF WriteTemporary
  <2> QED
    BY <2>1, <2>2, GotoStep DEF Step
<1>11. ASSUME NEW t \in Thread, Rename(t)
       PROVE  Rest' /\ work' \in [Thread -> Work] /\ StepsFit'
  <2>1. items' \in SUBSET Item
    BY <1>4, <1>11, PutType DEF Rename
  <2>2. Rest'
    BY <1>1, <1>11, <2>1 DEF Rename, driveVars
  <2> QED
    BY <1>6, <1>11, <2>2 DEF Rename, Uploaded
<1>12. ASSUME NEW t \in Thread, RenameRefused(t)
       PROVE  Rest' /\ work' \in [Thread -> Work] /\ StepsFit'
  <2>1. Rest'
    BY <1>1, <1>4, <1>12 DEF RenameRefused, driveVars
  <2> QED
    BY <1>6, <1>12, <2>1 DEF RenameRefused
<1>13. ASSUME NEW t \in Thread, Open(t)
       PROVE  Rest' /\ work' \in [Thread -> Work] /\ StepsFit'
  <2>1. items' \in SUBSET Item
    BY <1>4, <1>13, PutType DEF Open
  <2>2. Rest'
    BY <1>1, <1>13, <2>1 DEF Open, driveVars
  <2>3. \A u \in Thread : /\ [work[u] EXCEPT !.step = "writing"] \in Work
                          /\ [work[u] EXCEPT !.step = "lost"] \in Work
    BY <1>1 DEF Work, Step
  <2>4. work' \in [Thread -> Work] /\ UNCHANGED cloud
    BY <1>1, <1>13, <2>3 DEF Open
  <2>5. \A u \in Thread : /\ work'[u].hash = work[u].hash
                          /\ work'[u].step = "idle" <=> work[u].step = "idle"
                          /\ work'[u].step = "makedirs" => work[u].step = "makedirs"
                          /\ work'[u].step \in {"open", "writing"} => cloud \in InPlace
    BY <1>1, <1>13 DEF Open, Work, StepsFit
  <2> QED
    BY <2>2, <2>4, <2>5 DEF StepsFit
<1>14. ASSUME NEW t \in Thread, Close(t)
       PROVE  Rest' /\ work' \in [Thread -> Work] /\ StepsFit'
  <2>1. items' \in SUBSET Item
    BY <1>4, <1>14, PutType DEF Close
  <2>2. Rest'
    BY <1>1, <1>14, <2>1 DEF Close, driveVars
  <2> QED
    BY <1>6, <1>14, <2>2 DEF Close, Uploaded
<1>15. ASSUME NEW t \in Thread, Lost(t)
       PROVE  Rest' /\ work' \in [Thread -> Work] /\ StepsFit'
  <2>1. Rest'
    BY <1>1, <1>15 DEF Lost, remoteVars, driveVars
  <2> QED
    BY <1>6, <1>15, <2>1 DEF Lost
<1>16. ASSUME NEW t \in Thread, Resolve(t)
       PROVE  Rest' /\ work' \in [Thread -> Work] /\ StepsFit'
  <2> DEFINE p == ProcessOf[t]
             w == IF Parents(p) = {} THEN [work[t] EXCEPT !.step = "create"]
                  ELSE [work[t] EXCEPT !.step = "put", !.dir = Min(Parents(p))]
  <2>1. p \in Process /\ Known(p) \in SUBSET Nat /\ (Parents(p) # {} => Min(Parents(p)) \in Nat)
    BY <1>3, ParentsType
  <2>2. Rest'
    BY <1>1, <1>16, <2>1 DEF Resolve, remoteVars, Loaded
  <2>3. work[t].step = "resolve" /\ UNCHANGED cloud /\ work' = [work EXCEPT ![t] = w]
    BY <1>16 DEF Resolve
  <2>4. w \in Work /\ w.hash = work[t].hash /\ w.step \in {"create", "put"}
    BY <1>1, <2>1 DEF Work, Step
  <2> HIDE DEF w
  <2> QED
    BY <1>4, <2>2, <2>3, <2>4, WorkStep
<1>17. ASSUME NEW t \in Thread, CreateDir(t)
       PROVE  Rest' /\ work' \in [Thread -> Work] /\ StepsFit'
  <2> DEFINE p == ProcessOf[t]
             m == Min(ids[p])
             w == IF ids[p] # {} THEN [work[t] EXCEPT !.step = "put", !.dir = m]
                  ELSE [work[t] EXCEPT !.step = "creating"]
  <2>1. p \in Process /\ ids[p] \in SUBSET Nat /\ (ids[p] # {} => m \in Nat)
    <3>1. p \in Process /\ ids[p] \in SUBSET Nat
      BY <1>1, <1>3, <1>17 DEF CreateDir, OneCreator
    <3> QED
      BY <3>1, MinIsMember
  <2>2. Rest'
    BY <1>1, <1>17, <2>1 DEF CreateDir, remoteVars
  <2>3. work[t].step = "create" /\ UNCHANGED cloud /\ work' = [work EXCEPT ![t] = w]
    BY <1>17 DEF CreateDir, Goto, Recheck
  <2> HIDE DEF m
  <2>4. w \in Work /\ w.hash = work[t].hash /\ w.step \in {"creating", "put"}
    <3>1. CASE ids[p] # {}
      <4>1. w = [work[t] EXCEPT !.step = "put", !.dir = m] /\ m \in Nat
        BY <2>1, <3>1
      <4>2. work[t] \in Work
        BY <1>1
      <4> HIDE DEF w
      <4> QED
        BY <4>1, <4>2 DEF Work, Step
    <3>2. CASE ids[p] = {}
      <4>1. w = [work[t] EXCEPT !.step = "creating"]
        BY <3>2
      <4> QED
        BY <1>1, <4>1 DEF Work, Step
    <3> QED
      BY <3>1, <3>2
  <2> HIDE DEF w
  <2> QED
    BY <1>4, <2>2, <2>3, <2>4, WorkStep
<1>18. ASSUME NEW t \in Thread, DirCreated(t)
       PROVE  Rest' /\ work' \in [Thread -> Work] /\ StepsFit'
  <2> DEFINE w == [work[t] EXCEPT !.step = "put", !.dir = fresh]
  <2>1. ids[ProcessOf[t]] \in SUBSET Nat
    BY <1>1, <1>3, <1>18 DEF DirCreated, OneCreator
  <2>2. Rest'
    BY <1>1, <1>3, <1>18, <2>1 DEF DirCreated
  <2>3. work[t].step = "creating" /\ UNCHANGED cloud /\ work' = [work EXCEPT ![t] = w]
    BY <1>18 DEF DirCreated
  <2>4. fresh \in Nat /\ work[t] \in Work
    BY <1>1
  <2>5. w \in Work
    BY <2>4 DEF Work, Step
  <2>6. w.hash = work[t].hash /\ w.step = "put"
    BY <2>4 DEF Work
  <2> HIDE DEF w
  <2> QED
    BY <1>4, <2>2, <2>3, <2>5, <2>6, WorkStep
<1>19. ASSUME NEW t \in Thread, DirCreatedUnheard(t)
       PROVE  Rest' /\ work' \in [Thread -> Work] /\ StepsFit'
  <2>1. ProcessOf[t] \in Process /\ made[ProcessOf[t]] + 1 \in Nat /\ unheard[ProcessOf[t]] + 1 \in Nat
    BY <1>1, <1>3
  <2>2. made' \in [Process -> Nat] /\ unheard' \in [Process -> Nat] /\ fresh + 1 \in Nat
    BY <1>1, <1>19, <2>1 DEF DirCreatedUnheard
  <2>3. dirs' \in SUBSET Nat /\ fresh' \in Nat
    BY <1>1, <1>19, <2>2 DEF DirCreatedUnheard
  <2> QED
    BY <1>1, <1>19, <2>2, <2>3 DEF DirCreatedUnheard, StepsFit
<1>20. ASSUME NEW t \in Thread, work[t].step = "put"
       PROVE  NewItem(t) \in Item
  BY <1>1, <1>4, <1>20 DEF NewItem, Item, Work
<1>21. ASSUME NEW t \in Thread, PutItem(t)
       PROVE  Rest' /\ work' \in [Thread -> Work] /\ StepsFit'
  <2>1. Rest'
    BY <1>1, <1>20, <1>21 DEF PutItem, driveVars
  <2> QED
    BY <1>6, <1>21, <2>1 DEF PutItem, Uploaded
<1>22. ASSUME NEW t \in Thread, PutItemUnheard(t)
       PROVE  Rest' /\ work' \in [Thread -> Work] /\ StepsFit'
  BY <1>1, <1>20, <1>22 DEF PutItemUnheard, driveVars, StepsFit
<1>23. ASSUME NEW t \in Thread, NEW h \in Hash, RemoveItem(t, h)
       PROVE  Rest' /\ work' \in [Thread -> Work] /\ StepsFit'
  <2>1. Known(ProcessOf[t]) \in SUBSET Nat
    BY <1>3, ParentsType
  <2>2. ids' \in [Process -> {Unlisted} \cup SUBSET Nat]
    BY <1>1, <1>23, <2>1 DEF RemoveItem, Loaded
  <2>3. Rest'
    BY <1>1, <1>23, <2>2 DEF RemoveItem
  <2>4. \A u \in Thread : [work[u] EXCEPT !.step = "lost"] \in Work
    BY <1>1 DEF Work, Step
  <2>5. work' \in [Thread -> Work] /\ UNCHANGED cloud
    BY <1>1, <1>23, <2>4 DEF RemoveItem
  <2>6. \A u \in Thread : /\ work'[u].hash = work[u].hash
                          /\ work'[u].step = "idle" <=> work[u].step = "idle"
                          /\ work'[u].step = "makedirs" => work[u].step = "makedirs"
                          /\ work'[u].step \in {"open", "writing"} => work[u].step \in {"open", "writing"}
    BY <1>1, <1>23 DEF RemoveItem, Work
  <2> QED
    BY <2>3, <2>5, <2>6 DEF StepsFit
<1>24. ASSUME NEW p \in Process, NEW S \in SUBSET Hash, Download(p, S)
       PROVE  Rest' /\ work' \in [Thread -> Work] /\ StepsFit'
  <2>1. Known(p) \in SUBSET Nat
    BY ParentsType
  <2>2. ids' \in [Process -> {Unlisted} \cup SUBSET Nat]
    BY <1>1, <1>24, <2>1 DEF Download, Loaded
  <2> DEFINE r == [step |-> "running", all |-> S, pending |-> S, failed |-> FALSE]
  <2>3. r \in Fetch /\ fetch' = [fetch EXCEPT ![p] = r]
    BY <1>24 DEF Download, Fetch
  <2> HIDE DEF r
  <2>4. fetch' \in [Process -> Fetch]
    BY <1>1, <2>3
  <2>5. copy' \in [Process -> SUBSET [name : Hash, whole : BOOLEAN]]
    BY <1>1, <1>24 DEF Download
  <2>6. UNCHANGED <<cloud, dirs, items, litter, creator, made, unheard, fresh, work>>
    BY <1>24 DEF Download, remoteVars
  <2> QED
    BY <1>1, <2>2, <2>4, <2>5, <2>6 DEF StepsFit
<1>25. \A p \in Process : Listed(p) \in SUBSET Hash
  BY <1>1 DEF Listed, Item
<1>26. ASSUME NEW t \in Thread, NEW h \in Hash, Read(t, h)
       PROVE  Rest' /\ work' \in [Thread -> Work] /\ StepsFit'
  <2> DEFINE i == Chosen(ProcessOf[t], h)
             w == [step |-> "move", hash |-> h, dir |-> 0, whole |-> i.whole]
  <2>1. i \in items
    BY <1>1, <1>26, ChosenIsFound DEF Read, Found
  <2> HIDE DEF i
  <2>2. w \in Work /\ w.hash = h /\ w.step = "move"
    BY <1>1, <2>1 DEF Work, Step, Item
  <2>3. work' = [work EXCEPT ![t] = w] /\ UNCHANGED cloud
    BY <1>26 DEF Read, i
  <2>4. fetch' \in [Process -> Fetch]
    <3> DEFINE p == ProcessOf[t]
               r == [fetch[p] EXCEPT !.pending = @ \ {h}]
    <3>1. fetch[p] \in Fetch /\ p \in Process /\ fetch[p].pending \ {h} \in SUBSET Hash
      BY <1>1, <1>3 DEF Fetch
    <3>2. r \in Fetch
      BY <3>1, FetchType
    <3>3. fetch' = [fetch EXCEPT ![p] = r]
      BY <1>26 DEF Read
    <3> HIDE DEF r
    <3> QED
      BY <1>1, <3>1, <3>2, <3>3
  <2>5. UNCHANGED <<cloud, dirs, items, litter, ids, creator, made, unheard, fresh, copy>>
    BY <1>26 DEF Read, remoteVars, driveVars
  <2>6. Rest'
    BY <1>1, <2>4, <2>5
  <2> HIDE DEF w
  <2> QED
    BY <2>2, <2>3, <2>6, WorkStep
<1>27. ASSUME NEW t \in Thread, NEW h \in Hash, ReadMissing(t, h)
       PROVE  Rest' /\ work' \in [Thread -> Work] /\ StepsFit'
  <2>1. UNCHANGED <<cloud, dirs, items, litter, ids, creator, made, unheard, fresh, work, copy>>
    BY <1>27 DEF ReadMissing, remoteVars, driveVars
  <2>2. fetch' \in [Process -> Fetch]
    <3> DEFINE p == ProcessOf[t]
               r == [fetch[p] EXCEPT !.pending = @ \ {h}, !.failed = TRUE]
    <3>1. fetch[p] \in Fetch /\ p \in Process /\ fetch[p].pending \ {h} \in SUBSET Hash
      BY <1>1, <1>3 DEF Fetch
    <3>2. r \in Fetch
      BY <3>1, FetchType
    <3>3. fetch' = [fetch EXCEPT ![p] = r]
      BY <1>27 DEF ReadMissing
    <3> HIDE DEF r
    <3> QED
      BY <1>1, <3>1, <3>2, <3>3
  <2>3. Rest'
    BY <1>1, <2>1, <2>2
  <2>4. work' \in [Thread -> Work] /\ StepsFit'
    BY <1>1, <2>1 DEF StepsFit
  <2> QED
    BY <2>3, <2>4
<1>28. ASSUME NEW t \in Thread, Move(t)
       PROVE  Rest' /\ work' \in [Thread -> Work] /\ StepsFit'
  <2> DEFINE c == [name |-> work[t].hash, whole |-> work[t].whole]
  <2>1. c \in [name : Hash, whole : BOOLEAN]
    BY <1>1, <1>4, <1>28 DEF Move, Work
  <2>2. copy' = [copy EXCEPT ![ProcessOf[t]] = @ \cup {c}]
    BY <1>28 DEF Move
  <2> HIDE DEF c
  <2>3. copy' \in [Process -> SUBSET [name : Hash, whole : BOOLEAN]]
    BY <1>1, <1>3, <2>1, <2>2
  <2>4. Rest'
    BY <1>1, <1>28, <2>3 DEF Move, remoteVars, driveVars
  <2> QED
    BY <1>6, <1>28, <2>4 DEF Move
<1>29. ASSUME NEW p \in Process, Cancel(p)
       PROVE  Rest' /\ work' \in [Thread -> Work] /\ StepsFit'
  <2> DEFINE r == [fetch[p] EXCEPT !.pending = {}]
  <2>1. r \in Fetch
    BY <1>1, FetchType
  <2>2. fetch' = [fetch EXCEPT ![p] = r]
    BY <1>29 DEF Cancel
  <2> HIDE DEF r
  <2>3. fetch' \in [Process -> Fetch]
    BY <1>1, <2>1, <2>2
  <2>4. UNCHANGED <<cloud, dirs, items, litter, ids, creator, made, unheard, fresh, work, copy>>
    BY <1>29 DEF Cancel, remoteVars, driveVars
  <2> QED
    BY <1>1, <2>3, <2>4 DEF StepsFit
<1>30. ASSUME NEW p \in Process, DownloadEnds(p)
       PROVE  Rest' /\ work' \in [Thread -> Work] /\ StepsFit'
  <2> DEFINE s == IF fetch[p].failed THEN "failed" ELSE "ok"
             r == [fetch[p] EXCEPT !.step = s]
  <2>1. r \in Fetch
    BY <1>1, FetchType
  <2>2. fetch' = [fetch EXCEPT ![p] = r]
    BY <1>30 DEF DownloadEnds
  <2> HIDE DEF r
  <2>3. fetch' \in [Process -> Fetch]
    BY <1>1, <2>1, <2>2
  <2>4. UNCHANGED <<cloud, dirs, items, litter, ids, creator, made, unheard, fresh, work, copy>>
    BY <1>30 DEF DownloadEnds, remoteVars, driveVars
  <2> QED
    BY <1>1, <2>3, <2>4 DEF StepsFit
<1>31. \A T \in SUBSET Thread : Litter(T) \in SUBSET Hash
  BY <1>4 DEF Litter
<1>32. ASSUME NEW t \in Thread, Fail(t)
       PROVE  Rest' /\ work' \in [Thread -> Work] /\ StepsFit'
  <2>1. litter' \in SUBSET Hash
    BY <1>1, <1>31, <1>32 DEF Fail
  <2>2. creator' \in [Process -> Thread \cup {None}]
    BY <1>1, <1>32 DEF Fail
  <2> DEFINE f == fetch[ProcessOf[t]].failed \/ work[t].step = "move"
  <2>3. f \in BOOLEAN /\ fetch' = [fetch EXCEPT ![ProcessOf[t]].failed = f]
    BY <1>1, <1>32 DEF Fail
  <2> HIDE DEF f
  <2>4. fetch' \in [Process -> Fetch]
    <3> DEFINE r == [fetch[ProcessOf[t]] EXCEPT !.failed = f]
    <3>1. r \in Fetch
      BY <1>1, <1>3, <2>3, FetchType
    <3>2. fetch' = [fetch EXCEPT ![ProcessOf[t]] = r]
      BY <2>3
    <3> HIDE DEF r
    <3> QED
      BY <1>1, <1>3, <3>1, <3>2
  <2>5. Rest'
    BY <1>1, <1>32, <2>1, <2>2, <2>4 DEF Fail
  <2> QED
    BY <1>6, <1>32, <2>5 DEF Fail
<1>33. ASSUME NEW p \in Process, Kill(p)
       PROVE  Rest' /\ work' \in [Thread -> Work] /\ StepsFit'
  <2>1. litter' \in SUBSET Hash
    BY <1>1, <1>31, <1>33 DEF Kill, Threads
  <2>2. Rest'
    <3>1. fetch' \in [Process -> Fetch]
      BY <1>1, <1>33 DEF Kill, NoFetch, Fetch
    <3>2. ids' \in [Process -> {Unlisted} \cup SUBSET Nat] /\ made' \in [Process -> Nat]
          /\ unheard' \in [Process -> Nat]
      BY <1>1, <1>33 DEF Kill
    <3>3. /\ creator' \in [Process -> Thread \cup {None}]
          /\ copy' \in [Process -> SUBSET [name : Hash, whole : BOOLEAN]]
      BY <1>1, <1>33 DEF Kill
    <3>4. UNCHANGED <<cloud, dirs, items, fresh>>
      BY <1>33 DEF Kill
    <3> QED
      BY <1>1, <2>1, <3>1, <3>2, <3>3, <3>4
  <2>3. /\ work' \in [Thread -> Work]
        /\ \A u \in Thread : work'[u] = Idle \/ work'[u] = work[u]
        /\ UNCHANGED cloud
    BY <1>1, <1>33, IdleType DEF Kill
  <2> QED
    BY <2>2, <2>3, IdleType DEF StepsFit
<1>34. CASE UNCHANGED vars
  BY <1>1, <1>34 DEF vars, StepsFit
<1>35. ASSUME NEW t \in Thread, NEW h \in Hash,
              Upload(t, h) \/ RemoveItem(t, h) \/ Read(t, h) \/ ReadMissing(t, h)
       PROVE  Rest' /\ work' \in [Thread -> Work] /\ StepsFit'
  BY <1>7, <1>23, <1>26, <1>27, <1>35, Zenon
<1>36. ASSUME NEW p \in Process, NEW h \in Hash, Download(p, {h})
       PROVE  Rest' /\ work' \in [Thread -> Work] /\ StepsFit'
  <2>1. {h} \in SUBSET Hash
    OBVIOUS
  <2> QED
    BY <1>24, <1>36, <2>1, Zenon
<1>37. ASSUME NEW p \in Process, Download(p, Listed(p))
       PROVE  Rest' /\ work' \in [Thread -> Work] /\ StepsFit'
  BY <1>24, <1>25, <1>37, Zenon
<1> HIDE DEF Rest
<1> QED
  BY <1>8, <1>9, <1>10, <1>11, <1>12, <1>13, <1>14, <1>15, <1>16, <1>17, <1>18, <1>19,
     <1>21, <1>22, <1>28, <1>29, <1>30, <1>32, <1>33, <1>34, <1>35, <1>36, <1>37, Zenon
     DEF Next

(* A process that lists the directories keeps those it knows. *)
LEMMA LoadedStep ==
    ASSUME TypeOK, NEW p \in Process, Loaded(p)
    PROVE  /\ ids'[p] # Unlisted
           /\ \A q \in Process : ids[q] # Unlisted => ids'[q] = ids[q]
<1>1. \A D \in SUBSET Nat : D # Unlisted
  BY NoneAssumption DEF Unlisted
<1> QED
  BY <1>1 DEF TypeOK, Loaded, Known

(* Steps in which no thread comes to make a directory, and no process comes *)
(* to know another one.                                                      *)
LEMMA NobodyCreates ==
    ASSUME TypeOK, OneCreator, UNCHANGED <<creator, made, unheard>>,
           \A q \in Process : ids[q] # Unlisted => ids'[q] = ids[q],
           \A u \in Thread : work'[u].step \in {"create", "creating"} =>
                                work'[u].step = work[u].step
    PROVE  OneCreator'
<1>1. \A u \in Thread : ProcessOf[u] \in Process
  BY ProcessOfAssumption
<1> QED
  BY <1>1 DEF OneCreator

(* The lock of _create_dir is respected by every step. *)
LEMMA OneCreatorStep ==
    ASSUME TypeOK, StepsFit, OneCreator, [Next]_vars
    PROVE  OneCreator'
<1>1. work \in [Thread -> Work]
  BY DEF TypeOK, Work
<1>2. \A u \in Thread : ProcessOf[u] \in Process
  BY ProcessOfAssumption
<1>3. \A D \in SUBSET Nat : D # Unlisted
  BY NoneAssumption DEF Unlisted
<1>4. ASSUME NEW t \in Thread, NEW w, w.step \notin {"create", "creating"},
             work' = [work EXCEPT ![t] = w]
      PROVE  \A u \in Thread : work'[u].step \in {"create", "creating"} =>
                                  work'[u].step = work[u].step
  BY <1>1, <1>4
<1>5. ASSUME NEW t \in Thread, NEW w, w.step \notin {"create", "creating"},
             work' = [work EXCEPT ![t] = w], UNCHANGED driveVars
      PROVE  OneCreator'
  BY <1>4, <1>5, NobodyCreates DEF driveVars
<1>6. ASSUME UNCHANGED work, UNCHANGED driveVars
      PROVE  OneCreator'
  BY <1>6, NobodyCreates DEF driveVars
<1>7. ASSUME NEW t \in Thread, NEW h \in Hash, Upload(t, h)
      PROVE  OneCreator'
  <2> DEFINE w == [Idle EXCEPT !.hash = h, !.step = Head(Steps(cloud))]
  <2>1. w.step = Head(Steps(cloud))
    BY DEF Idle
  <2>2. cloud \in Clouds
    BY CloudAssumption DEF TypeOK
  <2>3. work' = [work EXCEPT ![t] = w] /\ UNCHANGED driveVars
    BY <1>7 DEF Upload
  <2> HIDE DEF w
  <2> QED
    BY <1>5, <2>1, <2>2, <2>3, StepsOfClouds
<1>8. ASSUME NEW t \in Thread, work' = [work EXCEPT ![t] = Idle], UNCHANGED driveVars
      PROVE  OneCreator'
  BY <1>5, <1>8, IdleType
<1>9. ASSUME NEW t \in Thread,
             PutObject(t) \/ Rename(t) \/ RenameRefused(t) \/ Close(t) \/ Lost(t)
             \/ PutItem(t) \/ Move(t)
      PROVE  OneCreator'
  <2>1. work' = [work EXCEPT ![t] = Idle] /\ UNCHANGED driveVars
    BY <1>9 DEF PutObject, Rename, RenameRefused, Close, Lost, PutItem, Move, Uploaded
  <2> QED
    BY <1>8, <2>1
<1>10. ASSUME NEW t \in Thread, MakeDirs(t) \/ WriteTemporary(t)
       PROVE  OneCreator'
  <2>1. UNCHANGED driveVars /\ \E s \in {"rename", "write", "open"} : Goto(t, s)
    <3>1. CASE MakeDirs(t)
      <4>1. cloud \in Clouds /\ cloud \in {"ssh", "local", "webdav"}
        BY <3>1, CloudAssumption DEF MakeDirs, StepsFit, TypeOK
      <4>2. Steps(cloud)[2] \in {"write", "open"}
        BY <4>1, StepsOfClouds
      <4> QED
        BY <3>1, <4>2 DEF MakeDirs
    <3>2. CASE WriteTemporary(t)
      BY <3>2 DEF WriteTemporary
    <3> QED
      BY <1>10, <3>1, <3>2
  <2>2. PICK s \in {"rename", "write", "open"} : Goto(t, s)
    BY <2>1
  <2> DEFINE w == [work[t] EXCEPT !.step = s]
  <2>3. w.step = s
    BY <1>1 DEF Work
  <2>4. work' = [work EXCEPT ![t] = w]
    BY <2>2 DEF Goto
  <2> HIDE DEF w
  <2> QED
    BY <1>5, <2>1, <2>3, <2>4
<1>11. ASSUME NEW t \in Thread, Open(t)
       PROVE  OneCreator'
  <2>1. \A u \in Thread : work'[u].step \in {"create", "creating"} =>
                             work'[u].step = work[u].step
    BY <1>1, <1>11 DEF Open, Work
  <2> QED
    BY <1>11, <2>1, NobodyCreates DEF Open, driveVars
<1>12. ASSUME NEW t \in Thread, Resolve(t)
       PROVE  OneCreator'
  <2> DEFINE p == ProcessOf[t]
  <2>1. /\ ids'[p] # Unlisted
        /\ \A q \in Process : ids[q] # Unlisted => ids'[q] = ids[q]
    BY <1>2, <1>12, LoadedStep DEF Resolve
  <2>2. /\ work'[t].step \in {"put", "create"}
        /\ \A u \in Thread \ {t} : work'[u] = work[u]
    BY <1>1, <1>12 DEF Resolve, Work
  <2>3. UNCHANGED <<creator, made, unheard>>
    BY <1>12 DEF Resolve
  <2> QED
    BY <1>2, <2>1, <2>2, <2>3 DEF OneCreator
<1>13. ASSUME NEW t \in Thread, CreateDir(t)
       PROVE  OneCreator'
  <2> DEFINE p == ProcessOf[t]
  <2>1. p \in Process /\ ids[p] # Unlisted /\ UNCHANGED <<ids, made, unheard>> /\ creator[p] = None
    BY <1>2, <1>13 DEF CreateDir, OneCreator
  <2>2. \A u \in Thread \ {t} : work'[u] = work[u]
    BY <1>1, <1>13 DEF CreateDir, Goto
  <2>3. CASE ids[p] # {}
    <3>1. work'[t].step = "put" /\ UNCHANGED creator
      BY <1>1, <1>13, <2>3 DEF CreateDir, Recheck, Work
    <3> QED
      BY <1>2, <2>1, <2>2, <3>1 DEF OneCreator
  <2>4. CASE ids[p] = {}
    <3>1. work'[t].step = "creating" /\ creator' = [creator EXCEPT ![p] = t]
      BY <1>1, <1>13, <2>4 DEF CreateDir, Recheck, Goto, Work
    <3>2. creator'[p] = t /\ \A q \in Process \ {p} : creator'[q] = creator[q]
      BY <2>1, <3>1 DEF TypeOK
    <3>3. \A u \in Thread : ProcessOf[u] = p => work[u].step # "creating"
      BY <2>1, NoneAssumption DEF OneCreator
    <3> QED
      BY <1>2, <2>1, <2>2, <2>4, <3>1, <3>2, <3>3 DEF OneCreator
  <2> QED
    BY <2>3, <2>4
<1>14. ASSUME NEW t \in Thread, DirCreated(t)
       PROVE  OneCreator'
  <2> DEFINE p == ProcessOf[t]
  <2>1. /\ p \in Process /\ creator[p] = t /\ ids[p] = {} /\ fresh \in Nat
        /\ made[p] = unheard[p] /\ made[p] \in Nat
    BY <1>2, <1>14 DEF DirCreated, OneCreator, TypeOK
  <2>2. /\ ids'[p] = {fresh} /\ made'[p] = unheard[p] + 1 /\ unheard' = unheard
        /\ \A q \in Process \ {p} : ids'[q] = ids[q] /\ made'[q] = made[q] /\ creator'[q] = creator[q]
    BY <1>14, <2>1 DEF DirCreated, TypeOK
  <2>3. ids'[p] # {} /\ ids'[p] # Unlisted
    BY <1>3, <2>1, <2>2
  <2>4. work'[t].step = "put" /\ \A u \in Thread \ {t} : work'[u] = work[u]
    BY <1>1, <1>14 DEF DirCreated, Work
  <2>5. \A u \in Thread \ {t} : ProcessOf[u] = p => work[u].step # "creating"
    BY <2>1 DEF OneCreator
  <2> QED
    BY <1>2, <2>2, <2>3, <2>4, <2>5 DEF OneCreator
<1>15. ASSUME NEW t \in Thread, DirCreatedUnheard(t) \/ PutItemUnheard(t)
       PROVE  OneCreator'
  <2> DEFINE p == ProcessOf[t]
  <2>1. CASE PutItemUnheard(t)
    BY <1>6, <2>1 DEF PutItemUnheard
  <2>2. CASE DirCreatedUnheard(t)
    <3>1. /\ p \in Process /\ UNCHANGED <<ids, creator, work>>
          /\ \A q \in Process : made[q] \in Nat /\ unheard[q] \in Nat
      BY <1>2, <2>2 DEF DirCreatedUnheard, TypeOK
    <3>2. /\ made'[p] = made[p] + 1 /\ unheard'[p] = unheard[p] + 1
          /\ \A q \in Process \ {p} : made'[q] = made[q] /\ unheard'[q] = unheard[q]
      BY <2>2, <3>1 DEF DirCreatedUnheard, TypeOK
    <3> QED
      BY <3>1, <3>2 DEF OneCreator
  <2> QED
    BY <1>15, <2>1, <2>2
<1>16. ASSUME NEW t \in Thread, NEW h \in Hash, RemoveItem(t, h)
       PROVE  OneCreator'
  <2>1. \A q \in Process : ids[q] # Unlisted => ids'[q] = ids[q]
    BY <1>2, <1>16, LoadedStep DEF RemoveItem
  <2>2. \A u \in Thread : work'[u].step \in {"create", "creating"} =>
                             work'[u].step = work[u].step
    BY <1>1, <1>16 DEF RemoveItem, Work
  <2> QED
    BY <1>16, <2>1, <2>2, NobodyCreates DEF RemoveItem
<1>17. ASSUME NEW p \in Process, NEW S, Download(p, S)
       PROVE  OneCreator'
  <2>1. \A q \in Process : ids[q] # Unlisted => ids'[q] = ids[q]
    BY <1>17, LoadedStep DEF Download
  <2> QED
    BY <1>17, <2>1, NobodyCreates DEF Download
<1>18. ASSUME NEW t \in Thread, NEW h \in Hash, Read(t, h)
       PROVE  OneCreator'
  <2> DEFINE w == [step |-> "move", hash |-> h, dir |-> 0,
                   whole |-> Chosen(ProcessOf[t], h).whole]
  <2>1. work' = [work EXCEPT ![t] = w] /\ UNCHANGED driveVars
    BY <1>18 DEF Read
  <2>2. w.step = "move"
    OBVIOUS
  <2> HIDE DEF w
  <2> QED
    BY <1>5, <2>1, <2>2
<1>19. ASSUME NEW t \in Thread, NEW h \in Hash, ReadMissing(t, h)
       PROVE  OneCreator'
  BY <1>6, <1>19 DEF ReadMissing
<1>20. ASSUME NEW p \in Process, Cancel(p) \/ DownloadEnds(p)
       PROVE  OneCreator'
  BY <1>6, <1>20 DEF Cancel, DownloadEnds
<1>21. ASSUME NEW t \in Thread, Fail(t)
       PROVE  OneCreator'
  <2> DEFINE p == ProcessOf[t]
  <2>1. /\ UNCHANGED <<ids, made, unheard>> /\ work' = [work EXCEPT ![t] = Idle]
        /\ \A q \in Process : creator'[q] = IF q = p /\ creator[q] = t THEN None ELSE creator[q]
    BY <1>21 DEF Fail, TypeOK
  <2>2. work'[t].step = "idle" /\ \A u \in Thread \ {t} : work'[u] = work[u]
    BY <1>1, <2>1, IdleType
  <2> QED
    BY <1>2, <2>1, <2>2 DEF OneCreator
<1>22. ASSUME NEW p \in Process, Kill(p)
       PROVE  OneCreator'
  <2>1. /\ ids'[p] = Unlisted /\ made'[p] = 0 /\ unheard'[p] = 0
        /\ \A q \in Process \ {p} : ids'[q] = ids[q] /\ made'[q] = made[q]
                                   /\ unheard'[q] = unheard[q] /\ creator'[q] = creator[q]
    BY <1>22 DEF Kill, TypeOK
  <2>2. \A u \in Thread : IF ProcessOf[u] = p THEN work'[u].step = "idle" ELSE work'[u] = work[u]
    BY <1>22, IdleType DEF Kill
  <2> QED
    BY <1>2, <2>1, <2>2 DEF OneCreator
<1>23. CASE UNCHANGED vars
  BY <1>6, <1>23 DEF vars, driveVars
<1>24. ASSUME NEW t \in Thread, NEW h \in Hash,
              Upload(t, h) \/ RemoveItem(t, h) \/ Read(t, h) \/ ReadMissing(t, h)
       PROVE  OneCreator'
  BY <1>7, <1>16, <1>18, <1>19, <1>24, Zenon
<1> QED
  BY <1>9, <1>10, <1>11, <1>12, <1>13, <1>14, <1>15, <1>17, <1>20, <1>21, <1>22,
     <1>23, <1>24, Zenon DEF Next

(* Every variable of the trees has its type in every reachable state. *)
THEOREM TreesTypes == Spec => [](TypeOK /\ StepsFit /\ OneCreator)
<1>1. Init => TypeOK /\ StepsFit /\ OneCreator
  <2> SUFFICES ASSUME Init PROVE TypeOK /\ StepsFit /\ OneCreator
    OBVIOUS
  <2>1. TypeOK
    BY IdleType DEF Init, TypeOK, Work, NoFetch, Unlisted
  <2>2. \A t \in Thread : work[t].step = "idle"
    BY IdleType DEF Init
  <2> QED
    BY <2>1, <2>2 DEF Init, StepsFit, OneCreator
<1> QED
  BY <1>1, TreesTypeStep, OneCreatorStep, PTL DEF Spec

(* However many threads upload into a directory of Drive that is not there,  *)
(* their process has Drive make it once, and once more for every answer that *)
(* was an error (gdrive.py:450): no two threads make it, which is what the   *)
(* lock of _create_dir and the second look under it are for (gdrive.py:459). *)
THEOREM DirectoryMadeOnce == Spec => []OneDirectory
<1>1. TypeOK /\ OneCreator => OneDirectory
  BY DEF TypeOK, OneCreator, OneDirectory
<1> QED
  BY <1>1, TreesTypes, PTL

-----------------------------------------------------------------------------
(* An item that may be seen is whole, or is known to be a part of an object. *)
Sound(i) ==
    i.whole \/ (/\ cloud \in InPlace
                /\ \/ i.name \in broken
                   \/ \E t \in Thread : work[t].step = "writing" /\ work[t].hash = i.name)

LEMMA ObjectsWholeIs ==
    ObjectsWhole <=> /\ \A s \in stored : \E i \in items : i.name = s[2]
                     /\ \A i \in items : Sound(i)
BY DEF ObjectsWhole, Sound

LEMMA PutProperties ==
    ASSUME NEW h \in Hash, NEW whole \in BOOLEAN, items' = Put(h, whole)
    PROVE  /\ \A i \in items : i.name # h => i \in items'
           /\ \A i \in items' : \/ i \in items /\ i.name # h
                                \/ i.name = h /\ i.whole = whole
           /\ \E i \in items' : i.name = h
<1> DEFINE new == [id |-> 0, dir |-> 0, name |-> h, whole |-> whole]
<1>1. items' = {i \in items : i.name # h} \cup {new}
  BY DEF Put
<1>2. new.name = h /\ new.whole = whole
  OBVIOUS
<1> HIDE DEF new
<1> QED
  BY <1>1, <1>2

(* Every step leaves the objects whole. *)
LEMMA ObjectsWholeStep ==
    ASSUME TypeOK, StepsFit, ObjectsWhole, [Next]_vars
    PROVE  ObjectsWhole'
<1>1. /\ \A s \in stored : \E i \in items : i.name = s[2]
      /\ \A i \in items : Sound(i)
  BY ObjectsWholeIs
<1> DEFINE Goal == /\ \A s \in stored' : \E i \in items' : i.name = s[2]
                   /\ \A i \in items' : Sound(i)'
<1> SUFFICES Goal
  BY DEF ObjectsWhole, Sound
<1>2. work \in [Thread -> Work]
  BY DEF TypeOK, Work
(* A step that touches no object, and no thread that writes one. *)
<1>3. ASSUME UNCHANGED <<items, stored, broken, cloud>>,
             \A u \in Thread : work[u].step = "writing" => work'[u] = work[u]
      PROVE  Goal
  BY <1>1, <1>3 DEF Sound
<1>4. ASSUME NEW t \in Thread, NEW w, work[t].step # "writing", work' = [work EXCEPT ![t] = w],
             UNCHANGED <<items, stored, broken, cloud>>
      PROVE  Goal
  <2>1. \A u \in Thread : work[u].step = "writing" => work'[u] = work[u]
    BY <1>2, <1>4
  <2> QED
    BY <1>3, <1>4, <2>1
<1>5. ASSUME NEW t \in Thread, NEW h \in Hash, Upload(t, h) \/ Read(t, h)
      PROVE  Goal
  BY <1>4, <1>5 DEF Upload, Read, remoteVars, ghosts
<1>6. ASSUME NEW t \in Thread,
             MakeDirs(t) \/ WriteTemporary(t) \/ RenameRefused(t) \/ Lost(t) \/ Move(t)
      PROVE  Goal
  <2>1. \/ RenameRefused(t) \/ Lost(t) \/ Move(t)
        \/ MakeDirs(t) \/ WriteTemporary(t)
    BY <1>6
  <2>2. /\ work[t].step # "writing" /\ UNCHANGED <<items, stored, broken, cloud>>
        /\ \E w : work' = [work EXCEPT ![t] = w]
    BY <2>1 DEF RenameRefused, Lost, Move, MakeDirs, WriteTemporary, Goto, remoteVars, ghosts
  <2> QED
    BY <1>4, <2>2
<1>7. ASSUME NEW t \in Thread, Resolve(t) \/ CreateDir(t) \/ DirCreated(t) \/ DirCreatedUnheard(t)
      PROVE  Goal
  <2>1. \A u \in Thread : work[u].step = "writing" => work'[u] = work[u]
    <3>1. ASSUME Resolve(t) \/ DirCreated(t)
          PROVE  \A u \in Thread : work[u].step = "writing" => work'[u] = work[u]
      BY <1>2, <3>1 DEF Resolve, DirCreated
    <3>2. ASSUME CreateDir(t) \/ DirCreatedUnheard(t)
          PROVE  \A u \in Thread : work[u].step = "writing" => work'[u] = work[u]
      BY <1>2, <3>2 DEF CreateDir, Goto, DirCreatedUnheard
    <3> QED
      BY <1>7, <3>1, <3>2
  <2>2. UNCHANGED <<items, stored, broken, cloud>>
    BY <1>7 DEF Resolve, CreateDir, DirCreated, DirCreatedUnheard, remoteVars, ghosts
  <2> QED
    BY <1>3, <2>1, <2>2
(* The whole object is put, and whoever else was writing it has lost it. *)
<1>8. ASSUME NEW t \in Thread, work[t].step # "idle", items' = Put(work[t].hash, TRUE),
             Uploaded(t), UNCHANGED cloud
      PROVE  Goal
  <2> DEFINE h == work[t].hash
  <2>1. h \in Hash
    BY <1>8 DEF StepsFit
  <2> HIDE DEF h
  <2>2. /\ \A i \in items : i.name # h => i \in items'
        /\ \A i \in items' : i.whole \/ (i \in items /\ i.name # h)
        /\ \E i \in items' : i.name = h
    BY <1>8, <2>1, PutProperties DEF h
  <2>3. /\ stored' = stored \cup {<<ProcessOf[t], h>>}
        /\ broken' = broken \ {h}
        /\ \A u \in Thread \ {t} : work'[u] = work[u]
    BY <1>2, <1>8 DEF Uploaded, h
  <2>4. \A s \in stored' : \E i \in items' : i.name = s[2]
    BY <1>1, <2>2, <2>3
  <2>5. \A i \in items' : Sound(i)'
    <3> SUFFICES ASSUME NEW i \in items', ~i.whole PROVE Sound(i)'
      BY DEF Sound
    <3>1. i \in items /\ i.name # h /\ Sound(i)
      BY <1>1, <2>2
    <3> QED
      BY <1>8, <2>3, <3>1 DEF Sound, h
  <2> QED
    BY <2>4, <2>5
<1>9. ASSUME NEW t \in Thread, PutObject(t) \/ Rename(t) \/ Close(t)
      PROVE  Goal
  <2>1. work[t].step # "idle" /\ items' = Put(work[t].hash, TRUE) /\ Uploaded(t) /\ UNCHANGED cloud
    BY <1>9 DEF PutObject, Rename, Close
  <2> QED
    BY <1>8, <2>1
<1>10. ASSUME NEW t \in Thread, Open(t)
       PROVE  Goal
  <2> DEFINE h == work[t].hash
  <2>1. h \in Hash /\ cloud \in InPlace /\ UNCHANGED <<cloud, stored, broken>>
        /\ items' = Put(h, FALSE)
    BY <1>10 DEF StepsFit, Open, ghosts
  <2>2. /\ \A i \in items : i.name # h => i \in items'
        /\ \A i \in items' : \/ i \in items /\ i.name # h
                             \/ i.name = h
        /\ \E i \in items' : i.name = h
    BY <2>1, PutProperties
  <2>3. /\ work'[t].step = "writing" /\ work'[t].hash = h
        /\ \A u \in Thread : work[u].step = "writing" /\ work[u].hash # h => work'[u] = work[u]
    BY <1>2, <1>10 DEF Open, Work
  <2> HIDE DEF h
  <2>4. \A s \in stored' : \E i \in items' : i.name = s[2]
    BY <1>1, <2>1, <2>2
  <2>5. \A i \in items' : Sound(i)'
    <3> SUFFICES ASSUME NEW i \in items' PROVE Sound(i)'
      OBVIOUS
    <3>1. CASE i.name = h
      BY <2>1, <2>3, <3>1 DEF Sound
    <3>2. CASE i \in items /\ i.name # h
      BY <1>1, <2>1, <2>3, <3>2 DEF Sound
    <3> QED
      BY <2>2, <3>1, <3>2
  <2> QED
    BY <2>4, <2>5
(* Drive: a new item beside those that are there, which are all whole. *)
<1>11. ASSUME cloud = "gdrive"
       PROVE  \A i \in items : i.whole
  BY <1>1, <1>11 DEF Sound, InPlace
<1>12. ASSUME NEW t \in Thread, PutItem(t) \/ PutItemUnheard(t)
       PROVE  Goal
  <2>1. /\ cloud = "gdrive" /\ items' = items \cup {NewItem(t)}
        /\ stored' \subseteq stored \cup {<<ProcessOf[t], work[t].hash>>}
    BY <1>12 DEF PutItem, PutItemUnheard, Uploaded, ghosts
  <2>2. NewItem(t).whole /\ NewItem(t).name = work[t].hash
    BY DEF NewItem
  <2> QED
    BY <1>1, <1>11, <2>1, <2>2 DEF Sound
<1>13. ASSUME NEW t \in Thread, NEW h \in Hash, RemoveItem(t, h)
       PROVE  Goal
  <2> DEFINE p == ProcessOf[t]
             gone == IF cloud = "gdrive" THEN {Chosen(p, h)} ELSE Found(p, h)
  <2>1. /\ items' = items \ gone /\ UNCHANGED cloud
        /\ stored' = {s \in stored : s[2] # h}
        /\ broken' = broken \ {h}
    BY <1>13 DEF RemoveItem
  <2>2. \A i \in gone : i.name = h
    BY <1>13, ChosenIsFound DEF RemoveItem, Found, TypeOK
  <2>3. cloud # "gdrive" => \A i \in items : i.name = h => i \in gone
    BY DEF Found
  <2> HIDE DEF gone
  <2>4. \A s \in stored' : \E i \in items' : i.name = s[2]
    BY <1>1, <2>1, <2>2
  <2>5. \A i \in items' : Sound(i)'
    <3> SUFFICES ASSUME NEW i \in items' PROVE Sound(i)'
      OBVIOUS
    <3>1. CASE cloud = "gdrive"
      BY <1>11, <2>1, <3>1 DEF Sound
    <3>2. CASE cloud # "gdrive"
      <4>1. i \in items /\ i.name # h /\ Sound(i)
        BY <1>1, <2>1, <2>3, <3>2
      <4>2. \A u \in Thread : work[u].step = "writing" /\ work[u].hash # h => work'[u] = work[u]
        BY <1>2, <1>13 DEF RemoveItem
      <4> QED
        BY <2>1, <4>1, <4>2 DEF Sound
    <3> QED
      BY <3>1, <3>2
  <2> QED
    BY <2>4, <2>5
<1>14. ASSUME NEW p \in Process, NEW S, Download(p, S)
       PROVE  Goal
  BY <1>3, <1>14 DEF Download, remoteVars, ghosts
<1>15. ASSUME NEW t \in Thread, NEW h \in Hash, ReadMissing(t, h)
       PROVE  Goal
  BY <1>3, <1>15 DEF ReadMissing, remoteVars, ghosts
<1>16. ASSUME NEW p \in Process, Cancel(p) \/ DownloadEnds(p)
       PROVE  Goal
  BY <1>3, <1>16 DEF Cancel, DownloadEnds, remoteVars, ghosts
(* The objects of the threads that stop are noted as broken. *)
<1>17. ASSUME NEW T \in SUBSET Thread, UNCHANGED <<items, cloud>>,
              broken' = broken \cup Broken(T),
              \A s \in stored' : \E r \in stored : r[2] = s[2],
              \A u \in Thread \ T : work'[u] = work[u]
       PROVE  Goal
  <2>1. \A u \in Thread : work[u].step = "writing" => work'[u] = work[u] \/ work[u].hash \in broken'
    BY <1>17 DEF Broken
  <2>2. \A s \in stored' : \E i \in items' : i.name = s[2]
    BY <1>1, <1>17
  <2>3. \A i \in items' : Sound(i)'
    <3> SUFFICES ASSUME NEW i \in items', ~i.whole PROVE Sound(i)'
      BY DEF Sound
    <3>1. Sound(i) /\ broken \subseteq broken'
      BY <1>1, <1>17
    <3> QED
      BY <1>17, <2>1, <3>1 DEF Sound
  <2> QED
    BY <2>2, <2>3
<1>18. ASSUME NEW t \in Thread, Fail(t)
       PROVE  Goal
  <2>1. /\ broken' = broken \cup Broken({t})
        /\ UNCHANGED <<items, cloud, stored>>
        /\ \A u \in Thread \ {t} : work'[u] = work[u]
    BY <1>2, <1>18 DEF Fail
  <2>2. {t} \in SUBSET Thread
    OBVIOUS
  <2> QED
    BY <1>17, <2>1, <2>2
<1>19. ASSUME NEW p \in Process, Kill(p)
       PROVE  Goal
  <2>1. /\ broken' = broken \cup Broken(Threads(p))
        /\ UNCHANGED <<items, cloud>>
        /\ stored' = {s \in stored : s[1] # p} \cup {<<None, s[2]>> : s \in {s \in stored : s[1] = p}}
    BY <1>19 DEF Kill
  <2>2. \A u \in Thread \ Threads(p) : work'[u] = work[u]
    BY <1>19 DEF Kill, Threads
  <2>3. \A s \in stored' : \E r \in stored : r[2] = s[2]
    BY <2>1
  <2>4. Threads(p) \in SUBSET Thread
    BY DEF Threads
  <2> QED
    BY <1>17, <2>1, <2>2, <2>3, <2>4
<1>20. CASE UNCHANGED vars
  BY <1>3, <1>20 DEF vars
<1>21. ASSUME NEW t \in Thread, NEW h \in Hash,
              Upload(t, h) \/ RemoveItem(t, h) \/ Read(t, h) \/ ReadMissing(t, h)
       PROVE  Goal
  BY <1>5, <1>13, <1>15, <1>21, Zenon
<1> HIDE DEF Goal
<1> QED
  BY <1>6, <1>7, <1>9, <1>10, <1>12, <1>14, <1>16, <1>18, <1>19, <1>20, <1>21, Zenon
     DEF Next

(* What has been uploaded is there, and what is there is whole, whoever else *)
(* uploads, removes, fails or is killed; only where _upload writes under the *)
(* final name may a part of an object be seen.                               *)
THEOREM ObjectsAreWhole == Spec => []ObjectsWhole
<1>1. Init => ObjectsWhole
  BY DEF Init, ObjectsWhole
<1> QED
  BY <1>1, TreesTypes, ObjectsWholeStep, PTL DEF Spec

-----------------------------------------------------------------------------
(* Steps that leave the downloads of the processes, and their threads that   *)
(* move files, as they are.                                                  *)
LEMMA DownloadsUnchanged ==
    ASSUME TypeOK, Downloads, UNCHANGED <<cloud, fetch, copy>>,
           \A u \in Thread : \/ work'[u] = work[u]
                             \/ /\ work[u].step # "move" /\ work'[u].step # "move"
                                /\ \/ fetch[ProcessOf[u]].step # "running"
                                   \/ work'[u].step = "idle"
    PROVE  Downloads'
<1>1. \A p \in Process : {work'[u].hash : u \in Moving(p)'} = {work[u].hash : u \in Moving(p)}
  <2>1. \A u \in Thread : /\ work[u].step = "move" => work'[u] = work[u]
                          /\ work'[u].step = "move" => work'[u] = work[u]
    OBVIOUS
  <2> QED
    BY <2>1 DEF Moving, Threads
<1>2. \A p \in Process : Accounted(p)' = Accounted(p)
  BY <1>1 DEF Accounted
<1>3. \A u \in Thread : ProcessOf[u] \in Process
  BY ProcessOfAssumption
<1> QED
  BY <1>2, <1>3 DEF Downloads

(* A thread is done with a file, and the download of its process with it.    *)
LEMMA DownloadsStep ==
    ASSUME TypeOK, StepsFit, ObjectsWhole, Downloads, [Next]_vars
    PROVE  Downloads'
<1>1. work \in [Thread -> Work]
  BY DEF TypeOK, Work
<1>2. \A u \in Thread : ProcessOf[u] \in Process
  BY ProcessOfAssumption
<1>3. ASSUME NEW t \in Thread, NEW w, work[t].step # "move", w.step # "move",
             w.step = "idle" \/ fetch[ProcessOf[t]].step # "running",
             work' = [work EXCEPT ![t] = w], UNCHANGED <<cloud, fetch, copy>>
      PROVE  Downloads'
  BY <1>1, <1>3, DownloadsUnchanged
<1>4. ASSUME UNCHANGED <<cloud, fetch, copy, work>>
      PROVE  Downloads'
  BY <1>4, DownloadsUnchanged
<1>5. \A t \in Thread : fetch[ProcessOf[t]].step = "running" => work[t].step \in {"idle", "move"}
  BY DEF Downloads
<1>6. cloud \in Clouds
  BY CloudAssumption DEF TypeOK
<1>7. ASSUME NEW t \in Thread, NEW h \in Hash, Upload(t, h)
      PROVE  Downloads'
  <2> DEFINE w == [Idle EXCEPT !.hash = h, !.step = Head(Steps(cloud))]
  <2>1. w.step = Head(Steps(cloud))
    BY DEF Idle
  <2>2. work' = [work EXCEPT ![t] = w] /\ UNCHANGED <<cloud, fetch, copy>>
        /\ work[t].step # "move" /\ fetch[ProcessOf[t]].step # "running"
    BY <1>7 DEF Upload
  <2> HIDE DEF w
  <2>3. w.step # "move"
    BY <1>6, <2>1, StepsOfClouds
  <2> QED
    BY <1>3, <2>2, <2>3
<1>8. ASSUME NEW t \in Thread,
             PutObject(t) \/ Rename(t) \/ RenameRefused(t) \/ Close(t) \/ Lost(t) \/ PutItem(t)
      PROVE  Downloads'
  <2>1. work' = [work EXCEPT ![t] = Idle] /\ UNCHANGED <<cloud, fetch, copy>> /\ work[t].step # "move"
    BY <1>8 DEF PutObject, Rename, RenameRefused, Close, Lost, PutItem, Uploaded
  <2> QED
    BY <1>3, <2>1, IdleType
<1>9. ASSUME NEW t \in Thread, MakeDirs(t) \/ WriteTemporary(t)
      PROVE  Downloads'
  <2>1. \E s \in {"rename", "write", "open"} : Goto(t, s)
    <3>1. CASE MakeDirs(t)
      <4>1. cloud \in {"ssh", "local", "webdav"}
        BY <3>1 DEF MakeDirs, StepsFit
      <4>2. Steps(cloud)[2] \in {"write", "open"}
        BY <1>6, <4>1, StepsOfClouds
      <4> QED
        BY <3>1, <4>2 DEF MakeDirs
    <3>2. CASE WriteTemporary(t)
      BY <3>2 DEF WriteTemporary
    <3> QED
      BY <1>9, <3>1, <3>2
  <2>2. PICK s \in {"rename", "write", "open"} : Goto(t, s)
    BY <2>1
  <2>3. UNCHANGED <<cloud, fetch, copy>> /\ work[t].step \notin {"idle", "move"}
    BY <1>9 DEF MakeDirs, WriteTemporary
  <2> DEFINE w == [work[t] EXCEPT !.step = s]
  <2>4. w.step = s /\ work' = [work EXCEPT ![t] = w]
    BY <1>1, <2>2 DEF Work, Goto
  <2> HIDE DEF w
  <2> QED
    BY <1>3, <1>5, <2>2, <2>3, <2>4
<1>10. ASSUME NEW t \in Thread, Open(t)
       PROVE  Downloads'
  <2>1. \A u \in Thread : \/ work'[u] = work[u]
                          \/ /\ work[u].step \in {"open", "writing"}
                             /\ work'[u].step \in {"writing", "lost"}
    BY <1>1, <1>10 DEF Open, Work
  <2> QED
    BY <1>5, <1>10, <2>1, DownloadsUnchanged DEF Open
<1>11. ASSUME NEW t \in Thread, Resolve(t) \/ CreateDir(t) \/ DirCreated(t)
       PROVE  Downloads'
  <2>1. /\ \A u \in Thread \ {t} : work'[u] = work[u]
        /\ work[t].step \notin {"idle", "move"} /\ work'[t].step # "move"
    <3>1. ASSUME Resolve(t)
          PROVE  /\ \A u \in Thread \ {t} : work'[u] = work[u]
                 /\ work[t].step \notin {"idle", "move"} /\ work'[t].step # "move"
      BY <1>1, <3>1 DEF Resolve, Work
    <3>2. ASSUME CreateDir(t)
          PROVE  /\ \A u \in Thread \ {t} : work'[u] = work[u]
                 /\ work[t].step \notin {"idle", "move"} /\ work'[t].step # "move"
      BY <1>1, <3>2 DEF CreateDir, Goto, Work
    <3>3. ASSUME DirCreated(t)
          PROVE  /\ \A u \in Thread \ {t} : work'[u] = work[u]
                 /\ work[t].step \notin {"idle", "move"} /\ work'[t].step # "move"
      BY <1>1, <3>3 DEF DirCreated, Work
    <3> QED
      BY <1>11, <3>1, <3>2, <3>3
  <2>2. UNCHANGED <<cloud, fetch, copy>>
    BY <1>11 DEF Resolve, CreateDir, DirCreated
  <2> QED
    BY <1>5, <2>1, <2>2, DownloadsUnchanged
<1>12. ASSUME NEW t \in Thread, DirCreatedUnheard(t) \/ PutItemUnheard(t)
       PROVE  Downloads'
  BY <1>4, <1>12 DEF DirCreatedUnheard, PutItemUnheard
<1>13. ASSUME NEW t \in Thread, NEW h \in Hash, RemoveItem(t, h)
       PROVE  Downloads'
  <2>1. \A u \in Thread : \/ work'[u] = work[u]
                          \/ work[u].step = "writing" /\ work'[u].step = "lost"
    BY <1>1, <1>13 DEF RemoveItem, Work
  <2> QED
    BY <1>5, <1>13, <2>1, DownloadsUnchanged DEF RemoveItem
(* A download of one process: those of the others are as they were. *)
<1> DEFINE ThreadOK(t) ==
             LET p == ProcessOf[t] IN
             /\ fetch[p].step = "running" => work[t].step \in {"idle", "move"}
             /\ work[t].step = "move" => fetch[p].step = "running"
             /\ work[t].step = "move" /\ cloud \notin InPlace => work[t].whole
           ProcessOK(p) ==
             /\ fetch[p].step \in {"running", "ok"} => Accounted(p) \subseteq fetch[p].all
             /\ fetch[p].step = "running" /\ ~fetch[p].failed => fetch[p].all \subseteq Accounted(p)
             /\ fetch[p].step = "ok" => fetch[p].all \subseteq {c.name : c \in copy[p]}
             /\ cloud \notin InPlace => \A c \in copy[p] : c.whole
<1>14. (\A t \in Thread : ThreadOK(t)) /\ \A p \in Process : ProcessOK(p)
  BY DEF Downloads
<1>15. ASSUME NEW p \in Process, UNCHANGED cloud,
              \A q \in Process \ {p} : fetch'[q] = fetch[q] /\ copy'[q] = copy[q],
              \A u \in Thread : ProcessOf[u] # p => work'[u] = work[u],
              \A u \in Thread : ProcessOf[u] = p => ThreadOK(u)',
              ProcessOK(p)'
       PROVE  Downloads'
  <2>1. \A u \in Thread : ThreadOK(u)'
    BY <1>2, <1>14, <1>15
  <2>2. \A q \in Process \ {p} : Accounted(q)' = Accounted(q)
    <3> SUFFICES ASSUME NEW q \in Process \ {p} PROVE Accounted(q)' = Accounted(q)
      OBVIOUS
    <3>1. Moving(q)' = Moving(q) /\ \A u \in Moving(q) : work'[u] = work[u]
      BY <1>15 DEF Moving, Threads
    <3> QED
      BY <1>15, <3>1 DEF Accounted
  <2>3. \A q \in Process \ {p} : ProcessOK(q)'
    BY <1>14, <1>15, <2>2
  <2> QED
    BY <1>15, <2>1, <2>3 DEF Downloads
<1>16. \A u \in Thread : u \in Threads(ProcessOf[u])
  BY DEF Threads
<1>17. ASSUME NEW p \in Process, NEW S \in SUBSET Hash, Download(p, S)
       PROVE  Downloads'
  <2>1. /\ fetch'[p] = [step |-> "running", all |-> S, pending |-> S, failed |-> FALSE]
        /\ copy'[p] = {}
        /\ UNCHANGED <<cloud, work>>
        /\ \A q \in Process \ {p} : fetch'[q] = fetch[q] /\ copy'[q] = copy[q]
    BY <1>17 DEF Download, TypeOK
  <2>2. \A u \in Threads(p) : work[u].step = "idle"
    BY <1>17 DEF Download
  <2>3. Accounted(p)' = S
    BY <2>1, <2>2 DEF Accounted, Moving
  <2>4. ProcessOK(p)'
    BY <2>1, <2>3
  <2>5. \A u \in Thread : ProcessOf[u] = p => ThreadOK(u)'
    BY <1>16, <2>1, <2>2
  <2> QED
    BY <1>15, <2>1, <2>4, <2>5
<1>18. ASSUME NEW t \in Thread, NEW h \in Hash, Read(t, h)
       PROVE  Downloads'
  <2> DEFINE p == ProcessOf[t]
             i == Chosen(p, h)
             w == [step |-> "move", hash |-> h, dir |-> 0, whole |-> i.whole]
  <2>1. i \in items
    BY <1>18, ChosenIsFound DEF Read, Found, TypeOK
  <2>2. cloud \notin InPlace => i.whole
    BY <2>1 DEF ObjectsWhole
  <2> HIDE DEF i
  <2>3. w.step = "move" /\ w.hash = h /\ w.whole = i.whole
    OBVIOUS
  <2> HIDE DEF w
  <2>4. /\ work' = [work EXCEPT ![t] = w] /\ work[t].step = "idle"
        /\ UNCHANGED <<cloud, copy>>
        /\ fetch[p].step = "running" /\ h \in fetch[p].pending
        /\ fetch' = [fetch EXCEPT ![p].pending = @ \ {h}]
    BY <1>18 DEF Read, w, i
  <2>5. /\ work'[t] = w
        /\ \A u \in Thread \ {t} : work'[u] = work[u]
        /\ fetch'[p].pending = fetch[p].pending \ {h}
        /\ fetch'[p].step = "running" /\ fetch'[p].all = fetch[p].all
        /\ fetch'[p].failed = fetch[p].failed
        /\ \A q \in Process \ {p} : fetch'[q] = fetch[q]
    BY <1>1, <1>2, <2>4 DEF TypeOK
  <2>6. Accounted(p)' = Accounted(p)
    <3>1. Moving(p)' = Moving(p) \cup {t} /\ t \notin Moving(p)
      BY <1>16, <2>3, <2>4, <2>5 DEF Moving, Threads
    <3>2. \A u \in Moving(p) : work'[u] = work[u]
      BY <2>5, <3>1 DEF Moving, Threads
    <3>3. {work'[u].hash : u \in Moving(p)'} = {work[u].hash : u \in Moving(p)} \cup {h}
      BY <2>3, <2>5, <3>1, <3>2
    <3> QED
      BY <2>4, <2>5, <3>3 DEF Accounted
  <2>7. ProcessOK(p)'
    BY <1>2, <1>14, <2>4, <2>5, <2>6
  <2>8. \A u \in Thread : ProcessOf[u] = p => ThreadOK(u)'
    BY <1>14, <2>2, <2>3, <2>4, <2>5
  <2>9. p \in Process /\ \A q \in Process \ {p} : fetch'[q] = fetch[q] /\ copy'[q] = copy[q]
    BY <1>2, <2>4, <2>5
  <2>10. \A u \in Thread : ProcessOf[u] # p => work'[u] = work[u]
    BY <2>5
  <2> QED
    BY <1>15, <2>4, <2>7, <2>8, <2>9, <2>10
<1>19. ASSUME NEW t \in Thread, NEW h \in Hash, ReadMissing(t, h)
       PROVE  Downloads'
  <2> DEFINE p == ProcessOf[t]
  <2>1. /\ p \in Process /\ UNCHANGED <<cloud, copy, work>>
        /\ fetch[p].step = "running" /\ fetch'[p].step = "running"
        /\ fetch'[p].failed /\ fetch'[p].all = fetch[p].all
        /\ fetch'[p].pending \subseteq fetch[p].pending
        /\ \A q \in Process \ {p} : fetch'[q] = fetch[q]
    BY <1>2, <1>19 DEF ReadMissing, TypeOK
  <2>2. Accounted(p)' \subseteq Accounted(p)
    BY <2>1 DEF Accounted, Moving
  <2> QED
    BY <1>14, <1>15, <2>1, <2>2
<1>20. ASSUME NEW p \in Process, Cancel(p)
       PROVE  Downloads'
  <2>1. /\ UNCHANGED <<cloud, copy, work>>
        /\ fetch[p].step = "running" /\ fetch'[p].step = "running"
        /\ fetch'[p].failed /\ fetch'[p].all = fetch[p].all
        /\ fetch'[p].pending \subseteq fetch[p].pending
        /\ \A q \in Process \ {p} : fetch'[q] = fetch[q]
    BY <1>20 DEF Cancel, TypeOK
  <2>2. Accounted(p)' \subseteq Accounted(p)
    BY <2>1 DEF Accounted, Moving
  <2> QED
    BY <1>14, <1>15, <2>1, <2>2
<1>21. ASSUME NEW p \in Process, DownloadEnds(p)
       PROVE  Downloads'
  <2>1. /\ UNCHANGED <<cloud, copy, work>>
        /\ fetch[p].step = "running" /\ fetch[p].pending = {}
        /\ fetch'[p].step = IF fetch[p].failed THEN "failed" ELSE "ok"
        /\ fetch'[p].all = fetch[p].all /\ fetch'[p].pending = {}
        /\ \A q \in Process \ {p} : fetch'[q] = fetch[q]
    BY <1>21 DEF DownloadEnds, TypeOK
  <2>2. \A u \in Threads(p) : work[u].step = "idle"
    BY <1>21 DEF DownloadEnds
  <2>3. Accounted(p) = {c.name : c \in copy[p]} /\ Accounted(p)' = Accounted(p)
    BY <2>1, <2>2 DEF Accounted, Moving
  <2>4. ProcessOK(p)'
    BY <1>14, <2>1, <2>3
  <2>5. \A u \in Thread : ProcessOf[u] = p => ThreadOK(u)'
    BY <1>16, <2>1, <2>2
  <2> QED
    BY <1>15, <2>1, <2>4, <2>5
<1>22. ASSUME NEW t \in Thread, Move(t)
       PROVE  Downloads'
  <2> DEFINE p == ProcessOf[t]
             c == [name |-> work[t].hash, whole |-> work[t].whole]
  <2>1. c.name = work[t].hash /\ c.whole = work[t].whole
    OBVIOUS
  <2>2. copy' = [copy EXCEPT ![p] = @ \cup {c}]
    BY <1>22 DEF Move
  <2> HIDE DEF c
  <2>3. /\ p \in Process /\ UNCHANGED <<cloud, fetch>>
        /\ work[t].step = "move" /\ work'[t].step = "idle"
        /\ \A u \in Thread \ {t} : work'[u] = work[u]
        /\ copy'[p] = copy[p] \cup {c}
        /\ \A q \in Process \ {p} : copy'[q] = copy[q]
    BY <1>1, <1>2, <1>22, <2>2, IdleType DEF Move, TypeOK
  <2>4. fetch[p].step = "running" /\ (cloud \notin InPlace => work[t].whole)
    BY <1>14, <2>3
  <2>5. Accounted(p)' = Accounted(p)
    <3>1. Moving(p) = Moving(p)' \cup {t} /\ t \notin Moving(p)'
      BY <1>16, <2>3 DEF Moving, Threads
    <3>2. \A u \in Moving(p)' : work'[u] = work[u]
      BY <2>3, <3>1 DEF Moving, Threads
    <3>3. {work[u].hash : u \in Moving(p)} = {work'[u].hash : u \in Moving(p)'} \cup {work[t].hash}
      BY <3>1, <3>2
    <3>4. {d.name : d \in copy'[p]} = {d.name : d \in copy[p]} \cup {work[t].hash}
      BY <2>1, <2>3
    <3> QED
      BY <2>3, <3>3, <3>4 DEF Accounted
  <2>6. ProcessOK(p)'
    BY <1>14, <2>1, <2>3, <2>4, <2>5
  <2>7. \A u \in Thread : ProcessOf[u] = p => ThreadOK(u)'
    BY <1>14, <2>3
  <2> QED
    BY <1>15, <2>3, <2>6, <2>7
<1>23. ASSUME NEW t \in Thread, Fail(t)
       PROVE  Downloads'
  <2> DEFINE p == ProcessOf[t]
             f == fetch[p].failed \/ work[t].step = "move"
  <2>1. fetch' = [fetch EXCEPT ![p].failed = f] /\ work' = [work EXCEPT ![t] = Idle]
        /\ UNCHANGED <<cloud, copy>> /\ p \in Process
    BY <1>2, <1>23 DEF Fail
  <2>2. fetch'[p].failed = f
    BY <2>1 DEF TypeOK
  <2>3. /\ fetch'[p].step = fetch[p].step /\ fetch'[p].all = fetch[p].all
        /\ fetch'[p].pending = fetch[p].pending
        /\ \A q \in Process \ {p} : fetch'[q] = fetch[q]
    BY <2>1 DEF TypeOK
  <2>4. /\ work'[t].step = "idle"
        /\ \A u \in Thread \ {t} : work'[u] = work[u]
    BY <1>1, <2>1, IdleType
  <2>5. Moving(p)' = Moving(p) \ {t} /\ \A u \in Moving(p)' : work'[u] = work[u]
    BY <2>4 DEF Moving, Threads
  <2>6. Accounted(p)' \subseteq Accounted(p)
    BY <2>1, <2>3, <2>5 DEF Accounted
  <2>7. work[t].step # "move" => Accounted(p)' = Accounted(p)
    <3>1. work[t].step # "move" => Moving(p)' = Moving(p)
      BY <2>5 DEF Moving, Threads
    <3> QED
      BY <2>1, <2>3, <2>5, <3>1 DEF Accounted
  <2>8. ProcessOK(p)'
    <3>1. ~fetch'[p].failed => ~fetch[p].failed /\ work[t].step # "move"
      BY <2>2
    <3>2. fetch'[p].step = "running" /\ ~fetch'[p].failed =>
            fetch'[p].all \subseteq Accounted(p)'
      <4> SUFFICES ASSUME fetch'[p].step = "running", ~fetch'[p].failed
                   PROVE  fetch'[p].all \subseteq Accounted(p)'
        OBVIOUS
      <4>1. fetch[p].all \subseteq Accounted(p)
        BY <1>14, <2>1, <2>3, <3>1
      <4> QED
        BY <2>3, <2>7, <3>1, <4>1
    <3> QED
      BY <1>14, <2>1, <2>3, <2>6, <3>2
  <2>9. \A u \in Thread : ProcessOf[u] = p => ThreadOK(u)'
    BY <1>14, <2>1, <2>3, <2>4
  <2> QED
    BY <1>15, <2>1, <2>3, <2>4, <2>8, <2>9
<1>24. ASSUME NEW p \in Process, Kill(p)
       PROVE  Downloads'
  <2>1. /\ fetch'[p].step = "idle" /\ UNCHANGED <<cloud, copy>>
        /\ \A q \in Process \ {p} : fetch'[q] = fetch[q]
    BY <1>24 DEF Kill, TypeOK, NoFetch
  <2>2. \A u \in Thread : IF ProcessOf[u] = p THEN work'[u].step = "idle" ELSE work'[u] = work[u]
    BY <1>24, IdleType DEF Kill
  <2>3. ProcessOK(p)' /\ \A u \in Thread : ProcessOf[u] = p => ThreadOK(u)'
    BY <1>14, <2>1, <2>2
  <2> QED
    BY <1>15, <2>1, <2>2, <2>3
<1>25. CASE UNCHANGED vars
  BY <1>4, <1>25 DEF vars
<1>26. ASSUME NEW t \in Thread, NEW h \in Hash,
              Upload(t, h) \/ RemoveItem(t, h) \/ Read(t, h) \/ ReadMissing(t, h)
       PROVE  Downloads'
  BY <1>7, <1>13, <1>18, <1>19, <1>26, Zenon
<1>27. \A p \in Process : Listed(p) \in SUBSET Hash
  BY DEF Listed, Item, TypeOK
<1>28. ASSUME NEW p \in Process, NEW h \in Hash, Download(p, {h})
       PROVE  Downloads'
  <2>1. {h} \in SUBSET Hash
    OBVIOUS
  <2> QED
    BY <1>17, <1>28, <2>1, Zenon
<1>29. ASSUME NEW p \in Process, Download(p, Listed(p))
       PROVE  Downloads'
  BY <1>17, <1>27, <1>29, Zenon
<1> QED
  BY <1>8, <1>9, <1>10, <1>11, <1>12, <1>20, <1>21, <1>22, <1>23, <1>24, <1>25, <1>26,
     <1>28, <1>29, Zenon DEF Next

(* A download that ends well has made a copy of every file that it was to    *)
(* make, and a whole one where no part of an object is ever seen, whatever   *)
(* other processes upload and remove meanwhile (base.py, _download_dir).     *)
THEOREM DownloadsAreWhole == Spec => []DownloadWhole
<1>1. Init => Downloads
  <2> SUFFICES ASSUME Init PROVE Downloads
    OBVIOUS
  <2>1. \A p \in Process : fetch[p].step = "idle" /\ copy[p] = {}
    BY DEF Init, NoFetch
  <2>2. \A t \in Thread : work[t].step = "idle" /\ ProcessOf[t] \in Process
    BY IdleType, ProcessOfAssumption DEF Init
  <2> QED
    BY <2>1, <2>2 DEF Downloads
<1>2. Downloads => DownloadWhole
  <2> SUFFICES ASSUME Downloads, NEW p \in Process, fetch[p].step = "ok"
               PROVE  /\ {c.name : c \in copy[p]} = fetch[p].all
                      /\ cloud \notin InPlace => \A c \in copy[p] : c.whole
    BY DEF DownloadWhole
  <2>1. Accounted(p) \subseteq fetch[p].all /\ fetch[p].all \subseteq {c.name : c \in copy[p]}
    BY DEF Downloads
  <2>2. {c.name : c \in copy[p]} \subseteq Accounted(p)
    BY DEF Accounted
  <2> QED
    BY <2>1, <2>2 DEF Downloads
<1> QED
  BY <1>1, <1>2, TreesTypes, ObjectsAreWhole, DownloadsStep, PTL DEF Spec
=============================================================================
