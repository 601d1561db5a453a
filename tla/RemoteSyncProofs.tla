--------------------------- MODULE RemoteSyncProofs ---------------------------
(* Proofs that a remote never holds a directory without its files, for any *)
(* number of clones, files and directories, whatever fails or dies; then,  *)
(* about what a project says of its remotes and parameters: what one item  *)
(* of "vars" does to the values that are loaded (module Parsing), for      *)
(* every content of the files, and that the commands on remotes that       *)
(* report success leave the defaults defined (module Config).              *)
EXTENDS RemoteSync, Parsing, Config, TLAPS

(* The inductive invariant, when commands are about whole directories and  *)
(* garbage collection has the remote to itself.  For one command o:        *)
WholeKids(o) == \A d \in Dir : o.kids[d] \in {{}, Contents[d]}

(* A push sends what the cache had when it started, a directory then with  *)
(* its files, which are on the remote, still to come, or failed.           *)
PushOK(o) ==
    o.kind = "push" =>
        /\ \A d \in o.have \cap Dir : d \in o.want /\ o.kids[d] = Contents[d]
        /\ o.todo \subseteq o.have
        /\ o.sent \subseteq DirItems(o)
        /\ \A d \in o.todo \cap DirItems(o) :
              d \in o.sent /\ o.kids[d] \subseteq remote \cup o.todo \cup o.failed

(* What gc keeps is closed, and the rest of the remote is on its list. *)
GcOK(o) ==
    o.kind = "gc" =>
        /\ o.phase = "transfer"
        /\ \A d \in o.want \cap Dir : Contents[d] \subseteq o.want
        /\ o.todo \cap o.want = {}
        /\ remote \subseteq o.want \cup o.todo

(* What the status of a command takes to be on the remote is there. *)
Validated(o) ==
    /\ o.kind \in {"push", "pull"}
    /\ o.phase \in {"new", "files", "transfer"}
    /\ DirItems(o) # {}

(* Every file of an index is there because of a directory in it. *)
Closed(w) == \A f \in w \cap File : \E d \in w \cap Dir : f \in Contents[d]

CloneOK(c) ==
    /\ op[c].kind = "none" <=> op[c].phase = "idle"
    /\ WholeKids(op[c])
    /\ PushOK(op[c])
    /\ GcOK(op[c])
    /\ Closed(work[c])
    /\ Closed(index[c])
    /\ Validated(op[c]) => work[c] \cup op[c].exists \subseteq remote

Alone == \A c, e \in Clone : op[c].kind = "gc" /\ e # c => op[e].kind = "none"

(* Before the second query of _indexed_dir_hashes only directories are     *)
(* known to exist: TypeOK is not inductive without it.                     *)
NewDirs == \A c \in Clone : op[c].phase = "new" => op[c].exists \subseteq Dir

IInv ==
    /\ TypeOK
    /\ NewDirs
    /\ DirComplete
    /\ Alone
    /\ \A c \in Clone : CloneOK(c)

-----------------------------------------------------------------------------
(* Idle is a command record. *)
LEMMA IdleType == Idle \in Op
BY DEF Idle, Op, Kind, Phase, NoKids

(* The items of a command, and the files below them, are hashes. *)
LEMMA ItemsType ==
    ASSUME NEW o \in Op
    PROVE  /\ DirItems(o) \subseteq Dir
           /\ DirItems(o) \subseteq Hash
           /\ UNION {o.kids[d] : d \in DirItems(o)} \subseteq Hash
           /\ Md5s(o) \subseteq Hash
BY DEF DirItems, Md5s, Op, Hash

(* The children of an item are files it lists; all of them when the whole  *)
(* directory is asked for and its .dir object is cached.                   *)
LEMMA ChildrenType ==
    ASSUME NEW c \in Clone, NEW d \in Dir, NEW target \in SUBSET File
    PROVE  /\ Children(c, d, target) \subseteq File
           /\ Children(c, d, target) \subseteq Contents[d]
           /\ Children(c, d, File) \in {{}, Contents[d]}
           /\ d \in cache[c] => Children(c, d, File) = Contents[d]
BY ConstantsAssumption DEF Children

(* What Start makes of its arguments is a command record. *)
LEMMA StartType ==
    ASSUME TypeOK, NEW c \in Clone, NEW kind \in {"push", "pull"},
           NEW want \in Requests, NEW target \in SUBSET File,
           Start(c, kind, want, target)
    PROVE  TypeOK' /\ op'[c].phase # "new" /\ \A e \in Clone \ {c} : op'[e] = op[e]
<1> DEFINE kids == [d \in Dir |-> IF d \in want THEN Children(c, d, target) ELSE {}]
           o    == [Idle EXCEPT !.kind = kind, !.want = want, !.kids = kids]
           here == Md5s(o) \cap cache[c]
           p    == [o EXCEPT !.have = here,
                             !.phase = IF DirItems(o) # {} THEN "indexed" ELSE "files"]
<1>1. kids \in [Dir -> SUBSET File]
    BY ChildrenType
<1>2. want \subseteq Hash
    BY ConstantsAssumption DEF Hash
<1>3. o \in Op
    BY <1>1, <1>2, IdleType DEF Op, Kind
<1>4. here \subseteq Hash
    BY <1>3, ItemsType
<1> HIDE DEF kids, o, here
<1>5. p \in Op /\ p.phase # "new"
    BY <1>3, <1>4 DEF Op, Phase
<1> HIDE DEF p
<1>6. op' = [op EXCEPT ![c] = p] /\ work' = [work EXCEPT ![c] = index[c]]
      /\ commands' = commands + 1 /\ commands < MaxCommands
      /\ UNCHANGED <<remote, cache, index>>
    BY DEF Start, MayStart, p, o, here, kids
<1> QED
    BY <1>5, <1>6, ConstantsAssumption DEF TypeOK


(* The queries of the status of a command keep the types. *)
LEMMA QueryType ==
    ASSUME TypeOK, NewDirs, NEW c \in Clone,
           CheckIndexed(c) \/ CheckNew(c) \/ CheckFiles(c)
    PROVE  TypeOK' /\ NewDirs'
<1>0. op[c] \in Op /\ work[c] \subseteq Hash
    BY DEF TypeOK
<1>1. CASE CheckIndexed(c)
    BY <1>0, <1>1, ItemsType DEF CheckIndexed, TypeOK, NewDirs, Op, Phase
<1>2. CASE CheckNew(c)
  <2> DEFINE found == op[c].exists \cup (DirItems(op[c]) \cap remote)
             files == UNION {op[c].kids[d] : d \in found}
             new   == found \ work[c]
             newFiles == UNION {op[c].kids[d] : d \in new}
             o == [op[c] EXCEPT !.exists = found \cup files, !.phase = "files"]
             w == work[c] \cup new \cup newFiles
  <2>1. found \subseteq Dir
      BY <1>0, <1>2, ItemsType DEF Op, NewDirs, CheckNew
  <2>2. files \subseteq Hash /\ newFiles \subseteq Hash
      BY <2>1, <1>0 DEF Op, Hash
  <2>3. found \cup files \subseteq Hash /\ w \subseteq Hash
      BY <2>1, <2>2, <1>0 DEF Hash
  <2>4. op' = [op EXCEPT ![c] = o] /\ work' = [work EXCEPT ![c] = w]
        /\ UNCHANGED <<remote, cache, index, commands>>
      BY <1>0, <1>2 DEF CheckNew, TypeOK, Op
  <2> HIDE DEF found, files, new, newFiles, w
  <2>5. o \in Op /\ o.phase = "files"
      BY <2>3, <1>0 DEF Op, Phase
  <2> HIDE DEF o
  <2> QED
      BY <2>3, <2>4, <2>5 DEF TypeOK, NewDirs
<1>3. CASE CheckFiles(c)
  <2> DEFINE rest   == Md5s(op[c]) \ op[c].exists
             exists == op[c].exists \cup (rest \cap work[c]) \cup (rest \cap remote)
             o      == [op[c] EXCEPT !.exists = exists]
             broken == {d \in DirItems(o) : o.kids[d] \cap Missing(o) # {}}
             plan   == IF o.kind = "push" THEN (o.have \ exists) \ broken
                                          ELSE (Md5s(o) \cap exists) \ o.have
             sent   == IF o.kind = "push" THEN plan \cap DirItems(o) ELSE {}
             p      == [o EXCEPT !.phase = "transfer", !.todo = plan,
                                 !.sent = sent, !.exists = {}]
  <2>1. exists \subseteq Hash
      BY <1>0, ItemsType DEF Op
  <2>2. o \in Op
      BY <1>0, <2>1 DEF Op
  <2>3. plan \subseteq Hash /\ sent \subseteq Dir
      BY <2>1, <2>2, ItemsType DEF Op
  <2>4. op' = [op EXCEPT ![c] = p]
        /\ UNCHANGED <<remote, cache, index, work, commands>>
      BY <1>3 DEF CheckFiles
  <2> HIDE DEF plan, sent, o, exists
  <2>5. p \in Op /\ p.phase = "transfer"
      BY <2>2, <2>3 DEF Op, Phase
  <2> HIDE DEF p
  <2> QED
      BY <2>4, <2>5 DEF TypeOK, NewDirs
<1> QED
    BY <1>1, <1>2, <1>3

(* What a transfer or a removal makes of a command: one object leaves the  *)
(* list, and may be marked as failed.                                      *)
Done(o, h) ==
    {[o EXCEPT !.todo = @ \ {h}],
     [o EXCEPT !.todo = @ \ {h}, !.failed = @ \cup {h}],
     [o EXCEPT !.todo = @ \ {h}, !.removed = TRUE]}

LEMMA DoneType ==
    ASSUME NEW o \in Op, NEW h \in o.todo, NEW p \in Done(o, h)
    PROVE  h \in Hash /\ p \in Op /\ p.phase = o.phase /\ p.exists = o.exists
<1>1. CASE p = [o EXCEPT !.todo = @ \ {h}]
    BY <1>1 DEF Op
<1>2. CASE p = [o EXCEPT !.todo = @ \ {h}, !.failed = @ \cup {h}]
    BY <1>2 DEF Op
<1>3. CASE p = [o EXCEPT !.todo = @ \ {h}, !.removed = TRUE]
    BY <1>3 DEF Op
<1> QED
    BY <1>1, <1>2, <1>3 DEF Done

(* The transfers, and the ends of commands, keep the types. *)
LEMMA TransferType ==
    ASSUME TypeOK, NewDirs, NEW c \in Clone,
           \/ UploadFile(c) \/ UploadDir(c) \/ EndPush(c)
           \/ Download(c) \/ EndPull(c)
           \/ GcRemove(c) \/ GcFail(c) \/ EndGc(c) \/ Crash(c)
    PROVE  TypeOK' /\ NewDirs'
<1>0. op[c] \in Op /\ work[c] \subseteq Hash /\ index[c] \subseteq Hash
    BY DEF TypeOK
<1>1. ASSUME NEW h \in op[c].todo, NEW p \in Done(op[c], h), op' = [op EXCEPT ![c] = p]
      PROVE  op' \in [Clone -> Op] /\ NewDirs' /\ h \in Hash
  <2>1. h \in Hash /\ p \in Op /\ p.phase = op[c].phase /\ p.exists = op[c].exists
      BY <1>0, DoneType
  <2> QED
      BY <1>1, <2>1 DEF TypeOK, NewDirs
<1>2. CASE UploadFile(c) \/ UploadDir(c)
  <2>1. PICK h \in op[c].todo :
            remote' \subseteq remote \cup {h}
            /\ \E p \in Done(op[c], h) : op' = [op EXCEPT ![c] = p]
      BY <1>0, <1>2 DEF UploadFile, UploadDir, Done
  <2> QED
      BY <1>1, <1>2, <2>1 DEF UploadFile, UploadDir, TypeOK
<1>4. CASE Download(c)
  <2>1. PICK h \in op[c].todo :
            (cache' = cache \/ cache' = [cache EXCEPT ![c] = @ \cup {h}])
            /\ \E p \in Done(op[c], h) : op' = [op EXCEPT ![c] = p]
      BY <1>0, <1>4 DEF Download, Done
  <2>2. h \in Hash /\ op' \in [Clone -> Op] /\ NewDirs'
      BY <1>1, <2>1
  <2>3. cache' \in [Clone -> SUBSET Hash]
      BY <2>1, <2>2 DEF TypeOK
  <2> QED
      BY <1>4, <2>2, <2>3 DEF Download, TypeOK
<1>5. CASE GcRemove(c)
  <2>1. PICK h \in op[c].todo :
            remote' = remote \ {h}
            /\ \E p \in Done(op[c], h) : op' = [op EXCEPT ![c] = p]
      BY <1>0, <1>5 DEF GcRemove, Done
  <2> QED
      BY <1>1, <1>5, <2>1 DEF GcRemove, TypeOK
<1>6. ASSUME op' = [op EXCEPT ![c] = Idle]
      PROVE  op' \in [Clone -> Op] /\ NewDirs'
    BY <1>6, IdleType DEF TypeOK, NewDirs, Idle
<1>7. CASE EndPush(c)
  <2> DEFINE pushed == op[c].sent \cup UNION {op[c].kids[d] : d \in op[c].sent}
  <2>1. pushed \subseteq Hash
      BY <1>0 DEF Op, Hash
  <2> HIDE DEF pushed
  <2>2. index' = [index EXCEPT ![c] = IF op[c].failed = {} THEN work[c] \cup pushed
                                                           ELSE work[c]]
      BY <1>7 DEF EndPush, pushed
  <2> QED
      BY <1>0, <1>6, <1>7, <2>1, <2>2 DEF EndPush, TypeOK
<1>8. CASE EndPull(c)
    BY <1>0, <1>6, <1>8 DEF EndPull, TypeOK
<1>9. CASE GcFail(c) \/ EndGc(c) \/ Crash(c)
    BY <1>0, <1>6, <1>9 DEF GcFail, EndGc, Crash, TypeOK
<1> QED
    BY <1>2, <1>4, <1>5, <1>7, <1>8, <1>9

(* add, and the start of gc, keep the types. *)
LEMMA LocalType ==
    ASSUME TypeOK, NewDirs, NEW c \in Clone, Add(c) \/ StartGc(c)
    PROVE  TypeOK' /\ NewDirs'
<1>1. CASE Add(c)
  <2>1. PICK new \in SUBSET Hash : cache' = [cache EXCEPT ![c] = @ \cup new]
    <3>1. PICK h \in Hash :
              cache' = [cache EXCEPT ![c] = @ \cup {h} \cup
                                            (IF h \in Dir THEN Contents[h] ELSE {})]
        BY <1>1 DEF Add
    <3>2. {h} \cup (IF h \in Dir THEN Contents[h] ELSE {}) \in SUBSET Hash
        BY ConstantsAssumption DEF Hash
    <3> QED
        BY <3>1, <3>2 DEF TypeOK
  <2> QED
      BY <1>1, <2>1 DEF Add, TypeOK, NewDirs
<1>2. CASE StartGc(c)
  <2>1. PICK items \in Requests :
          LET used == items \cup UNION {Children(c, d, File) : d \in items \cap Dir}
          IN  /\ cache' = [cache EXCEPT ![c] = @ \cap used]
              /\ op' = [op EXCEPT ![c] = [Idle EXCEPT !.kind = "gc", !.phase = "transfer",
                                            !.want = used, !.todo = remote \ used]]
      BY <1>2 DEF StartGc
  <2> DEFINE used == items \cup UNION {Children(c, d, File) : d \in items \cap Dir}
             o == [Idle EXCEPT !.kind = "gc", !.phase = "transfer",
                               !.want = used, !.todo = remote \ used]
  <2>2. used \subseteq Hash
      BY ConstantsAssumption DEF Hash, Children
  <2> HIDE DEF used
  <2>3. o \in Op /\ o.phase # "new"
      BY <2>2, IdleType DEF Op, Kind, Phase, TypeOK
  <2> HIDE DEF o
  <2>4. cache' = [cache EXCEPT ![c] = @ \cap used] /\ op' = [op EXCEPT ![c] = o]
      BY <2>1 DEF used, o
  <2>5. cache' \in [Clone -> SUBSET Hash]
      BY <2>4 DEF TypeOK
  <2>6. op' \in [Clone -> Op] /\ NewDirs'
      BY <2>3, <2>4 DEF TypeOK, NewDirs
  <2>7. work' = [work EXCEPT ![c] = index[c]] /\ UNCHANGED <<remote, index>>
        /\ commands' = commands + 1 /\ commands < MaxCommands
      BY <1>2 DEF StartGc, MayStart
  <2> QED
      BY <2>5, <2>6, <2>7, ConstantsAssumption DEF TypeOK
<1> QED
    BY <1>1, <1>2

(* Every step keeps the types. *)
LEMMA TypeStep == TypeOK /\ NewDirs /\ [Next]_vars => TypeOK' /\ NewDirs'
<1> SUFFICES ASSUME TypeOK, NewDirs, [Next]_vars PROVE TypeOK' /\ NewDirs'
    OBVIOUS
<1>1. ASSUME NEW c \in Clone, StartTransfer(c) PROVE TypeOK' /\ NewDirs'
  <2>1. PICK kind \in {"push", "pull"}, want \in Requests, target \in SUBSET File :
            Start(c, kind, want, target)
      BY <1>1 DEF StartTransfer, Targets
  <2>2. TypeOK' /\ op'[c].phase # "new" /\ \A e \in Clone \ {c} : op'[e] = op[e]
      BY <2>1, StartType
  <2> QED
      BY <2>2 DEF NewDirs
<1>2. ASSUME NEW c \in Clone, Add(c) \/ StartGc(c) PROVE TypeOK' /\ NewDirs'
    BY <1>2, LocalType
<1>3. ASSUME NEW c \in Clone, Advance(c) \/ Crash(c) PROVE TypeOK' /\ NewDirs'
    BY <1>3, QueryType, TransferType DEF Advance
<1>4. CASE UNCHANGED vars
    BY <1>4 DEF vars, TypeOK, NewDirs
<1> QED
    BY <1>1, <1>2, <1>3, <1>4 DEF Next

(* The state of the clones, of their commands and of the remote has the    *)
(* form that the code gives it (dvc/remote/base.py, index.py).             *)
THEOREM TypeCorrect == Spec => []TypeOK
<1>1. Init => TypeOK /\ NewDirs
    BY IdleType, ConstantsAssumption DEF Init, TypeOK, NewDirs, Idle, Hash
<1> QED
    BY <1>1, TypeStep, PTL DEF Spec

-----------------------------------------------------------------------------
(* The conditions under which the code keeps its promise: gc --cloud has    *)
(* the remote to itself and is never forced past a .dir object in use that  *)
(* is missing, and no command is about a part of a directory.               *)
Promised == GcAlone /\ ~Granular /\ ~Forced

(* Steps of one clone leave the others as they are, if they only add to the *)
(* remote or belong to a gc, which runs alone.                              *)
LEMMA OthersOK ==
    ASSUME IInv, NEW c \in Clone, NEW o, NEW w, NEW i,
           op' = [op EXCEPT ![c] = o],
           work' = [work EXCEPT ![c] = w],
           index' = [index EXCEPT ![c] = i],
           \/ remote' = remote
           \/ op[c].kind = "push" /\ remote \subseteq remote'
           \/ op[c].kind = "gc"
    PROVE  \A e \in Clone \ {c} : CloneOK(e)'
<1> SUFFICES ASSUME NEW e \in Clone \ {c} PROVE CloneOK(e)'
    OBVIOUS
<1>1. op'[e] = op[e] /\ work'[e] = work[e] /\ index'[e] = index[e]
    BY DEF IInv, TypeOK
<1>2. CloneOK(e)
    BY DEF IInv
<1>3. CASE remote' = remote
    BY <1>1, <1>2, <1>3 DEF CloneOK, WholeKids, PushOK, GcOK, Closed, Validated, DirItems
<1>4. CASE op[c].kind = "push" /\ remote \subseteq remote'
  <2>1. op[e].kind # "gc"
      BY <1>4 DEF IInv, Alone
  <2> QED
      BY <1>1, <1>2, <1>4, <2>1
      DEF CloneOK, WholeKids, PushOK, GcOK, Closed, Validated, DirItems
<1>5. CASE op[c].kind = "gc"
  <2>1. op[e].kind = "none"
      BY <1>5 DEF IInv, Alone
  <2> QED
      BY <1>1, <1>2, <2>1 DEF CloneOK, WholeKids, PushOK, GcOK, Closed, Validated
<1> QED
    BY <1>3, <1>4, <1>5

(* A command that goes on, or ends, leaves gc alone on the remote. *)
LEMMA AloneStep ==
    ASSUME TypeOK, Alone, NEW c \in Clone, NEW o, op' = [op EXCEPT ![c] = o],
           o.kind \in {op[c].kind, "none"}
    PROVE  Alone'
BY DEF TypeOK, Alone

(* An object off the list changes nothing else of a command. *)
LEMMA DoneSame ==
    ASSUME NEW o \in Op, NEW h \in o.todo, NEW p \in Done(o, h)
    PROVE  /\ p.kind = o.kind /\ p.phase = o.phase /\ p.want = o.want
           /\ p.kids = o.kids /\ p.have = o.have /\ p.exists = o.exists
           /\ p.sent = o.sent /\ p.todo = o.todo \ {h}
           /\ p.failed \in {o.failed, o.failed \cup {h}}
           /\ DirItems(p) = DirItems(o)
<1>1. CASE p = [o EXCEPT !.todo = @ \ {h}]
    BY <1>1 DEF Op, DirItems
<1>2. CASE p = [o EXCEPT !.todo = @ \ {h}, !.failed = @ \cup {h}]
    BY <1>2 DEF Op, DirItems
<1>3. CASE p = [o EXCEPT !.todo = @ \ {h}, !.removed = TRUE]
    BY <1>3 DEF Op, DirItems
<1> QED
    BY <1>1, <1>2, <1>3 DEF Done

(* An idle clone is fine. *)
LEMMA IdleOK ==
    /\ Idle.kind = "none" /\ Idle.phase = "idle"
    /\ WholeKids(Idle) /\ ~Validated(Idle)
    /\ PushOK(Idle)' /\ GcOK(Idle)'
BY DEF Idle, NoKids, WholeKids, Validated, PushOK, GcOK

(* The uploads of a push: files first, then the .dir objects that wait for  *)
(* them (_dir_upload); a failed upload counts as dealt with.                *)
LEMMA UploadStep ==
    ASSUME IInv, NEW c \in Clone, UploadFile(c) \/ UploadDir(c)
    PROVE  DirComplete' /\ Alone' /\ \A e \in Clone : CloneOK(e)'
<1>0. op[c] \in Op /\ CloneOK(c) /\ op[c].kind = "push" /\ op[c].phase = "transfer"
    BY DEF IInv, TypeOK, UploadFile, UploadDir
<1>1. PICK h \in op[c].todo : \E p \in Done(op[c], h) :
        /\ op' = [op EXCEPT ![c] = p]
        /\ \/ remote' = remote \cup {h} /\ p.failed = op[c].failed
              /\ \/ h \notin op[c].sent
                 \/ /\ h \in op[c].sent /\ FilesDone(op[c], h)
                    /\ op[c].kids[h] \cap op[c].failed = {}
           \/ remote' = remote /\ p.failed = op[c].failed \cup {h}
  <2> DEFINE dealt(h) == [op[c] EXCEPT !.todo = @ \ {h}]
             lost(h)  == [op[c] EXCEPT !.todo = @ \ {h}, !.failed = @ \cup {h}]
  <2>1. \A h : /\ dealt(h) \in Done(op[c], h) /\ dealt(h).failed = op[c].failed
               /\ lost(h) \in Done(op[c], h) /\ lost(h).failed = op[c].failed \cup {h}
    BY <1>0 DEF Done, Op
  <2>2. \A h : /\ [op EXCEPT ![c].todo = @ \ {h}] = [op EXCEPT ![c] = dealt(h)]
               /\ [op EXCEPT ![c].todo = @ \ {h}, ![c].failed = @ \cup {h}]
                    = [op EXCEPT ![c] = lost(h)]
    BY <1>0 DEF IInv, TypeOK, Op
  <2> HIDE DEF dealt, lost
  <2>3. PICK h \in op[c].todo :
          \/ /\ op' = [op EXCEPT ![c] = dealt(h)] /\ remote' = remote \cup {h}
             /\ \/ h \notin op[c].sent
                \/ h \in op[c].sent /\ FilesDone(op[c], h) /\ op[c].kids[h] \cap op[c].failed = {}
          \/ op' = [op EXCEPT ![c] = lost(h)] /\ remote' = remote
    <3>1. CASE UploadFile(c)
      BY <3>1, <2>2, Zenon DEF UploadFile
    <3>2. CASE UploadDir(c)
      BY <3>2, <2>2, Zenon DEF UploadDir
    <3> QED BY <3>1, <3>2, Zenon
  <2>4. CASE op' = [op EXCEPT ![c] = lost(h)] /\ remote' = remote
    BY <2>4, <2>1, Zenon
  <2>5. CASE ~(op' = [op EXCEPT ![c] = lost(h)] /\ remote' = remote)
    BY <2>5, <2>1, <2>3, Zenon
  <2> QED BY <2>4, <2>5, Zenon
<1>1a. PICK p \in Done(op[c], h) :
        /\ op' = [op EXCEPT ![c] = p]
        /\ \/ remote' = remote \cup {h} /\ p.failed = op[c].failed
              /\ \/ h \notin op[c].sent
                 \/ /\ h \in op[c].sent /\ FilesDone(op[c], h)
                    /\ op[c].kids[h] \cap op[c].failed = {}
           \/ remote' = remote /\ p.failed = op[c].failed \cup {h}
    BY <1>1
<1>2. UNCHANGED <<cache, index, work, commands>>
    BY DEF UploadFile, UploadDir
<1>3. h \in Hash /\ p \in Op /\ op'[c] = p
    BY <1>0, <1>1a, DoneType DEF IInv, TypeOK
<1>4. p.kind = "push" /\ p.phase = "transfer" /\ p.want = op[c].want /\ p.kids = op[c].kids
      /\ p.have = op[c].have /\ p.exists = op[c].exists /\ p.sent = op[c].sent
      /\ p.todo = op[c].todo \ {h} /\ DirItems(p) = DirItems(op[c])
      /\ p.failed \in {op[c].failed, op[c].failed \cup {h}}
    BY <1>0, <1>1a, DoneSame
<1>5. CloneOK(c)'
  <2>1. PushOK(p)'
      BY <1>0, <1>1a, <1>4 DEF PushOK, CloneOK
  <2>2. WholeKids(p) /\ GcOK(p)'
      BY <1>0, <1>4 DEF CloneOK, WholeKids, GcOK
  <2>3. Validated(p) => work[c] \cup p.exists \subseteq remote'
      BY <1>0, <1>1a, <1>4 DEF CloneOK, Validated
  <2>4. Closed(work[c]) /\ Closed(index[c])
      BY <1>0 DEF CloneOK
  <2> QED
      BY <1>2, <1>3, <1>4, <2>1, <2>2, <2>3, <2>4 DEF CloneOK, WholeKids, Closed, Validated
<1>6. \A e \in Clone \ {c} : CloneOK(e)'
  <2>1. work' = [work EXCEPT ![c] = work[c]] /\ index' = [index EXCEPT ![c] = index[c]]
      BY <1>2 DEF IInv, TypeOK
  <2> QED
      BY <1>0, <1>1a, <2>1, OthersOK
<1>7. DirComplete'
  <2> SUFFICES ASSUME NEW d \in remote' \cap Dir PROVE Contents[d] \subseteq remote'
      BY DEF DirComplete
  <2>1. CASE d \in remote
      BY <1>1a, <2>1 DEF IInv, DirComplete
  <2>2. CASE d \notin remote
    <3>1. h = d /\ d \in op[c].have /\ d \in op[c].todo
        BY <1>0, <1>1a, <2>2 DEF CloneOK, PushOK
    <3>2. d \in op[c].want /\ op[c].kids[d] = Contents[d]
        BY <1>0, <3>1 DEF CloneOK, PushOK
    <3>3. CASE Contents[d] = {}
        BY <3>3
    <3>4. CASE Contents[d] # {}
      <4>1. d \in DirItems(op[c])
          BY <3>2, <3>4 DEF DirItems
      <4>2. d \in op[c].sent /\ Contents[d] \subseteq remote \cup op[c].todo \cup op[c].failed
          BY <1>0, <3>1, <3>2, <4>1 DEF CloneOK, PushOK
      <4>3. Contents[d] \cap op[c].todo = {} /\ Contents[d] \cap op[c].failed = {}
          BY <1>1a, <2>2, <3>1, <3>2, <4>2 DEF FilesDone
      <4> QED
          BY <1>1a, <4>2, <4>3
    <3> QED
        BY <3>3, <3>4
  <2> QED
      BY <2>1, <2>2
<1>8. Alone'
    BY <1>0, <1>1a, <1>4, AloneStep DEF IInv
<1> QED
    BY <1>5, <1>6, <1>7, <1>8

(* A download changes the cache and the list of the command only. *)
LEMMA DownloadStep ==
    ASSUME IInv, NEW c \in Clone, Download(c)
    PROVE  DirComplete' /\ Alone' /\ \A e \in Clone : CloneOK(e)'
<1>0. op[c] \in Op /\ CloneOK(c) /\ op[c].kind = "pull" /\ op[c].phase = "transfer"
    BY DEF IInv, TypeOK, Download
<1>1. PICK h \in op[c].todo : \E p \in Done(op[c], h) : op' = [op EXCEPT ![c] = p]
  <2>1. PICK h \in op[c].todo : \/ op' = [op EXCEPT ![c].todo = @ \ {h}]
                                \/ op' = [op EXCEPT ![c].todo = @ \ {h}, ![c].failed = @ \cup {h}]
      BY DEF Download
  <2>2. op' = [op EXCEPT ![c] = [op[c] EXCEPT !.todo = @ \ {h}]]
        \/ op' = [op EXCEPT ![c] = [op[c] EXCEPT !.todo = @ \ {h}, !.failed = @ \cup {h}]]
      BY <2>1
  <2> QED
      BY <2>2 DEF Done
<1>1a. PICK p \in Done(op[c], h) : op' = [op EXCEPT ![c] = p]
    BY <1>1
<1>2. UNCHANGED <<remote, index, work, commands>>
    BY DEF Download
<1>3. p.kind = "pull" /\ p.phase = "transfer" /\ p.kids = op[c].kids
      /\ p.exists = op[c].exists /\ DirItems(p) = DirItems(op[c]) /\ op'[c] = p
    BY <1>0, <1>1a, DoneSame DEF IInv, TypeOK
<1>4. CloneOK(c)'
    BY <1>0, <1>2, <1>3
    DEF CloneOK, WholeKids, PushOK, GcOK, Closed, Validated
<1>5. \A e \in Clone \ {c} : CloneOK(e)'
  <2>1. work' = [work EXCEPT ![c] = work[c]] /\ index' = [index EXCEPT ![c] = index[c]]
      BY <1>2 DEF IInv, TypeOK
  <2> QED
      BY <1>1a, <1>2, <2>1, OthersOK
<1> QED
    BY <1>0, <1>1a, <1>2, <1>3, <1>4, <1>5, AloneStep DEF IInv, DirComplete

(* The end of a command commits an index whose files all have a directory. *)
LEMMA EndStep ==
    ASSUME IInv, NEW c \in Clone,
           EndPush(c) \/ EndPull(c) \/ GcFail(c) \/ EndGc(c) \/ Crash(c)
    PROVE  DirComplete' /\ Alone' /\ \A e \in Clone : CloneOK(e)'
<1>0. op[c] \in Op /\ CloneOK(c) /\ work[c] \subseteq Hash
    BY DEF IInv, TypeOK
<1>1. op' = [op EXCEPT ![c] = Idle] /\ work' = [work EXCEPT ![c] = {}] /\ UNCHANGED remote
    BY DEF EndPush, EndPull, GcFail, EndGc, Crash
<1>2. PICK i : index' = [index EXCEPT ![c] = i] /\ Closed(i)
  <2>1. CASE EndPush(c)
    <3> DEFINE pushed == op[c].sent \cup UNION {op[c].kids[d] : d \in op[c].sent}
    <3>1. \A d \in op[c].sent : d \in Dir /\ op[c].kids[d] \subseteq Contents[d]
        BY <1>0, <2>1 DEF Op, CloneOK, WholeKids, EndPush
    <3>2. Closed(work[c] \cup pushed)
        BY <1>0, <3>1, ConstantsAssumption DEF Closed, CloneOK
    <3> HIDE DEF pushed
    <3>3. index' = [index EXCEPT ![c] = IF op[c].failed = {} THEN work[c] \cup pushed
                                                             ELSE work[c]]
        BY <2>1 DEF EndPush, pushed
    <3> QED
        BY <1>0, <3>2, <3>3 DEF CloneOK
  <2>2. Closed({}) /\ Closed(work[c]) /\ Closed(index[c])
      BY <1>0 DEF Closed, CloneOK
  <2>3. CASE Crash(c)
      BY <2>2, <2>3 DEF Crash, IInv, TypeOK
  <2> QED
      BY <2>1, <2>2, <2>3 DEF EndPull, GcFail, EndGc
<1>3. CloneOK(c)'
  <2>1. op'[c] = Idle /\ work'[c] = {} /\ index'[c] = i
      BY <1>1, <1>2 DEF IInv, TypeOK
  <2> QED
      BY <1>2, <2>1, IdleOK DEF CloneOK, Closed, WholeKids, Validated
<1>4. \A e \in Clone \ {c} : CloneOK(e)'
    BY <1>1, <1>2, OthersOK
<1>5. Alone'
    BY <1>1, IdleOK, AloneStep DEF IInv
<1> QED
    BY <1>1, <1>3, <1>4, <1>5 DEF IInv, DirComplete

(* gc removes the unused .dir objects before any unused file, and nothing   *)
(* in use lists an unused file (dvc/cache/base.py gc).                      *)
LEMMA RemoveStep ==
    ASSUME IInv, NEW c \in Clone, GcRemove(c)
    PROVE  DirComplete' /\ Alone' /\ \A e \in Clone : CloneOK(e)'
<1>0. op[c] \in Op /\ CloneOK(c) /\ op[c].kind = "gc" /\ op[c].phase = "transfer"
    BY DEF IInv, TypeOK, GcRemove, CloneOK, GcOK
<1>1. PICK h \in op[c].todo : \E p \in Done(op[c], h) :
        /\ op' = [op EXCEPT ![c] = p]
        /\ h \in Dir \/ op[c].todo \cap Dir = {}
        /\ remote' = remote \ {h}
  <2>1. PICK h \in op[c].todo :
          /\ h \in Dir \/ op[c].todo \cap Dir = {}
          /\ remote' = remote \ {h}
          /\ op' = [op EXCEPT ![c].todo = @ \ {h}, ![c].removed = TRUE]
      BY DEF GcRemove
  <2>2. op' = [op EXCEPT ![c] = [op[c] EXCEPT !.todo = @ \ {h}, !.removed = TRUE]]
      BY <2>1, <1>0 DEF Op
  <2> QED
      BY <2>1, <2>2 DEF Done
<1>1a. PICK p \in Done(op[c], h) :
        /\ op' = [op EXCEPT ![c] = p]
        /\ h \in Dir \/ op[c].todo \cap Dir = {}
        /\ remote' = remote \ {h}
    BY <1>1
<1>2. UNCHANGED <<cache, index, work, commands>>
    BY DEF GcRemove
<1>3. p.kind = "gc" /\ p.phase = "transfer" /\ p.kids = op[c].kids /\ p.want = op[c].want
      /\ p.todo = op[c].todo \ {h} /\ op'[c] = p
    BY <1>0, <1>1a, DoneSame DEF IInv, TypeOK
<1>4. CloneOK(c)'
    BY <1>0, <1>1a, <1>2, <1>3
    DEF CloneOK, WholeKids, PushOK, GcOK, Closed, Validated
<1>5. \A e \in Clone \ {c} : CloneOK(e)'
  <2>1. work' = [work EXCEPT ![c] = work[c]] /\ index' = [index EXCEPT ![c] = index[c]]
      BY <1>2 DEF IInv, TypeOK
  <2> QED
      BY <1>0, <1>1a, <2>1, OthersOK
<1>6. DirComplete'
  <2> SUFFICES ASSUME NEW d \in remote' \cap Dir PROVE Contents[d] \subseteq remote'
      BY DEF DirComplete
  <2>1. Contents[d] \subseteq remote
      BY <1>1a DEF IInv, DirComplete
  <2>2. h \notin Contents[d]
    <3>1. CASE h \in Dir
        BY <3>1, ConstantsAssumption
    <3>2. CASE op[c].todo \cap Dir = {}
      <4>1. d \in op[c].want
          BY <1>0, <1>1a, <3>2 DEF CloneOK, GcOK
      <4> QED
          BY <1>0, <4>1 DEF CloneOK, GcOK
    <3> QED
        BY <1>1a, <3>1, <3>2
  <2> QED
      BY <1>1a, <2>1, <2>2
<1> QED
    BY <1>0, <1>1a, <1>3, <1>4, <1>5, <1>6, AloneStep DEF IInv

(* The two queries of _indexed_dir_hashes and the one of hashes_exist: a    *)
(* validated index speaks the truth, and the plan of a push has every file  *)
(* that a planned directory lacks on the remote.                            *)
LEMMA QueryStep ==
    ASSUME IInv, NEW c \in Clone, CheckIndexed(c) \/ CheckNew(c) \/ CheckFiles(c)
    PROVE  DirComplete' /\ Alone' /\ \A e \in Clone : CloneOK(e)'
<1>0. /\ op[c] \in Op /\ CloneOK(c) /\ work[c] \subseteq Hash
      /\ op[c].phase \in {"indexed", "new", "files"} /\ op[c].kind \in {"push", "pull"}
  <2>1. op[c] \in Op /\ CloneOK(c) /\ work[c] \subseteq Hash
      BY DEF IInv, TypeOK
  <2>2. op[c].phase \in {"indexed", "new", "files"}
      BY DEF CheckIndexed, CheckNew, CheckFiles
  <2> QED
      BY <2>1, <2>2 DEF Op, Kind, CloneOK, GcOK
<1>a. UNCHANGED <<remote, cache, index, commands>>
    BY DEF CheckIndexed, CheckNew, CheckFiles
<1>b. \A d \in remote \cap Dir : op[c].kids[d] \subseteq Contents[d] /\ Contents[d] \subseteq remote
    BY <1>0 DEF CloneOK, WholeKids, IInv, DirComplete
<1>1. ASSUME NEW o, NEW w, op' = [op EXCEPT ![c] = o], work' = [work EXCEPT ![c] = w],
             o.kind = op[c].kind, o.phase # "idle", WholeKids(o), PushOK(o), Closed(w),
             Validated(o) => w \cup o.exists \subseteq remote
      PROVE  DirComplete' /\ Alone' /\ \A e \in Clone : CloneOK(e)'
  <2>1. op'[c] = o /\ work'[c] = w /\ index' = [index EXCEPT ![c] = index[c]]
      BY <1>1, <1>a DEF IInv, TypeOK
  <2>2. CloneOK(c)'
      BY <1>0, <1>1, <1>a, <2>1 DEF CloneOK, WholeKids, PushOK, GcOK, Closed, Validated, DirItems
  <2>3. \A e \in Clone \ {c} : CloneOK(e)'
      BY <1>1, <1>a, <2>1, OthersOK
  <2> QED
      BY <1>1, <1>a, <2>2, <2>3, AloneStep DEF IInv, DirComplete
<1>2. CASE CheckIndexed(c)
  <2> DEFINE indexed == work[c] \cap Dir
             o == [op[c] EXCEPT !.exists = DirItems(op[c]) \cap indexed \cap remote,
                                !.phase = "new"]
             w == IF indexed \subseteq remote THEN work[c] ELSE {}
  <2>1. op' = [op EXCEPT ![c] = o] /\ work' = [work EXCEPT ![c] = w]
      BY <1>2 DEF CheckIndexed
  <2>2. o.kind = op[c].kind /\ o.phase = "new" /\ o.kids = op[c].kids
        /\ o.want = op[c].want /\ o.have = op[c].have /\ o.todo = op[c].todo
        /\ o.sent = op[c].sent /\ o.failed = op[c].failed /\ o.exists \subseteq remote
      BY <1>0 DEF Op
  <2>3. WholeKids(o) /\ PushOK(o)
      BY <1>0, <2>2 DEF CloneOK, WholeKids, PushOK, DirItems
  <2>4. Closed(w)
      BY <1>0 DEF CloneOK, Closed
  <2>5. w \subseteq remote
      BY <1>0, <1>b DEF CloneOK, Closed, Hash, IInv, DirComplete
  <2> HIDE DEF o, w
  <2> QED
      BY <1>1, <2>1, <2>2, <2>3, <2>4, <2>5
<1>3. CASE CheckNew(c)
  <2> DEFINE found == op[c].exists \cup (DirItems(op[c]) \cap remote)
             files == UNION {op[c].kids[d] : d \in found}
             new   == found \ work[c]
             newFiles == UNION {op[c].kids[d] : d \in new}
             o == [op[c] EXCEPT !.exists = found \cup files, !.phase = "files"]
             w == work[c] \cup new \cup newFiles
  <2>1. op' = [op EXCEPT ![c] = o] /\ work' = [work EXCEPT ![c] = w]
      BY <1>0, <1>3 DEF CheckNew, IInv, TypeOK
  <2>2. o.kind = op[c].kind /\ o.phase = "files" /\ o.kids = op[c].kids
        /\ o.want = op[c].want /\ o.have = op[c].have /\ o.todo = op[c].todo
        /\ o.sent = op[c].sent /\ o.failed = op[c].failed /\ o.exists = found \cup files
      BY <1>0 DEF Op
  <2>3. WholeKids(o) /\ PushOK(o)
      BY <1>0, <2>2 DEF CloneOK, WholeKids, PushOK, DirItems
  <2>4. found \subseteq Dir
      BY <1>0, <1>3, ItemsType DEF IInv, NewDirs, CheckNew
  <2>5. \A d \in found : op[c].kids[d] \subseteq Contents[d]
      BY <1>0, <2>4 DEF CloneOK, WholeKids
  <2>6. Closed(w)
    <3>1. SUFFICES ASSUME NEW f \in w \cap File PROVE \E d \in w \cap Dir : f \in Contents[d]
        BY DEF Closed
    <3>2. CASE f \in work[c]
        BY <1>0, <3>2 DEF CloneOK, Closed
    <3>3. CASE f \in newFiles
        BY <2>4, <2>5, <3>3
    <3>4. f \notin new
        BY <2>4, ConstantsAssumption
    <3> QED
        BY <3>2, <3>3, <3>4
  <2>7. DirItems(op[c]) # {} => w \cup o.exists \subseteq remote
    <3>1. SUFFICES ASSUME DirItems(op[c]) # {} PROVE w \cup found \cup files \subseteq remote
        BY <2>2
    <3>2. work[c] \cup op[c].exists \subseteq remote
        BY <1>0, <1>3, <3>1 DEF CloneOK, Validated, CheckNew
    <3>3. found \subseteq remote
        BY <3>2
    <3>4. files \subseteq remote /\ newFiles \subseteq files
        BY <3>3, <2>4, <1>b
    <3> QED
        BY <3>2, <3>3, <3>4
  <2>8. DirItems(o) = DirItems(op[c])
      BY <2>2 DEF DirItems
  <2> HIDE DEF o, w, found, files, new, newFiles
  <2> QED
      BY <1>1, <2>1, <2>2, <2>3, <2>6, <2>7, <2>8 DEF Validated
<1>4. CASE CheckFiles(c)
  <2> DEFINE rest   == Md5s(op[c]) \ op[c].exists
             exists == op[c].exists \cup (rest \cap work[c]) \cup (rest \cap remote)
             o      == [op[c] EXCEPT !.exists = exists]
             broken == {d \in DirItems(o) : o.kids[d] \cap Missing(o) # {}}
             plan   == IF o.kind = "push" THEN (o.have \ exists) \ broken
                                          ELSE (Md5s(o) \cap exists) \ o.have
             sent   == IF o.kind = "push" THEN plan \cap DirItems(o) ELSE {}
             p      == [o EXCEPT !.phase = "transfer", !.todo = plan,
                                 !.sent = sent, !.exists = {}]
  <2>1. op' = [op EXCEPT ![c] = p] /\ work' = [work EXCEPT ![c] = work[c]]
      BY <1>4 DEF CheckFiles, IInv, TypeOK
  <2>2. o \in Op /\ o.kind = op[c].kind /\ o.kids = op[c].kids /\ o.want = op[c].want
        /\ o.have = op[c].have /\ o.exists = exists /\ o.failed = op[c].failed
    <3>1. exists \subseteq Hash
        BY <1>0, ItemsType DEF Op
    <3> HIDE DEF exists
    <3> QED
        BY <1>0, <3>1 DEF Op
  <2>3. DirItems(o) = DirItems(op[c]) /\ Md5s(o) = Md5s(op[c])
      BY <2>2 DEF DirItems, Md5s
  <2>4. o.kind = "push" /\ DirItems(o) # {} =>
            \A d \in plan \cap DirItems(o) : o.kids[d] \subseteq remote \cup plan
    <3>1. SUFFICES ASSUME o.kind = "push", NEW d \in plan \cap DirItems(o),
                          NEW f \in o.kids[d], f \notin remote
                   PROVE  f \in o.have \ exists /\ f \notin broken
        OBVIOUS
    <3>2. f \in File /\ f \notin broken
        BY <2>2, <3>1, ConstantsAssumption, ItemsType DEF Op
    <3>3. exists \subseteq remote
        BY <1>0, <1>4, <2>3, <3>1 DEF CloneOK, Validated, CheckFiles
    <3>4. f \in Md5s(o) /\ f \notin Missing(o)
        BY <3>1 DEF Md5s
    <3> QED
        BY <2>2, <3>1, <3>2, <3>3, <3>4 DEF Missing
  <2> HIDE DEF o, exists, broken
  <2>5. p.kind = op[c].kind /\ p.phase = "transfer" /\ p.kids = op[c].kids
        /\ p.want = op[c].want /\ p.have = op[c].have /\ p.todo = plan /\ p.sent = sent
        /\ p.exists = {} /\ p.failed = op[c].failed
      BY <2>2 DEF Op
  <2>6. DirItems(p) = DirItems(o)
      BY <2>2, <2>5 DEF DirItems
  <2>7. WholeKids(p)
      BY <1>0, <2>5 DEF CloneOK, WholeKids
  <2>8. PushOK(p)
      BY <1>0, <2>2, <2>4, <2>5, <2>6 DEF CloneOK, PushOK
  <2>9. Validated(p) => work[c] \cup p.exists \subseteq remote
      BY <1>0, <1>4, <2>3, <2>5, <2>6 DEF CloneOK, Validated, CheckFiles
  <2> HIDE DEF p
  <2> QED
      BY <1>0, <1>1, <2>1, <2>5, <2>7, <2>8, <2>9 DEF CloneOK
<1> QED
    BY <1>2, <1>3, <1>4

(* A push or a pull about whole directories starts with nothing to do. *)
LEMMA StartStep ==
    ASSUME IInv, Promised, NEW c \in Clone, StartTransfer(c)
    PROVE  DirComplete' /\ Alone' /\ \A e \in Clone : CloneOK(e)'
<1>1. PICK kind \in {"push", "pull"}, want \in Requests : Start(c, kind, want, File)
    BY DEF StartTransfer, Targets, Promised
<1> DEFINE kids == [d \in Dir |-> IF d \in want THEN Children(c, d, File) ELSE {}]
           o    == [Idle EXCEPT !.kind = kind, !.want = want, !.kids = kids]
           here == Md5s(o) \cap cache[c]
           q    == [o EXCEPT !.have = here,
                             !.phase = IF DirItems(o) # {} THEN "indexed" ELSE "files"]
<1>2. kids \in [Dir -> SUBSET File] /\ want \subseteq Hash
    BY ChildrenType, ConstantsAssumption DEF Hash
<1>3. o \in Op /\ o.kind = kind /\ o.kids = kids /\ o.want = want /\ o.todo = {}
      /\ o.sent = {} /\ o.exists = {}
    BY <1>2, IdleType DEF Op, Kind, Idle
<1>4. \A d \in Dir : /\ kids[d] \in {{}, Contents[d]}
                     /\ d \in want /\ d \in cache[c] => kids[d] = Contents[d]
    BY ChildrenType
<1> HIDE DEF kids
<1>5. \A d \in here \cap Dir : d \in want /\ kids[d] = Contents[d]
  <2>1. SUFFICES ASSUME NEW d \in here \cap Dir PROVE d \in want
      BY <1>4
  <2> QED
      BY <1>2, <1>3, ConstantsAssumption DEF Md5s, DirItems
<1>6. here \subseteq Hash
    BY <1>3, ItemsType
<1> HIDE DEF o, here
<1>7. PICK p :
      /\ p = q
      /\ p.kind = kind /\ p.todo = {} /\ p.sent = {}
      /\ (\A d \in Dir : p.kids[d] \in {{}, Contents[d]})
      /\ (\A d \in p.have \cap Dir : d \in p.want /\ p.kids[d] = Contents[d])
      /\ p.phase \in {"indexed", "files"}
      /\ p.phase = "files" => DirItems(p) = {}
  <2>1. q.kind = kind /\ q.todo = {} /\ q.sent = {} /\ q.kids = kids /\ q.want = want
        /\ q.have = here
        /\ q.phase = IF DirItems(o) # {} THEN "indexed" ELSE "files"
      BY <1>3 DEF Op
  <2>2. DirItems(q) = DirItems(o)
      BY <1>3, <2>1 DEF DirItems
  <2> HIDE DEF q
  <2> QED
      BY <1>4, <1>5, <2>1, <2>2
<1> HIDE DEF q
<1>8. /\ op' = [op EXCEPT ![c] = p] /\ work' = [work EXCEPT ![c] = index[c]]
      /\ UNCHANGED <<remote, cache, index>> /\ MayStart(c)
    BY <1>1, <1>7 DEF Start, q, o, here, kids
<1>9. op'[c] = p /\ work'[c] = index[c] /\ index' = [index EXCEPT ![c] = index[c]]
    BY <1>8 DEF IInv, TypeOK
<1>10. CloneOK(c)'
  <2>1. PushOK(p)'
      BY <1>7 DEF PushOK
  <2>2. GcOK(p)' /\ WholeKids(p) /\ ~Validated(p)
      BY <1>7 DEF GcOK, WholeKids, Validated
  <2>3. Closed(index[c])
      BY DEF IInv, CloneOK
  <2> QED
      BY <1>7, <1>8, <1>9, <2>1, <2>2, <2>3 DEF CloneOK, WholeKids, Validated, Closed
<1>11. \A e \in Clone \ {c} : CloneOK(e)'
    BY <1>8, <1>9, OthersOK
<1>12. Alone'
    BY <1>7, <1>8 DEF IInv, TypeOK, Alone, MayStart, Promised
<1> QED
    BY <1>8, <1>10, <1>11, <1>12 DEF IInv, DirComplete

(* gc starts when no other clone has a command; what it keeps is closed.    *)
LEMMA StartGcStep ==
    ASSUME IInv, Promised, NEW c \in Clone, StartGc(c)
    PROVE  DirComplete' /\ Alone' /\ \A e \in Clone : CloneOK(e)'
<1>1. PICK items \in Requests :
        LET used == items \cup UNION {Children(c, d, File) : d \in items \cap Dir}
        IN  /\ items \cap Dir \subseteq cache[c]
            /\ op' = [op EXCEPT ![c] = [Idle EXCEPT !.kind = "gc", !.phase = "transfer",
                                          !.want = used, !.todo = remote \ used]]
    BY DEF StartGc, Promised
<1> DEFINE used == items \cup UNION {Children(c, d, File) : d \in items \cap Dir}
           q == [Idle EXCEPT !.kind = "gc", !.phase = "transfer",
                             !.want = used, !.todo = remote \ used]
<1>2. \A d \in used \cap Dir : Contents[d] \subseteq used
  <2>1. \A d \in Dir : Children(c, d, File) \in SUBSET File
      BY ConstantsAssumption DEF Children
  <2>2. used \cap Dir = items \cap Dir
      BY <2>1, ConstantsAssumption
  <2>3. \A d \in items \cap Dir : Children(c, d, File) = Contents[d]
      BY <1>1, ConstantsAssumption DEF Children
  <2> QED
      BY <2>2, <2>3
<1> HIDE DEF used
<1>3. PICK o :
      /\ o = q
      /\ \A d \in o.want \cap Dir : Contents[d] \subseteq o.want
      /\ o.todo \cap o.want = {} /\ remote \subseteq o.want \cup o.todo
      /\ o.kind = "gc" /\ o.phase = "transfer" /\ o.kids = NoKids
  <2>1. q.want = used /\ q.todo = remote \ used /\ q.kind = "gc" /\ q.phase = "transfer"
        /\ q.kids = NoKids
      BY DEF Idle
  <2> HIDE DEF q
  <2> QED
      BY <1>2, <2>1
<1> HIDE DEF q
<1>4. op' = [op EXCEPT ![c] = o] /\ work' = [work EXCEPT ![c] = index[c]]
      /\ UNCHANGED <<remote, index>> /\ \A e \in Clone : op[e].kind = "none"
    BY <1>1, <1>3 DEF StartGc, used, q, Busy, Promised
<1>5. op'[c] = o /\ work'[c] = index[c] /\ index' = [index EXCEPT ![c] = index[c]]
    BY <1>4 DEF IInv, TypeOK
<1>6. CloneOK(c)'
  <2>1. GcOK(o)'
      BY <1>3, <1>4 DEF GcOK
  <2>2. PushOK(o)' /\ WholeKids(o) /\ ~Validated(o)
      BY <1>3 DEF PushOK, WholeKids, Validated, NoKids
  <2>3. Closed(index[c])
      BY DEF IInv, CloneOK
  <2> QED
      BY <1>3, <1>4, <1>5, <2>1, <2>2, <2>3 DEF CloneOK, WholeKids, Validated, Closed
<1>7. \A e \in Clone \ {c} : CloneOK(e)'
    BY <1>4, <1>5, OthersOK
<1>8. Alone'
    BY <1>4 DEF IInv, TypeOK, Alone
<1> QED
    BY <1>4, <1>6, <1>7, <1>8 DEF IInv, DirComplete

(* Every step of the clones keeps the inductive invariant. *)
LEMMA InductiveStep ==
    ASSUME IInv, Promised, [Next]_vars
    PROVE  IInv'
<1>1. TypeOK' /\ NewDirs'
    BY TypeStep DEF IInv
<1>2. ASSUME NEW c \in Clone, Add(c)
      PROVE  DirComplete' /\ Alone' /\ \A e \in Clone : CloneOK(e)'
    BY <1>2 DEF Add, IInv, DirComplete, Alone, CloneOK, WholeKids, PushOK, GcOK, Closed,
                Validated, DirItems
<1>3. ASSUME NEW c \in Clone, Advance(c) \/ Crash(c)
      PROVE  DirComplete' /\ Alone' /\ \A e \in Clone : CloneOK(e)'
    BY <1>3, QueryStep, UploadStep, DownloadStep, RemoveStep, EndStep DEF Advance
<1>4. CASE UNCHANGED vars
    BY <1>4 DEF vars, IInv, TypeOK, NewDirs, DirComplete, Alone, CloneOK, WholeKids,
                PushOK, GcOK, Closed, Validated, DirItems
<1> QED
    BY <1>1, <1>2, <1>3, <1>4, StartStep, StartGcStep DEF Next, IInv

LEMMA Inductive == Promised => (Spec => []IInv)
<1> SUFFICES ASSUME Promised PROVE Spec => []IInv
    OBVIOUS
<1>1. Init => IInv
  <2> SUFFICES ASSUME Init PROVE IInv
      OBVIOUS
  <2>1. TypeOK /\ NewDirs
      BY IdleType, ConstantsAssumption DEF Init, TypeOK, NewDirs, Idle, Hash
  <2>2. \A c \in Clone : CloneOK(c)
    <3> SUFFICES ASSUME NEW c \in Clone PROVE CloneOK(c)
        OBVIOUS
    <3>1. op[c] = Idle /\ work[c] = {} /\ index[c] = {}
        BY DEF Init
    <3> QED
        BY <3>1 DEF CloneOK, Idle, NoKids, WholeKids, PushOK, GcOK, Closed, Validated, DirItems
  <2> QED
      BY <2>1, <2>2, IdleOK DEF Init, IInv, DirComplete, Alone
<1>2. IInv /\ [Next]_vars => IInv'
    BY InductiveStep
<1> QED
    BY <1>1, <1>2, PTL DEF Spec

(* While gc --cloud has the remote to itself and knows the files of all    *)
(* directories in use (collect_used_dir_cache gives up where it does not,   *)
(* unless forced) and commands are about whole directories, no failure,     *)
(* crash or interleaving of push, pull and gc                               *)
(* leaves a .dir object on the remote without its files (_dir_upload).      *)
THEOREM DirectoriesComplete == Promised => (Spec => []DirComplete)
<1>1. IInv => DirComplete
    BY DEF IInv
<1> QED
    BY <1>1, Inductive, PTL

(* Under the same conditions every file of an index is there because of a   *)
(* directory in it, so that validating the directories validates the index. *)
THEOREM IndexesClosed == Promised => (Spec => []IndexClosed)
<1>1. IInv => IndexClosed
    BY DEF IInv, CloneOK, Closed, IndexClosed
<1> QED
    BY <1>1, Inductive, PTL

(* Under the same conditions the status of a command about a directory      *)
(* never takes a hash to be on the remote that is not (hashes_exist).       *)
THEOREM ValidationSound == Promised => (Spec => []ValidatedIndex)
<1>1. IInv => ValidatedIndex
    BY DEF IInv, CloneOK, Validated, ValidatedIndex
<1> QED
    BY <1>1, Inductive, PTL

(* What a push of a directory makes of its plan: each object of the clone  *)
(* is there, still to come or failed, or it is a directory of whose files  *)
(* the clone lacks one. *)
Planned(c) ==
    op[c].kind = "push" /\ op[c].phase = "transfer" /\ DirItems(op[c]) # {} =>
        \A h \in op[c].have :
            \/ h \in remote \cup op[c].todo \cup op[c].failed
            \/ h \in DirItems(op[c]) /\ ~(op[c].kids[h] \subseteq op[c].have)

(* DirPushComplete of one clone and one step. *)
PushNow(c) ==
    op[c].kind = "push" /\ DirItems(op[c]) # {} =>
        /\ CheckFiles(c) =>
              \A h \in op[c].have :
                 \/ h \in remote \cup op'[c].todo
                 \/ h \in DirItems(op[c]) /\ ~(op[c].kids[h] \subseteq op[c].have \cup remote)
        /\ PushDone(c) =>
              \A h \in op[c].have :
                 \/ h \in remote'
                 \/ h \in DirItems(op[c]) /\ ~(op[c].kids[h] \subseteq op[c].have)

(* The plan misses what is on the remote, and what it holds back.          *)
LEMMA PlanCovers ==
    ASSUME IInv, NEW c \in Clone, CheckFiles(c), op[c].kind = "push", DirItems(op[c]) # {}
    PROVE  /\ \A h \in op[c].have :
                 \/ h \in remote \cup op'[c].todo
                 \/ h \in DirItems(op[c]) /\ ~(op[c].kids[h] \subseteq op[c].have \cup remote)
           /\ op'[c].kids = op[c].kids /\ op'[c].have = op[c].have
           /\ DirItems(op'[c]) = DirItems(op[c]) /\ remote' = remote
<1> DEFINE rest   == Md5s(op[c]) \ op[c].exists
           exists == op[c].exists \cup (rest \cap work[c]) \cup (rest \cap remote)
           o      == [op[c] EXCEPT !.exists = exists]
           broken == {d \in DirItems(o) : o.kids[d] \cap Missing(o) # {}}
           plan   == (o.have \ exists) \ broken
<1>1. /\ op[c] \in Op
      /\ op' = [op EXCEPT ![c] = [o EXCEPT !.phase = "transfer", !.todo = plan,
                                           !.sent = plan \cap DirItems(o), !.exists = {}]]
      /\ op[c].phase = "files" /\ remote' = remote
    BY DEF CheckFiles, IInv, TypeOK, Op
<1>2. /\ op'[c].todo = plan /\ op'[c].kids = op[c].kids /\ op'[c].have = op[c].have
      /\ op'[c].want = op[c].want
      /\ o.have = op[c].have /\ o.kids = op[c].kids /\ o.want = op[c].want /\ o.exists = exists
    BY <1>1 DEF IInv, TypeOK, Op
<1>3. /\ DirItems(o) = DirItems(op[c]) /\ Md5s(o) = Md5s(op[c]) /\ DirItems(op'[c]) = DirItems(op[c])
    BY <1>2 DEF DirItems, Md5s
<1>4. exists \subseteq remote
    BY <1>1 DEF IInv, CloneOK, Validated
<1>5. ASSUME NEW h \in op[c].have, h \notin remote, h \notin plan
      PROVE  h \in DirItems(op[c]) /\ ~(op[c].kids[h] \subseteq op[c].have \cup remote)
  <2>1. h \in broken
      BY <1>2, <1>4, <1>5
  <2>2. PICK k \in op[c].kids[h] : k \in Missing(o)
      BY <1>2, <2>1
  <2>3. k \in Md5s(op[c]) /\ k \notin op[c].have /\ k \notin exists
      BY <1>2, <1>3, <2>2 DEF Missing
  <2>4. k \notin remote
      BY <2>3
  <2> QED
      BY <1>3, <2>1, <2>2, <2>3, <2>4
<1> HIDE DEF plan
<1> QED
    BY <1>1, <1>2, <1>3, <1>5

(* Other clones only add to the remote while one pushes.                   *)
LEMMA PlannedStep == ASSUME IInv, \A c \in Clone : Planned(c), [Next]_vars
                     PROVE  \A c \in Clone : Planned(c)'
<1> SUFFICES ASSUME NEW c \in Clone PROVE Planned(c)'
    OBVIOUS
<1>1. CASE UNCHANGED vars
    BY <1>1 DEF vars, Planned, DirItems
<1>2. ASSUME op'[c] = op[c], \/ remote \subseteq remote'
                             \/ op[c].kind = "none"
      PROVE  Planned(c)'
    BY <1>2 DEF Planned, DirItems
<1>3. ASSUME NEW e \in Clone, Add(e) PROVE Planned(c)'
    BY <1>2, <1>3 DEF Add
<1>4. ASSUME op'[c].kind # "push" \/ op'[c].phase # "transfer" PROVE Planned(c)'
    BY <1>4 DEF Planned
<1>5. ASSUME NEW e \in Clone, StartTransfer(e) PROVE Planned(c)'
  <2>1. PICK kind, want, target : Start(e, kind, want, target)
      BY <1>5 DEF StartTransfer
  <2>2. PICK o, x, phase : /\ op' = [op EXCEPT ![e] = [o EXCEPT !.have = x, !.phase = phase]]
                           /\ phase \in {"indexed", "files"} /\ DOMAIN o = DOMAIN Idle
                           /\ remote' = remote
    <3> DEFINE k == [d \in Dir |-> IF d \in want THEN Children(e, d, target) ELSE {}]
               o == [Idle EXCEPT !.kind = kind, !.want = want, !.kids = k]
               x == Md5s(o) \cap cache[e]
               f == IF DirItems(o) # {} THEN "indexed" ELSE "files"
    <3>1. op' = [op EXCEPT ![e] = [o EXCEPT !.have = x, !.phase = f]] /\ remote' = remote
        BY <2>1 DEF Start
    <3>2. DOMAIN o = DOMAIN Idle /\ f \in {"indexed", "files"}
        BY DEF Idle
    <3> HIDE DEF o, x, f
    <3> QED
        BY <3>1, <3>2
  <2>3. [o EXCEPT !.have = x, !.phase = phase].phase = phase
      BY <2>2 DEF Idle
  <2> QED
      BY <1>2, <1>4, <2>2, <2>3 DEF IInv, TypeOK
<1>6. ASSUME NEW e \in Clone, StartGc(e) PROVE Planned(c)'
  <2>1. PICK o : op' = [op EXCEPT ![e] = o] /\ o.kind = "gc" /\ remote' = remote
      BY <1>6 DEF StartGc, Idle
  <2> QED
      BY <1>2, <1>4, <2>1 DEF IInv, TypeOK
<1>7. ASSUME NEW e \in Clone, e # c, Advance(e) \/ Crash(e) PROVE Planned(c)'
  <2>1. op'[c] = op[c]
      BY <1>7 DEF Advance, Crash, CheckIndexed, CheckNew, CheckFiles, UploadFile, UploadDir, EndPush,
                  Download, EndPull, GcRemove, GcFail, EndGc, IInv, TypeOK
  <2>2. remote \subseteq remote' \/ op[e].kind = "gc"
      BY <1>7 DEF Advance, Crash, CheckIndexed, CheckNew, CheckFiles, UploadFile, UploadDir, EndPush,
                  Download, EndPull, GcRemove, GcFail, EndGc
  <2>3. op[e].kind = "gc" => op[c].kind = "none"
      BY <1>7 DEF IInv, Alone
  <2> QED
      BY <1>2, <2>1, <2>2, <2>3
<1>8. CASE EndPush(c) \/ EndPull(c) \/ GcFail(c) \/ EndGc(c) \/ Crash(c)
  <2>1. op'[c] = Idle
      BY <1>8 DEF EndPush, EndPull, GcFail, EndGc, Crash, IInv, TypeOK
  <2> QED
      BY <1>4, <2>1 DEF Idle
<1>9. CASE CheckIndexed(c) \/ CheckNew(c)
  <2>1. op'[c].phase \in {"new", "files"}
      BY <1>9 DEF CheckIndexed, CheckNew, IInv, TypeOK, Op
  <2> QED
      BY <1>4, <2>1
<1>10. CASE CheckFiles(c)
  <2>1. op'[c].kind = op[c].kind
      BY <1>10 DEF CheckFiles, IInv, TypeOK, Op
  <2>2. CASE op[c].kind = "push" /\ DirItems(op[c]) # {}
      BY <1>10, <2>2, PlanCovers DEF Planned
  <2>3. CASE op[c].kind # "push"
      BY <1>4, <2>1, <2>3
  <2>4. CASE DirItems(op[c]) = {}
    <3>1. DirItems(op'[c]) = {}
        BY <1>10, <2>4 DEF CheckFiles, IInv, TypeOK, Op, DirItems
    <3> QED
        BY <3>1 DEF Planned
  <2> QED
      BY <2>2, <2>3, <2>4
<1>11. CASE UploadFile(c) \/ UploadDir(c)
  <2>1. PICK h \in op[c].todo : \/ /\ remote' = remote \cup {h}
                                   /\ op' = [op EXCEPT ![c].todo = @ \ {h}]
                                \/ /\ UNCHANGED remote
                                   /\ op' = [op EXCEPT ![c].todo = @ \ {h}, ![c].failed = @ \cup {h}]
      BY <1>11 DEF UploadFile, UploadDir
  <2>2. /\ op'[c].kind = op[c].kind /\ op'[c].phase = op[c].phase /\ op'[c].want = op[c].want
        /\ op'[c].kids = op[c].kids /\ op'[c].have = op[c].have
        /\ op'[c].todo = op[c].todo \ {h} /\ remote \subseteq remote' /\ op[c].failed \subseteq op'[c].failed
        /\ h \in remote' \cup op'[c].failed
      BY <2>1 DEF IInv, TypeOK, Op
  <2>3. Planned(c) /\ DirItems(op'[c]) = DirItems(op[c])
      BY <2>2 DEF DirItems
  <2>4. ASSUME op[c].kind = "push", op[c].phase = "transfer", DirItems(op[c]) # {},
               NEW x \in op[c].have
        PROVE  \/ x \in remote' \cup op'[c].todo \cup op'[c].failed
               \/ x \in DirItems(op[c]) /\ ~(op[c].kids[x] \subseteq op[c].have)
      BY <2>2, <2>3, <2>4 DEF Planned
  <2> QED
      BY <2>2, <2>3, <2>4 DEF Planned
<1>12. CASE Download(c) \/ GcRemove(c)
  <2>1. op[c].kind # "push"
      BY <1>12 DEF Download, GcRemove
  <2>2. CASE Download(c)
    <3>1. op'[c].kind = op[c].kind
        BY <2>2 DEF Download, IInv, TypeOK, Op
    <3> QED
        BY <1>4, <2>1, <3>1
  <2>3. CASE GcRemove(c)
    <3>1. op'[c].kind = op[c].kind
        BY <2>3 DEF GcRemove, IInv, TypeOK, Op
    <3> QED
        BY <1>4, <2>1, <3>1
  <2> QED
      BY <1>12, <2>2, <2>3
<1>13. CASE Advance(c) \/ Crash(c)
    BY <1>8, <1>9, <1>10, <1>11, <1>12, <1>13 DEF Advance
<1> QED
    BY <1>1, <1>3, <1>5, <1>6, <1>7, <1>13 DEF Next

LEMMA StepPushes ==
    ASSUME IInv, \A c \in Clone : Planned(c) PROVE \A c \in Clone : PushNow(c)
<1> SUFFICES ASSUME NEW c \in Clone, op[c].kind = "push", DirItems(op[c]) # {} PROVE PushNow(c)
    BY DEF PushNow
<1>1. ASSUME PushDone(c), NEW h \in op[c].have
      PROVE  \/ h \in remote'
             \/ h \in DirItems(op[c]) /\ ~(op[c].kids[h] \subseteq op[c].have)
    BY <1>1 DEF PushDone, EndPush, Planned
<1> QED
    BY <1>1, PlanCovers DEF PushNow

(* Under the same conditions a push of directories that reports success has *)
(* left nothing behind that it could have pushed, whatever stale index the  *)
(* clone had (_indexed_dir_hashes, _get_plans).                             *)
THEOREM PushesComplete == Promised => (Spec => DirPushComplete)
<1> SUFFICES ASSUME Promised PROVE Spec => DirPushComplete
    OBVIOUS
<1> DEFINE All  == \A c \in Clone : Planned(c)
           Push == \A c \in Clone : PushNow(c)
<1>1. Init => All
    BY DEF Init, Idle, Planned
<1>2. IInv /\ All /\ [Next]_vars => All'
    BY PlannedStep
<1>3. IInv /\ All => [Push]_vars
    BY StepPushes
<1>4. Spec => [][Push]_vars
    BY <1>1, <1>2, <1>3, Inductive, PTL DEF Spec
<1> QED
    BY <1>4 DEF DirPushComplete, PushNow

-------------------------------------------------------------------------------
(* Parametrisation.                                                          *)

States(Ctx, Marks) == [ok : BOOLEAN, ctx : Ctx, loaded : Marks]

(* LoadData merges what it is given, or fails.                               *)
LEMMA LoadDataMerges ==
    ASSUME NEW Ctx, NEW Marks, NEW s \in States(Ctx, Marks), s.ok,
           NEW data, LoadData(s, data).ok
    PROVE  /\ ~Clash(s.ctx, data)
           /\ LoadData(s, data).ctx = Merged(s.ctx, data)
<1>1. CASE Clash(s.ctx, data)
      BY <1>1 DEF LoadData, Failed
<1>2. CASE ~Clash(s.ctx, data)
      BY <1>2 DEF LoadData, States
<1> QED BY <1>1, <1>2

(* load_from_vars skips a file that is there whole, or merges the nodes of   *)
(* its file or of its data.                                                  *)
ItemNodes(files, wdir, item) ==
    IF item.inline THEN Nodes(item.data, LocalSource)
    ELSE Nodes(Selected(files[<<wdir, item.file>>], item.keys), <<wdir, item.file>>)

LEMMA LoadMerges ==
    ASSUME NEW files, NEW wdir, NEW Ctx, NEW Marks, NEW s \in States(Ctx, Marks), s.ok,
           NEW item, Load(files, wdir, s, item).ok
    PROVE  \/ Load(files, wdir, s, item).ctx = s.ctx
           \/ /\ ~Clash(s.ctx, ItemNodes(files, wdir, item))
              /\ Load(files, wdir, s, item).ctx = Merged(s.ctx, ItemNodes(files, wdir, item))
              /\ ~item.inline => <<wdir, item.file>> \in DOMAIN files
<1> DEFINE path == <<wdir, item.file>>
           new == Nodes(Selected(files[path], item.keys), path)
           t == LoadData(s, new)
<1>1. CASE item.inline
  <2>1. Load(files, wdir, s, item) = LoadData(s, Nodes(item.data, LocalSource))
        BY <1>1 DEF Load
  <2> QED BY <1>1, <2>1, LoadDataMerges DEF ItemNodes
<1>2. CASE ~item.inline
  <2>1. Load(files, wdir, s, item) = LoadFile(files, wdir, s, item)
        BY <1>2 DEF Load
  <2>2. CASE path \in DOMAIN s.loaded /\ s.loaded[path] = {} /\ item.keys = {}
        BY <2>1, <2>2 DEF LoadFile
  <2>3. CASE ~(path \in DOMAIN s.loaded /\ s.loaded[path] = {} /\ item.keys = {})
    <3>1. ~(\/ LoadedAlready(s.loaded, path, item.keys)
            \/ path \notin DOMAIN files
            \/ ~HasKeys(files[path], item.keys))
          BY <2>1, <2>3 DEF LoadFile, Failed
    <3>2. LoadFile(files, wdir, s, item)
            = IF t.ok THEN [t EXCEPT !.loaded = With(@, path, item.keys)] ELSE t
          BY <2>3, <3>1 DEF LoadFile
    <3>3. t.ok
          BY <2>1, <3>2
    <3>4. ~Clash(s.ctx, new) /\ t = [s EXCEPT !.ctx = Merged(s.ctx, new)]
          BY <3>3, LoadDataMerges DEF LoadData
    <3>5. LoadFile(files, wdir, s, item).ctx = Merged(s.ctx, new)
      <4>1. LoadFile(files, wdir, s, item) = [t EXCEPT !.loaded = With(t.loaded, path, item.keys)]
            BY <3>2, <3>3
      <4>2. t = [ok |-> s.ok, ctx |-> Merged(s.ctx, new), loaded |-> s.loaded]
            BY <3>4 DEF States
      <4> HIDE DEF t
      <4> QED BY <4>1, <4>2
    <3> QED BY <1>2, <2>1, <3>1, <3>4, <3>5 DEF ItemNodes
  <2> QED BY <2>2, <2>3
<1> QED BY <1>1, <1>2

(* Loading more never changes a value that is there: what was resolved       *)
(* before the vars of a stage are loaded, as the working directory is, is    *)
(* resolved to the same after (the NOTE of _resolve_stage).                  *)
THEOREM LoadKeepsValues ==
    ASSUME NEW files, NEW wdir, NEW Ctx, NEW Marks, NEW s \in States(Ctx, Marks), s.ok,
           NEW item, Load(files, wdir, s, item).ok
    PROVE  \A p \in DOMAIN s.ctx : /\ p \in DOMAIN Load(files, wdir, s, item).ctx
                                   /\ Load(files, wdir, s, item).ctx[p] = s.ctx[p]
<1> DEFINE new == ItemNodes(files, wdir, item)
           after == Load(files, wdir, s, item).ctx
<1>1. after = s.ctx \/ after = Merged(s.ctx, new)
      BY LoadMerges
<1> HIDE DEF after, new
<1>2. ASSUME NEW p \in DOMAIN s.ctx
      PROVE  p \in DOMAIN Merged(s.ctx, new) /\ Merged(s.ctx, new)[p] = s.ctx[p]
      BY <1>2 DEF Merged
<1>3. \A p \in DOMAIN s.ctx : p \in DOMAIN after /\ after[p] = s.ctx[p]
      BY <1>1, <1>2
<1> QED BY <1>3 DEF after

(* Every value stays one that its file has at its path (_merge, load_from).  *)
THEOREM LoadKeepsTraceable ==
    ASSUME NEW files, \A f \in DOMAIN files : \A p \in DOMAIN files[f] :
                          files[f][p] = [kind |-> files[f][p].kind, val |-> files[f][p].val],
           NEW wdir, NEW Ctx, NEW Marks, NEW s \in States(Ctx, Marks), s.ok,
           NEW item, Load(files, wdir, s, item).ok,
           Traceable(files, s.ctx)
    PROVE  Traceable(files, Load(files, wdir, s, item).ctx)
<1> DEFINE path == <<wdir, item.file>>
           new == ItemNodes(files, wdir, item)
<1>1. CASE Load(files, wdir, s, item).ctx = s.ctx
      BY <1>1
<1>2. CASE /\ Load(files, wdir, s, item).ctx = Merged(s.ctx, new)
           /\ ~item.inline => path \in DOMAIN files
  <2> SUFFICES ASSUME NEW p \in Leaves(Merged(s.ctx, new)), Merged(s.ctx, new)[p].source # LocalSource
               PROVE  LET n == Merged(s.ctx, new)[p]
                      IN /\ n.source \in DOMAIN files
                         /\ n.at \in DOMAIN files[n.source]
                         /\ files[n.source][n.at] = [kind |-> n.kind, val |-> n.val]
        BY <1>2 DEF Traceable
  <2>1. CASE p \in DOMAIN s.ctx
        BY <2>1 DEF Traceable, Leaves, Merged
  <2>2. CASE p \notin DOMAIN s.ctx
    <3>1. p \in DOMAIN new /\ Merged(s.ctx, new)[p] = new[p]
          BY <2>2 DEF Leaves, Merged
    <3>2. CASE item.inline
      <4>1. new = Nodes(item.data, LocalSource)
            BY <3>2 DEF ItemNodes
      <4>2. new[p].source = LocalSource
            BY <3>1, <4>1 DEF Nodes
      <4> QED BY <3>1, <4>2
    <3>3. CASE ~item.inline
      <4> DEFINE data == Selected(files[path], item.keys)
      <4>1. new = Nodes(data, path)
            BY <3>3 DEF ItemNodes
      <4>2. p \in DOMAIN data
            BY <3>1, <4>1 DEF Nodes
      <4>3. p \in DOMAIN files[path] /\ data[p] = files[path][p]
            BY <4>2 DEF Selected
      <4>4. new[p] = [kind |-> data[p].kind, val |-> data[p].val, source |-> path, at |-> p]
            BY <4>1, <4>2 DEF Nodes
      <4>5. path \in DOMAIN files
            BY <1>2, <3>3
      <4> DEFINE n == new[p]
      <4>6. n.source = path /\ n.at = p /\ n.kind = data[p].kind /\ n.val = data[p].val
            BY <4>4
      <4>7. files[path][p] = [kind |-> n.kind, val |-> n.val]
            BY <4>3, <4>5, <4>6
      <4> HIDE DEF n, path, data
      <4>8. n.source \in DOMAIN files /\ n.at \in DOMAIN files[n.source]
            BY <4>3, <4>5, <4>6
      <4>9. files[n.source][n.at] = [kind |-> n.kind, val |-> n.val]
            BY <4>6, <4>7
      <4> QED BY <3>1, <4>8, <4>9 DEF n
    <3> QED BY <3>2, <3>3
  <2> QED BY <2>1, <2>2
<1>3. \/ Load(files, wdir, s, item).ctx = s.ctx
      \/ /\ Load(files, wdir, s, item).ctx = Merged(s.ctx, new)
         /\ ~item.inline => path \in DOMAIN files
      BY LoadMerges
<1> QED BY <1>1, <1>2, <1>3

(* Two items that do not clash give the same values in either order.         *)
THEOREM MergeCommutes ==
    ASSUME NEW a, NEW b, ~Clash(a, b)
    PROVE  /\ ~Clash(b, a)
           /\ Leaves(Merged(a, b)) = Leaves(Merged(b, a))
           /\ \A p \in Leaves(Merged(a, b)) : Merged(a, b)[p] = Merged(b, a)[p]
<1>1. \A p \in DOMAIN a \cap DOMAIN b : a[p].kind = "map" /\ b[p].kind = "map"
      BY DEF Clash
<1> QED BY <1>1 DEF Clash, Merged, Leaves

-----------------------------------------------------------------------------
(* Configuration.                                                            *)

Files(Tables) == [LEVELS -> [core : Name \cup {None}, remote : Tables]]
Commands(Tables) == [files : Files(Tables), inside : BOOLEAN, ok : BOOLEAN]

ConfType(Tables) == [core : Name \cup {None}, remote : Tables]

LEMMA EditType ==
    ASSUME NEW Tables, NEW s \in Commands(Tables), NEW level \in LEVELS, NEW conf \in ConfType(Tables)
    PROVE  Edit(s, level, conf) \in Commands(Tables)
<1> DEFINE after == [s.files EXCEPT ![level] = conf]
<1>1. after \in Files(Tables)
      BY DEF Commands, Files, ConfType
<1>2. Valid(after, Local) \in BOOLEAN
      BY DEF Valid
<1>3. [s EXCEPT !.ok = FALSE] \in Commands(Tables)
      BY DEF Commands
<1> HIDE DEF after
<1>4. [s EXCEPT !.files = after, !.ok = Valid(after, Local)] \in Commands(Tables)
      BY <1>1, <1>2 DEF Commands
<1> QED BY <1>3, <1>4 DEF Edit, after

(* An edit that succeeds has written its level and nothing else.             *)
LEMMA EditWrites ==
    ASSUME NEW Tables, NEW s \in Commands(Tables), NEW level \in LEVELS,
           NEW conf \in ConfType(Tables), Edit(s, level, conf).ok
    PROVE  /\ s.ok
           /\ Edit(s, level, conf) \in Commands(Tables)
           /\ Edit(s, level, conf).files = [s.files EXCEPT ![level] = conf]
<1> DEFINE after == [s.files EXCEPT ![level] = conf]
<1>1. s.ok
      BY DEF Edit
<1>2. ~((InRepo(level) /\ ~s.inside) \/ ~Valid(after, level))
      BY <1>1 DEF Edit, Commands
<1>3. Edit(s, level, conf) = [s EXCEPT !.files = after, !.ok = Valid(after, Local)]
      BY <1>1, <1>2 DEF Edit
<1>4. Valid(after, Local)
      BY <1>3 DEF Commands
<1>5. after \in Files(Tables)
      BY DEF Commands, Files, ConfType
<1>6. Edit(s, level, conf) = [files |-> after, inside |-> s.inside, ok |-> TRUE]
  <2> HIDE DEF after
  <2> QED BY <1>3, <1>4 DEF Commands
<1> QED BY <1>1, <1>5, <1>6 DEF Commands

(* One turn of the loop of CmdRemoteRemove.                                  *)
LEMMA ForgetDefaultForgets ==
    ASSUME NEW Tables, NEW s \in Commands(Tables), NEW level \in LEVELS, NEW n \in Name,
           n # None, ForgetDefault(s, level, n).ok
    PROVE  /\ s.ok
           /\ ForgetDefault(s, level, n) \in Commands(Tables)
           /\ \A k \in LEVELS :
                /\ ForgetDefault(s, level, n).files[k].remote = s.files[k].remote
                /\ k # level => ForgetDefault(s, level, n).files[k].core = s.files[k].core
           /\ ForgetDefault(s, level, n).files[level].core \in {s.files[level].core, None} \ {n}
<1> DEFINE conf == s.files[level]
           new == IF conf.core = n THEN [conf EXCEPT !.core = None] ELSE conf
           t == ForgetDefault(s, level, n)
<1>1. conf \in ConfType(Tables)
      BY DEF Commands, Files, ConfType
<1>2. /\ new \in ConfType(Tables)
      /\ new.remote = conf.remote
      /\ new.core \in {conf.core, None} \ {n}
      BY <1>1 DEF ConfType
<1>3. t = Edit(s, level, new)
      BY DEF ForgetDefault
<1>4. /\ s.ok
      /\ t \in Commands(Tables)
      /\ t.files = [s.files EXCEPT ![level] = new]
      BY <1>2, <1>3, EditWrites
<1>5. s.files \in Files(Tables)
      BY DEF Commands
<1> HIDE DEF new, t, conf
<1>6. \A k \in LEVELS : t.files[k] = IF k = level THEN new ELSE s.files[k]
      BY <1>4, <1>5 DEF Files
<1> QED BY <1>2, <1>4, <1>6 DEF conf, t

(* A level is left alone, or loses a default that is n.                      *)
Forgets(t, u, n) ==
    \A j \in LEVELS : /\ u.files[j].remote = t.files[j].remote
                      /\ u.files[j].core \in {t.files[j].core, None}
                      /\ t.files[j].core # n => u.files[j].core # n

LEMMA TurnType ==
    ASSUME NEW Tables, NEW t \in Commands(Tables), NEW k \in LEVELS, NEW n, NEW level
    PROVE  ForgetAt(t, k, n, level, System) \in Commands(Tables)
<1> DEFINE conf == t.files[k]
           new == IF conf.core = n THEN [conf EXCEPT !.core = None] ELSE conf
<1>1. conf \in ConfType(Tables)
      BY DEF Commands, Files, ConfType
<1>2. new \in ConfType(Tables)
      BY <1>1 DEF ConfType
<1>3. Edit(t, k, new) \in Commands(Tables)
      BY <1>2, EditType
<1> QED BY <1>3 DEF ForgetAt, ForgetDefault

LEMMA TurnForgets ==
    ASSUME NEW Tables, NEW t \in Commands(Tables), NEW k \in LEVELS, NEW n \in Name, n # None,
           NEW level \in LEVELS, ForgetAt(t, k, n, level, System).ok
    PROVE  /\ t.ok
           /\ Forgets(t, ForgetAt(t, k, n, level, System), n)
           /\ k >= level => ForgetAt(t, k, n, level, System).files[k].core # n
<1> DEFINE u == ForgetAt(t, k, n, level, System)
<1>1. CASE k >= level
  <2>1. k >= System
        BY DEF LEVELS, System, Local
  <2>2. u = ForgetDefault(t, k, n) /\ u.ok
        BY <1>1, <2>1 DEF ForgetAt
  <2>3. /\ t.ok
        /\ \A j \in LEVELS : /\ ForgetDefault(t, k, n).files[j].remote = t.files[j].remote
                             /\ j # k => ForgetDefault(t, k, n).files[j].core = t.files[j].core
        /\ ForgetDefault(t, k, n).files[k].core \in {t.files[k].core, None} \ {n}
        BY <2>2, ForgetDefaultForgets
  <2> HIDE DEF u
  <2>4. /\ Forgets(t, u, n) /\ u.files[k].core # n
        BY <2>2, <2>3 DEF Forgets
  <2> QED BY <2>3, <2>4 DEF u
<1>2. CASE ~(k >= level)
  <2>1. u = t
        BY <1>2 DEF ForgetAt
  <2> QED BY <1>2, <2>1 DEF Forgets
<1> QED BY <1>1, <1>2

(* Names of a level, after one section was removed.                          *)
LEMMA NamesWithout ==
    ASSUME NEW f, NEW g, NEW n, NEW j \in LEVELS,
           \A k \in LEVELS : DOMAIN f[k].remote \subseteq DOMAIN g[k].remote \cup {n}
    PROVE  Names(f, j) \subseteq Names(g, j) \cup {n}
BY DEF Names, LEVELS, System, Local

(* CmdRemoteRemove: no default of any level names the remote any more, so    *)
(* all that remain are still defined.                                        *)
THEOREM RemoveKeepsDefaults ==
    ASSUME NEW Tables, \A T \in Tables : DOMAIN T \subseteq Name,
           \A T \in Tables : \A m \in Name : [x \in DOMAIN T \ {m} |-> T[x]] \in Tables,
           NEW files \in Files(Tables), NEW inside \in BOOLEAN,
           NEW level \in LEVELS, NEW n \in Name, n # None
    PROVE  KeepsDefaults(files, RemoteRemove(Begin(files, inside), level, n))
<1> DEFINE s == Begin(files, inside)
           r == RemoveSection(s, level, n)
           r4 == ForgetAt(r, Local, n, level, System)
           r3 == ForgetAt(r4, Repo, n, level, System)
           r2 == ForgetAt(r3, Global, n, level, System)
           r1 == ForgetAt(r2, System, n, level, System)
<1> SUFFICES ASSUME DefaultsDefined(files), InLowerCase(files), r1.ok
             PROVE  DefaultsDefined(r1.files)
    BY DEF KeepsDefaults, RemoteRemove, Removing
<1>1. s \in Commands(Tables) /\ s.files = files
      BY DEF Begin, Commands
<1>2. LEVELS = {System, Global, Repo, Local} /\ LEVELS \subseteq Nat
      BY DEF LEVELS, System, Global, Repo, Local
<1> DEFINE conf == WithoutRemote(files[level], n)
<1>3. /\ conf \in ConfType(Tables)
      /\ conf.core = files[level].core
      /\ DOMAIN conf.remote = DOMAIN files[level].remote \ {n}
  <2>1. files[level] \in ConfType(Tables)
        BY DEF Files, ConfType
  <2>2. [x \in DOMAIN files[level].remote \ {n} |-> files[level].remote[x]] \in Tables
        BY <2>1 DEF ConfType
  <2> QED BY <2>1, <2>2 DEF WithoutRemote, ConfType
<1> HIDE DEF conf
<1>4. r \in Commands(Tables)
  <2>1. Reject(s) \in Commands(Tables)
        BY <1>1 DEF Reject, Commands
  <2>2. Edit(s, level, conf) \in Commands(Tables)
        BY <1>1, <1>3, EditType
  <2> QED BY <1>1, <2>1, <2>2 DEF RemoveSection, conf
<1>5. r.ok => r.files = [files EXCEPT ![level] = conf]
  <2> SUFFICES ASSUME r.ok PROVE r.files = [files EXCEPT ![level] = conf]
      OBVIOUS
  <2>1. ~Reject(s).ok
        BY <1>1 DEF Reject, Commands
  <2>2. r = Edit(s, level, conf)
        BY <1>1, <2>1 DEF RemoveSection, conf
  <2>3. Edit(s, level, conf).ok
        BY <2>2
  <2>4. Edit(s, level, conf).files = [s.files EXCEPT ![level] = conf]
        BY <1>1, <1>3, <2>3, EditWrites
  <2> QED BY <1>1, <2>2, <2>4
<1> HIDE DEF s, r
<1>6. r4 \in Commands(Tables)
      BY <1>2, <1>4, TurnType
<1>7. r3 \in Commands(Tables)
  <2> HIDE DEF r4
  <2> QED BY <1>2, <1>6, TurnType
<1>8. r2 \in Commands(Tables)
  <2> HIDE DEF r3
  <2> QED BY <1>2, <1>7, TurnType
<1>9. r2.ok /\ Forgets(r2, r1, n) /\ (System >= level => r1.files[System].core # n)
  <2> HIDE DEF r2
  <2> QED BY <1>2, <1>8, TurnForgets
<1>10. r3.ok /\ Forgets(r3, r2, n) /\ (Global >= level => r2.files[Global].core # n)
  <2> HIDE DEF r3
  <2> QED BY <1>2, <1>7, <1>9, TurnForgets
<1>11. r4.ok /\ Forgets(r4, r3, n) /\ (Repo >= level => r3.files[Repo].core # n)
  <2> HIDE DEF r4
  <2> QED BY <1>2, <1>6, <1>10, TurnForgets
<1>12. r.ok /\ Forgets(r, r4, n) /\ (Local >= level => r4.files[Local].core # n)
      BY <1>2, <1>4, <1>11, TurnForgets
<1> HIDE DEF r1, r2, r3, r4
<1>13. \A k \in LEVELS : r.files[k] = IF k = level THEN conf ELSE files[k]
      BY <1>5, <1>12 DEF Files
<1>14. \A k \in LEVELS : r.files[k].core = files[k].core
      BY <1>3, <1>13
<1>15. \A k \in LEVELS : r1.files[k].core \in {files[k].core, None}
      BY <1>9, <1>10, <1>11, <1>12, <1>14 DEF Forgets
<1>16. \A k \in LEVELS : k >= level => r1.files[k].core # n
      BY <1>2, <1>9, <1>10, <1>11, <1>12 DEF Forgets
<1>17. \A k \in LEVELS : r1.files[k].remote = r.files[k].remote
      BY <1>9, <1>10, <1>11, <1>12 DEF Forgets
<1>18. \A k \in LEVELS : DOMAIN files[k].remote \subseteq DOMAIN r1.files[k].remote \cup {n}
      BY <1>3, <1>13, <1>17
<1>19. \A k \in LEVELS : k # level => r1.files[k].remote = files[k].remote
      BY <1>13, <1>17
<1> DEFINE F == r1.files
<1> HIDE DEF F
<1> SUFFICES ASSUME NEW k \in LEVELS, F[k].core # None
             PROVE  Lower[F[k].core] \in Names(F, k)
    BY DEF DefaultsDefined, F
<1>20. F[k].core = files[k].core
       BY <1>15 DEF F
<1>21. Lower[files[k].core] = files[k].core /\ Lower[files[k].core] \in Names(files, k)
       BY <1>20 DEF DefaultsDefined, InLowerCase
<1>22. CASE k >= level
  <2>1. files[k].core # n
        BY <1>16, <1>20, <1>22 DEF F
  <2>2. \A j \in LEVELS : DOMAIN files[j].remote \subseteq DOMAIN F[j].remote \cup {n}
        BY <1>18 DEF F
  <2>3. Names(files, k) \subseteq Names(F, k) \cup {n}
        BY <2>2, NamesWithout
  <2> QED BY <1>20, <1>21, <2>1, <2>3
<1>23. CASE ~(k >= level)
  <2>1. \A j \in System..k : j \in LEVELS /\ j # level
        BY <1>2, <1>23 DEF LEVELS, System, Local
  <2>2. \A j \in System..k : F[j].remote = files[j].remote
        BY <1>19, <2>1 DEF F
  <2>3. Names(files, k) = Names(F, k)
        BY <2>2 DEF Names
  <2> QED BY <1>20, <1>21, <2>3
<1> QED BY <1>22, <1>23

=============================================================================
