------------------------------ MODULE RemoteSync ------------------------------
(***************************************************************************)
(* Clones of a repository that share one remote storage: push, pull and    *)
(* "gc --cloud" (dvc/remote/base.py, dvc/cache/base.py), with the index of *)
(* the remote that every clone keeps in .dvc/tmp/index (remote/index.py).  *)
(*                                                                         *)
(* A remote holds objects named by their hash.  A directory is an object   *)
(* of its own, the .dir file, that lists the hashes of the files in it; an *)
(* object is worth nothing to a client without the objects it lists.       *)
(* Nothing is atomic: queries, transfers and removals of different clones  *)
(* interleave, each of them may fail, and a process may die between any    *)
(* two of them.  Within one clone the repository lock serialises commands. *)
(***************************************************************************)
EXTENDS Naturals, FiniteSets

CONSTANTS
    Clone,      \* clones of the repository, each with a cache and an index
    File,       \* hashes of files
    Dir,        \* hashes of .dir objects
    Contents,   \* Contents[d]: the files that the directory d lists
    Requests,   \* sets of objects a command may be about
    Granular,   \* commands may be given a path inside a directory as target
    GcAlone,    \* nobody uses the remote while some clone collects garbage
    Forced,     \* gc is forced, or confirmed, when a .dir object in use is missing
    MaxCommands \* bound: push, pull and gc commands in a behaviour

ASSUME ConstantsAssumption ==
    /\ File \cap Dir = {}
    /\ Contents \in [Dir -> SUBSET File]
    /\ Requests \subseteq SUBSET (File \cup Dir)
    /\ Granular \in BOOLEAN
    /\ GcAlone \in BOOLEAN
    /\ Forced \in BOOLEAN
    /\ MaxCommands \in Nat

Hash == File \cup Dir

Kind == {"none", "push", "pull", "gc"}

(* Where a command is: the two queries of _indexed_dir_hashes, the query of *)
(* hashes_exist, the transfers (or the removals of gc).                     *)
Phase == {"idle", "indexed", "new", "files", "transfer"}

VARIABLES
    remote,     \* objects in the remote storage
    cache,      \* cache[c]: intact objects in the local cache of c
    index,      \* index[c]: index of the remote, as last committed
    work,       \* work[c]: the same inside the open database transaction
    op,         \* op[c]: the command c executes
    commands    \* commands started so far (bounded by MaxCommands)

vars == <<remote, cache, index, work, op, commands>>

Op == [kind   : Kind,
       phase  : Phase,
       want   : SUBSET Hash,            \* top-level items of the NamedCache
       kids   : [Dir -> SUBSET File],   \* their children; used of gc is want
       have   : SUBSET Hash,            \* local_exists
       exists : SUBSET Hash,            \* remote_exists
       todo   : SUBSET Hash,            \* objects still to transfer or remove
       sent   : SUBSET Dir,             \* directories planned for upload
       failed : SUBSET Hash,            \* transfers that failed
       removed : BOOLEAN]               \* gc has removed something

NoKids == [d \in Dir |-> {}]

Idle == [kind |-> "none", phase |-> "idle", want |-> {}, kids |-> NoKids,
         have |-> {}, exists |-> {}, todo |-> {}, sent |-> {}, failed |-> {},
         removed |-> FALSE]

TypeOK ==
    /\ remote \subseteq Hash
    /\ cache \in [Clone -> SUBSET Hash]
    /\ index \in [Clone -> SUBSET Hash]
    /\ work \in [Clone -> SUBSET Hash]
    /\ op \in [Clone -> Op]
    /\ commands \in 0..MaxCommands

Init ==
    /\ remote = {}
    /\ cache = [c \in Clone |-> {}]
    /\ index = [c \in Clone |-> {}]
    /\ work = [c \in Clone |-> {}]
    /\ op = [c \in Clone |-> Idle]
    /\ commands = 0

-----------------------------------------------------------------------------
(* NamedCache.dir_keys and scheme_keys: items with children are directories, *)
(* every other item counts as a file.                                        *)
DirItems(o) == {d \in o.want \cap Dir : o.kids[d] # {}}

Md5s(o) == o.want \cup UNION {o.kids[d] : d \in DirItems(o)}

(* Hashes that are neither local nor on the remote. *)
Missing(o) == Md5s(o) \ (o.have \cup o.exists)

(* Broken form: a directory counts among its own files. *)
ChildrenAndSelf(c, d, target) ==
    IF d \in cache[c] THEN {d} \cup (Contents[d] \cap target) ELSE {}

(* Children by which an item enters the NamedCache: none when the .dir      *)
(* object is not in the cache, only those under the target when it has one. *)
Children(c, d, target) == IF d \in cache[c] THEN Contents[d] \cap target ELSE {}

(* The files of a directory of the plan have all been dealt with. *)
FilesDone(o, d) == o.kids[d] \cap o.todo = {}

Busy(c) == op[c].kind # "none"

MayStart(c) ==
    /\ ~Busy(c)
    /\ GcAlone => \A e \in Clone : op[e].kind # "gc"
    /\ commands < MaxCommands

-----------------------------------------------------------------------------
(* dvc add or dvc repro: new data enters the cache, a directory with all of *)
(* its files.                                                               *)
Add(c) ==
    /\ ~Busy(c)
    /\ \E h \in Hash \ cache[c] :
          cache' = [cache EXCEPT ![c] = @ \cup {h} \cup
                                        (IF h \in Dir THEN Contents[h] ELSE {})]
    /\ UNCHANGED <<remote, index, work, op, commands>>

(* push and pull (index_locked): the index is loaded, the local cache is   *)
(* asked for the requested hashes.  A pull of what is cached needs no query. *)
Start(c, kind, want, target) ==
    LET kids == [d \in Dir |-> IF d \in want THEN Children(c, d, target) ELSE {}]
        o    == [Idle EXCEPT !.kind = kind, !.want = want, !.kids = kids]
        here == Md5s(o) \cap cache[c]
    IN
    /\ MayStart(c)
    /\ commands' = commands + 1
    /\ ~(kind = "pull" /\ here = Md5s(o))
    /\ work' = [work EXCEPT ![c] = index[c]]
    /\ op' = [op EXCEPT ![c] =
                [o EXCEPT !.have = here,
                          !.phase = IF DirItems(o) # {} THEN "indexed" ELSE "files"]]
    /\ UNCHANGED <<remote, cache, index>>

(* Files that a command may be restricted to: all, or with a granular      *)
(* target some files of each directory it is about.                        *)
Targets(want) ==
    {File} \cup {target \in SUBSET File :
                    Granular /\ \A d \in want \cap Dir : Contents[d] \cap target # {}}

StartTransfer(c) ==
    \E kind \in {"push", "pull"}, want \in Requests \ {{}} :
        \E target \in Targets(want) : Start(c, kind, want, target)

(* Broken form: the index is kept although a directory of it is gone. *)
CheckIndexedNoClear(c) ==
    /\ op[c].phase = "indexed"
    /\ op' = [op EXCEPT ![c].exists = DirItems(op[c]) \cap work[c] \cap remote,
                        ![c].phase = "new"]
    /\ UNCHANGED <<remote, cache, index, work, commands>>

(* Broken form: only the directories that are gone leave the index. *)
CheckIndexedForgetGone(c) ==
    /\ op[c].phase = "indexed"
    /\ work' = [work EXCEPT ![c] = @ \ (Dir \ remote)]
    /\ op' = [op EXCEPT ![c].exists = DirItems(op[c]) \cap work[c] \cap remote,
                        ![c].phase = "new"]
    /\ UNCHANGED <<remote, cache, index, commands>>

(* _indexed_dir_hashes: are the indexed directories still on the remote?   *)
(* If one of them is not, the index is cleared.                            *)
CheckIndexed(c) ==
    LET indexed == work[c] \cap Dir
    IN
    /\ op[c].phase = "indexed"
    /\ work' = [work EXCEPT ![c] = IF indexed \subseteq remote THEN @ ELSE {}]
    /\ op' = [op EXCEPT ![c].exists = DirItems(op[c]) \cap indexed \cap remote,
                        ![c].phase = "new"]
    /\ UNCHANGED <<remote, cache, index, commands>>

(* Broken form: every requested directory is indexed, found or not. *)
CheckNewIndexAll(c) ==
    LET found == op[c].exists \cup (DirItems(op[c]) \cap remote)
    IN
    /\ op[c].phase = "new"
    /\ op' = [op EXCEPT ![c].exists = found \cup UNION {op[c].kids[d] : d \in found},
                        ![c].phase = "files"]
    /\ work' = [work EXCEPT ![c] = @ \cup Md5s(op[c])]
    /\ UNCHANGED <<remote, cache, index, commands>>

(* _indexed_dir_hashes: which of the other directories are there?  All the *)
(* files of one that is are assumed to be there and enter the index.       *)
CheckNew(c) ==
    LET found == op[c].exists \cup (DirItems(op[c]) \cap remote)
        files == UNION {op[c].kids[d] : d \in found}
        new   == found \ work[c]
    IN
    /\ op[c].phase = "new"
    /\ op' = [op EXCEPT ![c].exists = found \cup files,
                        ![c].phase = "files"]
    /\ work' = [work EXCEPT ![c] = @ \cup new \cup UNION {op[c].kids[d] : d \in new}]
    /\ UNCHANGED <<remote, cache, index, commands>>

(* hashes_exist, then _get_plans: the rest is looked up in the index and   *)
(* only then on the remote.  A directory with a file that is missing on    *)
(* both sides is not uploaded.                                             *)
CheckFiles(c) ==
    LET rest   == Md5s(op[c]) \ op[c].exists
        exists == op[c].exists \cup (rest \cap work[c]) \cup (rest \cap remote)
        o      == [op[c] EXCEPT !.exists = exists]
        broken == {d \in DirItems(o) : o.kids[d] \cap Missing(o) # {}}
        plan   == IF o.kind = "push" THEN (o.have \ exists) \ broken
                                     ELSE (Md5s(o) \cap exists) \ o.have
    IN
    /\ op[c].phase = "files"
    /\ op' = [op EXCEPT ![c] = [o EXCEPT !.phase = "transfer", !.todo = plan,
                                         !.sent = IF o.kind = "push"
                                                  THEN plan \cap DirItems(o) ELSE {},
                                         !.exists = {}]]
    /\ UNCHANGED <<remote, cache, index, work, commands>>

(* tree.upload of a file, or of an item that counts as one. *)
UploadFile(c) ==
    /\ op[c].kind = "push" /\ op[c].phase = "transfer"
    /\ \E h \in op[c].todo \ op[c].sent :
          \/ /\ remote' = remote \cup {h}
             /\ op' = [op EXCEPT ![c].todo = @ \ {h}]
          \/ /\ UNCHANGED remote
             /\ op' = [op EXCEPT ![c].todo = @ \ {h}, ![c].failed = @ \cup {h}]
    /\ UNCHANGED <<cache, index, work, commands>>

(* Broken form: the .dir object does not wait for the files it lists. *)
UploadDirAtOnce(c) ==
    /\ op[c].kind = "push" /\ op[c].phase = "transfer"
    /\ \E d \in op[c].todo \cap op[c].sent :
          /\ remote' = remote \cup {d}
          /\ op' = [op EXCEPT ![c].todo = @ \ {d}]
    /\ UNCHANGED <<cache, index, work, commands>>

(* _dir_upload: once its files are through, and only if all of them are. *)
UploadDir(c) ==
    /\ op[c].kind = "push" /\ op[c].phase = "transfer"
    /\ \E d \in op[c].todo \cap op[c].sent :
          \/ /\ FilesDone(op[c], d)
             /\ op[c].kids[d] \cap op[c].failed = {}
             /\ remote' = remote \cup {d}
             /\ op' = [op EXCEPT ![c].todo = @ \ {d}]
          \/ /\ \/ op[c].kids[d] \cap op[c].failed # {}
                \/ FilesDone(op[c], d)
             /\ UNCHANGED remote
             /\ op' = [op EXCEPT ![c].todo = @ \ {d}, ![c].failed = @ \cup {d}]
    /\ UNCHANGED <<cache, index, work, commands>>

(* tree.download *)
Download(c) ==
    /\ op[c].kind = "pull" /\ op[c].phase = "transfer"
    /\ \E h \in op[c].todo :
          \/ /\ h \in remote
             /\ cache' = [cache EXCEPT ![c] = @ \cup {h}]
             /\ op' = [op EXCEPT ![c].todo = @ \ {h}]
          \/ /\ UNCHANGED cache
             /\ op' = [op EXCEPT ![c].todo = @ \ {h}, ![c].failed = @ \cup {h}]
    /\ UNCHANGED <<remote, index, work, commands>>

(* The transfers of a push are over: the pushed directories are indexed    *)
(* unless something failed (UploadError); the index is committed either way. *)
EndPush(c) ==
    LET pushed == op[c].sent \cup UNION {op[c].kids[d] : d \in op[c].sent}
    IN
    /\ op[c].kind = "push" /\ op[c].phase = "transfer" /\ op[c].todo = {}
    /\ index' = [index EXCEPT ![c] = IF op[c].failed = {} THEN work[c] \cup pushed
                                                         ELSE work[c]]
    /\ work' = [work EXCEPT ![c] = {}]
    /\ op' = [op EXCEPT ![c] = Idle]
    /\ UNCHANGED <<remote, cache, commands>>

(* The downloads of a pull are over; a failure clears the index            *)
(* (DownloadError).                                                        *)
EndPull(c) ==
    /\ op[c].kind = "pull" /\ op[c].phase = "transfer" /\ op[c].todo = {}
    /\ index' = [index EXCEPT ![c] = IF op[c].failed = {} THEN work[c] ELSE {}]
    /\ work' = [work EXCEPT ![c] = {}]
    /\ op' = [op EXCEPT ![c] = Idle]
    /\ UNCHANGED <<remote, cache, commands>>

-----------------------------------------------------------------------------
(* gc --cloud: used_cache collects the objects in use, and with a directory *)
(* the files that its .dir object names. get_dir_cache pulls a .dir object  *)
(* that is missing, a pull like any other; where that has failed the user   *)
(* is asked, and gc gives up or goes on without the files. The local cache  *)
(* is collected first, then the objects of the remote are listed.          *)
StartGc(c) ==
    /\ MayStart(c)
    /\ commands' = commands + 1
    /\ GcAlone => \A e \in Clone : ~Busy(e)
    /\ \E items \in Requests :
          LET used == items \cup UNION {Children(c, d, File) : d \in items \cap Dir}
          IN  /\ Forced \/ items \cap Dir \subseteq cache[c]
              /\ cache' = [cache EXCEPT ![c] = @ \cap used]
              /\ op' = [op EXCEPT ![c] = [Idle EXCEPT !.kind = "gc", !.phase = "transfer",
                                            !.want = used, !.todo = remote \ used]]
    /\ work' = [work EXCEPT ![c] = index[c]]
    /\ UNCHANGED <<remote, index>>

(* tree.remove of one unused object, .dir objects before files. *)
GcRemove(c) ==
    /\ op[c].kind = "gc"
    /\ \E h \in op[c].todo :
          /\ h \in Dir \/ op[c].todo \cap Dir = {}
          /\ remote' = remote \ {h}
          /\ op' = [op EXCEPT ![c].todo = @ \ {h}, ![c].removed = TRUE]
    /\ UNCHANGED <<cache, index, work, commands>>

(* tree.remove raises: gc ends at once and the index stays as it was. *)
GcFail(c) ==
    /\ op[c].kind = "gc" /\ op[c].todo # {}
    /\ op' = [op EXCEPT ![c] = Idle]
    /\ index' = [index EXCEPT ![c] = work[c]]
    /\ work' = [work EXCEPT ![c] = {}]
    /\ UNCHANGED <<remote, cache, commands>>

(* Remote.gc: the index is cleared if something was removed. *)
EndGc(c) ==
    /\ op[c].kind = "gc" /\ op[c].todo = {}
    /\ index' = [index EXCEPT ![c] = IF op[c].removed THEN {} ELSE work[c]]
    /\ work' = [work EXCEPT ![c] = {}]
    /\ op' = [op EXCEPT ![c] = Idle]
    /\ UNCHANGED <<remote, cache, commands>>

(* The process dies: the transaction on the index is rolled back. *)
Crash(c) ==
    /\ Busy(c)
    /\ op' = [op EXCEPT ![c] = Idle]
    /\ work' = [work EXCEPT ![c] = {}]
    /\ UNCHANGED <<remote, cache, index, commands>>

Advance(c) ==
    \/ CheckIndexed(c) \/ CheckNew(c) \/ CheckFiles(c)
    \/ UploadFile(c) \/ UploadDir(c) \/ EndPush(c)
    \/ Download(c) \/ EndPull(c)
    \/ GcRemove(c) \/ GcFail(c) \/ EndGc(c)

Next ==
    \E c \in Clone : Add(c) \/ StartTransfer(c) \/ StartGc(c) \/ Advance(c) \/ Crash(c)

Spec == Init /\ [][Next]_vars

-----------------------------------------------------------------------------
(* A directory on the remote has all of its files there, whatever fails,   *)
(* dies or interleaves: files are pushed before the .dir object that lists *)
(* them, and it is removed before they are.  _indexed_dir_hashes relies on *)
(* it when it takes the files of such a directory for granted.  It takes   *)
(* that no target is granular, that gc is alone, and that no gc is forced  *)
(* past a .dir object that is missing.                                     *)
DirComplete == \A d \in remote \cap Dir : Contents[d] \subseteq remote

(* Only the .dir hashes of an index are ever validated: every file in it    *)
(* is there because of a directory in it.                                  *)
IndexClosed ==
    \A c \in Clone : \A f \in index[c] \cap File :
        \E d \in index[c] \cap Dir : f \in Contents[d]

(* An open index, once validated against the remote, has only hashes that  *)
(* are on the remote, although other clones push at the same time.         *)
ValidatedIndex ==
    \A c \in Clone :
        (/\ op[c].kind \in {"push", "pull"}
         /\ op[c].phase \in {"new", "files", "transfer"}
         /\ DirItems(op[c]) # {})
        => work[c] \cup op[c].exists \subseteq remote

(* A push that reports success leaves every requested object that the      *)
(* clone has on the remote. It does not hold: the index is not validated    *)
(* for a push of plain files (remote/base.py:125).                         *)
PushDone(c) == op[c].kind = "push" /\ op[c].failed = {} /\ EndPush(c)

PushComplete ==
    [][\A c \in Clone : PushDone(c) => op[c].have \subseteq remote']_vars

(* The same of a push that has a directory to push, whose status validates *)
(* the index: whatever stale index an earlier gc, crash or failure left, it *)
(* plans all that the clone has and the remote has not, but a directory    *)
(* some file of which is on neither side (_get_plans), and when it reports *)
(* success this is on the remote.  A file that is missing may have come    *)
(* from another clone by then; the directory is held back all the same.    *)
DirPushComplete ==
    [][\A c \in Clone : op[c].kind = "push" /\ DirItems(op[c]) # {} =>
          /\ CheckFiles(c) =>
                \A h \in op[c].have :
                   \/ h \in remote \cup op'[c].todo
                   \/ h \in DirItems(op[c]) /\ ~(op[c].kids[h] \subseteq op[c].have \cup remote)
          /\ PushDone(c) =>
                \A h \in op[c].have :
                   \/ h \in remote'
                   \/ h \in DirItems(op[c]) /\ ~(op[c].kids[h] \subseteq op[c].have)]_vars

=============================================================================
