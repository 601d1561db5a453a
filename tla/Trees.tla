-------------------------------- MODULE Trees --------------------------------
(* A remote as the trees of dvc/tree see it: processes upload, download and *)
(* remove objects with several threads each, in the steps that each kind of  *)
(* cloud takes for it, and are killed or see a call fail in between.         *)
(*                                                                           *)
(* All the objects are in one directory of the remote ("00/..."): a name is  *)
(* told from another, the two characters in front of it are not.  An item of *)
(* the store has an identity only in Google Drive, where two items, or two   *)
(* directories, of one path may exist; everywhere else a path is a key.      *)
EXTENDS Naturals, Sequences, FiniteSets, FiniteSetsExt

CONSTANTS
    Cloud,      \* the kinds of remote that are explored
    Process,    \* the processes of dvc that work on the remote
    Thread,     \* their threads
    ProcessOf,  \* the process of a thread
    Hash,       \* the hashes of the objects, their names on the remote
    MaxOps,     \* bound on the uploads, downloads and removals
    MaxFaults,  \* bound on the calls that fail and the processes that are killed
    None

ASSUME ProcessOfAssumption == ProcessOf \in [Thread -> Process]

(* None is no thread, and the identity of no directory. *)
ASSUME NoneAssumption == None \notin Thread /\ None \notin Nat

(* The steps of _upload.  A bucket takes the whole object, or nothing, in    *)
(* one request; one that is made again with smaller chunks (gs) puts the     *)
(* same object.                                                              *)
S3Upload == <<"put">>
GSUpload == <<"put">>
AzureUpload == <<"put">>
OSSUpload == <<"put">>
HTTPUpload == <<"put">>

(* Broken form: sftp writes under the object's own name. *)
SSHUploadInPlace == <<"makedirs", "open">>

(* A temporary file beside the object, which is then renamed. *)
HDFSUpload == <<"write", "rename">>
SSHUpload == <<"makedirs", "write", "rename">>
LocalUpload == <<"makedirs", "write", "rename">>

(* The object is written under its own name. *)
WebHDFSUpload == <<"open">>
WebDAVUpload == <<"makedirs", "open">>

(* The directory of the object must have an identity first. *)
GDriveUpload == <<"resolve", "put">>

Clouds == {"s3", "gs", "azure", "oss", "http", "hdfs", "ssh", "local", "webhdfs", "webdav", "gdrive"}

Steps(c) ==
    CASE c = "s3" -> S3Upload           [] c = "gs" -> GSUpload
      [] c = "azure" -> AzureUpload     [] c = "oss" -> OSSUpload
      [] c = "http" -> HTTPUpload       [] c = "hdfs" -> HDFSUpload
      [] c = "ssh" -> SSHUpload         [] c = "local" -> LocalUpload
      [] c = "webhdfs" -> WebHDFSUpload [] c = "webdav" -> WebDAVUpload
      [] c = "gdrive" -> GDriveUpload

(* The clouds where a part of an object may be seen under its name. *)
InPlace == {"webhdfs", "webdav"}

ASSUME CloudAssumption == Cloud \subseteq Clouds

VARIABLES
    cloud,    \* the kind of the remote
    dirs,     \* the directories "00" of the remote, by identity
    items,    \* the objects of the remote
    litter,   \* temporary files that were left on the remote
    ids,      \* _ids_cache["dirs"] of a process: directories it knows
    creator,  \* the thread of a process that holds the lock of _create_dir
    made,     \* how many directories a process has had Drive make
    unheard,  \* ... and for how many of them the answer was an error
    work,     \* what a thread does
    fetch,    \* the download of a directory by a process
    copy,     \* the local copies of a process: hashes with a whole or a cut file
    stored,   \* uploads that ended well, by process, since the last removal
    broken,   \* objects whose upload was killed or failed half way
    ops, faults, fresh

vars == <<cloud, dirs, items, litter, ids, creator, made, unheard, work, fetch, copy,
          stored, broken, ops, faults, fresh>>

remoteVars == <<dirs, items, litter, fresh>>
driveVars == <<ids, creator, made, unheard>>
ghosts == <<stored, broken>>
counters == <<ops, faults>>

(* A process that has not listed the directories yet. *)
Unlisted == {None}

Idle == [step |-> "idle", hash |-> None, dir |-> 0, whole |-> FALSE]
NoFetch == [step |-> "idle", all |-> {}, pending |-> {}, failed |-> FALSE]

Item == [id : Nat, dir : Nat, name : Hash, whole : BOOLEAN]

Threads(p) == {t \in Thread : ProcessOf[t] = p}

Init ==
    /\ cloud \in Cloud
    /\ dirs = {} /\ items = {} /\ litter = {} /\ fresh = 1
    /\ ids = [p \in Process |-> Unlisted]
    /\ creator = [p \in Process |-> None]
    /\ made = [p \in Process |-> 0] /\ unheard = [p \in Process |-> 0]
    /\ work = [t \in Thread |-> Idle]
    /\ fetch = [p \in Process |-> NoFetch]
    /\ copy = [p \in Process |-> {}]
    /\ stored = {} /\ broken = {}
    /\ ops = 0 /\ faults = 0

-----------------------------------------------------------------------------
(* What a process finds on the remote.                                      *)

(* GDriveTree._ids_cache: the directories of the remote's root, listed when *)
(* they are first needed.                                                   *)
Known(p) == IF ids[p] = Unlisted THEN dirs ELSE ids[p]

(* GDriveTree._path_to_item_ids for the directory of an object: the ones    *)
(* that are known, or else the ones that Drive has.                         *)
Parents(p) == IF Known(p) # {} THEN Known(p) ELSE dirs

Loaded(p) == ids' = [ids EXCEPT ![p] = Known(p)]

(* The items of a hash: by name and parent in Drive, by name elsewhere. *)
Found(p, h) ==
    {i \in items : i.name = h /\ (cloud = "gdrive" => i.dir \in Parents(p))}

Exists(p, h) == Found(p, h) # {}

(* GDriveTree._get_item_id: the least of the items of a path. *)
Chosen(p, h) == CHOOSE i \in Found(p, h) : \A j \in Found(p, h) : i.id <= j.id

(* walk_files over the whole remote: Drive is asked for the children of the *)
(* directories that are known.                                              *)
Listed(p) ==
    {i.name : i \in {i \in items : cloud = "gdrive" => i.dir \in Known(p)}}

(* The object of a key, all of it or what has been written so far. *)
Put(h, whole) ==
    {i \in items : i.name # h} \cup {[id |-> 0, dir |-> 0, name |-> h, whole |-> whole]}

-----------------------------------------------------------------------------
Goto(t, step) == work' = [work EXCEPT ![t].step = step]

(* The thread has done what it was asked for. *)
Uploaded(t) ==
    /\ work' = [work EXCEPT ![t] = Idle]
    /\ stored' = stored \cup {<<ProcessOf[t], work[t].hash>>}
    /\ broken' = broken \ {work[t].hash}

(* BaseTree.upload: any thread may be asked to upload any object, whether it *)
(* is on the remote or not.                                                  *)
Upload(t, h) ==
    /\ work[t].step = "idle" /\ fetch[ProcessOf[t]].step # "running"
    /\ ops < MaxOps /\ ops' = ops + 1
    /\ work' = [work EXCEPT ![t] = [Idle EXCEPT !.hash = h, !.step = Head(Steps(cloud))]]
    /\ UNCHANGED <<cloud, remoteVars, driveVars, fetch, copy, ghosts, faults>>

(* One request for the object (s3, gs, azure, oss, http). *)
PutObject(t) ==
    /\ work[t].step = "put" /\ cloud # "gdrive"
    /\ items' = Put(work[t].hash, TRUE)
    /\ Uploaded(t)
    /\ UNCHANGED <<cloud, dirs, litter, fresh, driveVars, fetch, copy, counters>>

(* makedirs of the object's directory: one that another thread has made in  *)
(* the meantime is as good as one's own.                                    *)
MakeDirs(t) ==
    /\ work[t].step = "makedirs"
    /\ dirs' = {0}
    /\ Goto(t, Steps(cloud)[2])
    /\ UNCHANGED <<cloud, items, litter, fresh, driveVars, fetch, copy, ghosts, counters>>

(* The temporary file is written to its end, beside the object. *)
WriteTemporary(t) ==
    /\ work[t].step = "write"
    /\ Goto(t, "rename")
    /\ UNCHANGED <<cloud, remoteVars, driveVars, fetch, copy, ghosts, counters>>

(* The temporary file becomes the object: a local one replaces what is      *)
(* there, sftp refuses to, and of Hadoop neither is promised.               *)
RenameOK(h) == cloud \in {"local", "hdfs"} \/ ~\E i \in items : i.name = h
RenameFails(h) == cloud \in {"ssh", "hdfs"} /\ \E i \in items : i.name = h

Rename(t) ==
    /\ work[t].step = "rename" /\ RenameOK(work[t].hash)
    /\ items' = Put(work[t].hash, TRUE)
    /\ Uploaded(t)
    /\ UNCHANGED <<cloud, dirs, litter, fresh, driveVars, fetch, copy, counters>>

(* The object is there already: the error is the user's, the temporary file *)
(* stays.                                                                   *)
RenameRefused(t) ==
    /\ work[t].step = "rename" /\ RenameFails(work[t].hash)
    /\ work' = [work EXCEPT ![t] = Idle]
    /\ litter' = litter \cup {work[t].hash}
    /\ UNCHANGED <<cloud, dirs, items, fresh, driveVars, fetch, copy, ghosts, counters>>

(* Another thread that was writing the object has lost it. *)
Open(t) ==
    /\ work[t].step = "open"
    /\ items' = Put(work[t].hash, FALSE)
    /\ work' = [u \in Thread |->
                  IF u = t THEN [work[t] EXCEPT !.step = "writing"]
                  ELSE IF work[u].step = "writing" /\ work[u].hash = work[t].hash
                  THEN [work[u] EXCEPT !.step = "lost"]
                  ELSE work[u]]
    /\ UNCHANGED <<cloud, dirs, litter, fresh, driveVars, fetch, copy, ghosts, counters>>

Close(t) ==
    /\ work[t].step = "writing"
    /\ items' = Put(work[t].hash, TRUE)
    /\ Uploaded(t)
    /\ UNCHANGED <<cloud, dirs, litter, fresh, driveVars, fetch, copy, counters>>

Lost(t) ==
    /\ work[t].step = "lost"
    /\ work' = [work EXCEPT ![t] = Idle]
    /\ UNCHANGED <<cloud, remoteVars, driveVars, fetch, copy, ghosts, counters>>

-----------------------------------------------------------------------------
(* Google Drive: a title may be given to several children of a directory.   *)

(* _get_item_id(dirname, create=True): the least of the directories known,  *)
(* or else of those that Drive has; one is made when there is none.         *)
Resolve(t) ==
    LET p == ProcessOf[t] IN
    /\ work[t].step = "resolve"
    /\ work' = IF Parents(p) = {} THEN [work EXCEPT ![t].step = "create"]
               ELSE [work EXCEPT ![t].step = "put", ![t].dir = Min(Parents(p))]
    /\ Loaded(p)
    /\ UNCHANGED <<cloud, remoteVars, creator, made, unheard, fetch, copy, ghosts, counters>>

(* Broken form: what the thread has seen before it had the lock is trusted. *)
RecheckNot(p) == {}

(* _create_dir: the lock is taken and the directories known are looked up   *)
(* again, since another thread may have made the directory.                 *)
Recheck(p) == ids[p]

CreateDir(t) ==
    LET p == ProcessOf[t] IN
    /\ work[t].step = "create" /\ creator[p] = None
    /\ IF Recheck(p) # {}
       THEN /\ work' = [work EXCEPT ![t].step = "put", ![t].dir = Min(Recheck(p))]
            /\ UNCHANGED creator
       ELSE /\ creator' = [creator EXCEPT ![p] = t]
            /\ Goto(t, "creating")
    /\ UNCHANGED <<cloud, remoteVars, ids, made, unheard, fetch, copy, ghosts, counters>>

(* Drive makes the directory and its identity is noted. *)
DirCreated(t) ==
    LET p == ProcessOf[t] IN
    /\ work[t].step = "creating"
    /\ dirs' = dirs \cup {fresh} /\ fresh' = fresh + 1
    /\ ids' = [ids EXCEPT ![p] = @ \cup {fresh}]
    /\ creator' = [creator EXCEPT ![p] = None]
    /\ made' = [made EXCEPT ![p] = @ + 1]
    /\ work' = [work EXCEPT ![t].step = "put", ![t].dir = fresh]
    /\ UNCHANGED <<cloud, items, litter, unheard, fetch, copy, ghosts, counters>>

(* The answer to a request is an error of the server: _gdrive_retry asks    *)
(* again, whether Drive has done what was asked or not.                     *)
DirCreatedUnheard(t) ==
    LET p == ProcessOf[t] IN
    /\ work[t].step = "creating" /\ faults < MaxFaults /\ faults' = faults + 1
    /\ dirs' = dirs \cup {fresh} /\ fresh' = fresh + 1
    /\ made' = [made EXCEPT ![p] = @ + 1]
    /\ unheard' = [unheard EXCEPT ![p] = @ + 1]
    /\ UNCHANGED <<cloud, items, litter, ids, creator, work, fetch, copy, ghosts, ops>>

NewItem(t) == [id |-> fresh, dir |-> work[t].dir, name |-> work[t].hash, whole |-> TRUE]

PutItem(t) ==
    /\ work[t].step = "put" /\ cloud = "gdrive"
    /\ items' = items \cup {NewItem(t)} /\ fresh' = fresh + 1
    /\ Uploaded(t)
    /\ UNCHANGED <<cloud, dirs, litter, driveVars, fetch, copy, counters>>

PutItemUnheard(t) ==
    /\ work[t].step = "put" /\ cloud = "gdrive"
    /\ faults < MaxFaults /\ faults' = faults + 1
    /\ items' = items \cup {NewItem(t)} /\ fresh' = fresh + 1
    /\ UNCHANGED <<cloud, dirs, litter, driveVars, work, fetch, copy, ghosts, ops>>

-----------------------------------------------------------------------------
(* BaseTree.remove: the object of a hash, in Drive one item of it.  A hash  *)
(* that is not there is an error or no matter, by the cloud; http removes   *)
(* nothing.                                                                 *)
RemoveItem(t, h) ==
    LET p == ProcessOf[t] IN
    /\ work[t].step = "idle" /\ fetch[p].step # "running" /\ cloud # "http"
    /\ ops < MaxOps /\ ops' = ops + 1
    /\ Exists(p, h)
    /\ items' = items \ (IF cloud = "gdrive" THEN {Chosen(p, h)} ELSE Found(p, h))
    /\ stored' = {s \in stored : s[2] # h}
    /\ broken' = broken \ {h}
    /\ IF cloud = "gdrive" THEN Loaded(p) ELSE UNCHANGED ids
    /\ work' = [u \in Thread |->
                  IF work[u].step = "writing" /\ work[u].hash = h
                  THEN [work[u] EXCEPT !.step = "lost"] ELSE work[u]]
    /\ UNCHANGED <<cloud, dirs, litter, fresh, creator, made, unheard, fetch, copy, faults>>

-----------------------------------------------------------------------------
(* BaseTree.download: one file, or all that the walk over a directory lists,*)
(* by the threads of an executor.                                           *)
Download(p, S) ==
    /\ fetch[p].step # "running"
    /\ \A t \in Threads(p) : work[t].step = "idle"
    /\ ops < MaxOps /\ ops' = ops + 1
    /\ fetch' = [fetch EXCEPT ![p] = [step |-> "running", all |-> S, pending |-> S, failed |-> FALSE]]
    /\ IF cloud = "gdrive" THEN Loaded(p) ELSE UNCHANGED ids
    /\ copy' = [copy EXCEPT ![p] = {}]
    /\ UNCHANGED <<cloud, remoteVars, creator, made, unheard, work, ghosts, faults>>

(* _download into a temporary file beside the destination. *)
Read(t, h) ==
    LET p == ProcessOf[t] IN
    /\ work[t].step = "idle" /\ fetch[p].step = "running" /\ h \in fetch[p].pending
    /\ Exists(p, h)
    /\ fetch' = [fetch EXCEPT ![p].pending = @ \ {h}]
    /\ work' = [work EXCEPT ![t] =
                  [step |-> "move", hash |-> h, dir |-> 0, whole |-> Chosen(p, h).whole]]
    /\ UNCHANGED <<cloud, remoteVars, driveVars, copy, ghosts, counters>>

(* Broken form: the exception of a future is not looked at. *)
ReadMissingUnseen(t, h) ==
    LET p == ProcessOf[t] IN
    /\ work[t].step = "idle" /\ fetch[p].step = "running" /\ h \in fetch[p].pending
    /\ ~Exists(p, h)
    /\ fetch' = [fetch EXCEPT ![p].pending = @ \ {h}]
    /\ UNCHANGED <<cloud, remoteVars, driveVars, work, copy, ghosts, counters>>

(* The object has gone since the walk: the future ends with an exception. *)
ReadMissing(t, h) ==
    LET p == ProcessOf[t] IN
    /\ work[t].step = "idle" /\ fetch[p].step = "running" /\ h \in fetch[p].pending
    /\ ~Exists(p, h)
    /\ fetch' = [fetch EXCEPT ![p].pending = @ \ {h}, ![p].failed = TRUE]
    /\ UNCHANGED <<cloud, remoteVars, driveVars, work, copy, ghosts, counters>>

(* The temporary file is moved to its destination. *)
Move(t) ==
    LET p == ProcessOf[t] IN
    /\ work[t].step = "move"
    /\ copy' = [copy EXCEPT ![p] = @ \cup {[name |-> work[t].hash, whole |-> work[t].whole]}]
    /\ work' = [work EXCEPT ![t] = Idle]
    /\ UNCHANGED <<cloud, remoteVars, driveVars, fetch, ghosts, counters>>

(* as_completed has met an exception: what has not begun is cancelled. *)
Cancel(p) ==
    /\ fetch[p].step = "running" /\ fetch[p].failed /\ fetch[p].pending # {}
    /\ fetch' = [fetch EXCEPT ![p].pending = {}]
    /\ UNCHANGED <<cloud, remoteVars, driveVars, work, copy, ghosts, counters>>

(* The executor waits for its threads; the exception, if any, is raised. *)
DownloadEnds(p) ==
    /\ fetch[p].step = "running" /\ fetch[p].pending = {}
    /\ \A t \in Threads(p) : work[t].step = "idle"
    /\ fetch' = [fetch EXCEPT ![p].step = IF fetch[p].failed THEN "failed" ELSE "ok"]
    /\ UNCHANGED <<cloud, remoteVars, driveVars, work, copy, ghosts, counters>>

-----------------------------------------------------------------------------
(* What an interrupted step leaves behind. *)
Litter(T) == {work[t].hash : t \in {t \in T : work[t].step \in {"write", "rename"}}}
Broken(T) == {work[t].hash : t \in {t \in T : work[t].step = "writing"}}

(* The call that the thread is about to make, or is in, ends with an error. *)
(* No upload takes its temporary file away.                                 *)
Fail(t) ==
    LET p == ProcessOf[t] IN
    /\ work[t].step # "idle" /\ faults < MaxFaults /\ faults' = faults + 1
    /\ litter' = litter \cup Litter({t})
    /\ broken' = broken \cup Broken({t})
    /\ creator' = [creator EXCEPT ![p] = IF @ = t THEN None ELSE @]
    /\ fetch' = [fetch EXCEPT ![p].failed = @ \/ work[t].step = "move"]
    /\ work' = [work EXCEPT ![t] = Idle]
    /\ UNCHANGED <<cloud, dirs, items, fresh, ids, made, unheard, copy, stored, ops>>

(* The process is killed; another may start in its place. *)
Kill(p) ==
    /\ \E t \in Threads(p) : work[t].step # "idle"
    /\ faults < MaxFaults /\ faults' = faults + 1
    /\ litter' = litter \cup Litter(Threads(p))
    /\ broken' = broken \cup Broken(Threads(p))
    /\ ids' = [ids EXCEPT ![p] = Unlisted]
    /\ creator' = [creator EXCEPT ![p] = None]
    /\ made' = [made EXCEPT ![p] = 0] /\ unheard' = [unheard EXCEPT ![p] = 0]
    /\ work' = [t \in Thread |-> IF ProcessOf[t] = p THEN Idle ELSE work[t]]
    /\ fetch' = [fetch EXCEPT ![p] = NoFetch]
    /\ stored' = {s \in stored : s[1] # p} \cup {<<None, s[2]>> : s \in {s \in stored : s[1] = p}}
    /\ UNCHANGED <<cloud, dirs, items, fresh, copy, ops>>

Next ==
    \/ \E t \in Thread :
          \/ \E h \in Hash : Upload(t, h) \/ RemoveItem(t, h) \/ Read(t, h) \/ ReadMissing(t, h)
          \/ PutObject(t) \/ MakeDirs(t) \/ WriteTemporary(t) \/ Rename(t)
          \/ RenameRefused(t) \/ Open(t) \/ Close(t) \/ Lost(t)
          \/ Resolve(t) \/ CreateDir(t) \/ DirCreated(t) \/ DirCreatedUnheard(t)
          \/ PutItem(t) \/ PutItemUnheard(t) \/ Move(t) \/ Fail(t)
    \/ \E p \in Process :
          \/ Download(p, Listed(p)) \/ \E h \in Hash : Download(p, {h})
          \/ Cancel(p) \/ DownloadEnds(p) \/ Kill(p)

Spec == Init /\ [][Next]_vars

-----------------------------------------------------------------------------
Step == {"idle", "put", "makedirs", "write", "rename", "open", "writing", "lost",
         "resolve", "create", "creating", "move"}

TypeOK ==
    /\ cloud \in Cloud
    /\ dirs \in SUBSET Nat /\ items \in SUBSET Item /\ litter \in SUBSET Hash
    /\ ids \in [Process -> {Unlisted} \cup SUBSET Nat]
    /\ creator \in [Process -> Thread \cup {None}]
    /\ work \in [Thread -> [step : Step, hash : Hash \cup {None}, dir : Nat, whole : BOOLEAN]]
    /\ fetch \in [Process -> [step : {"idle", "running", "ok", "failed"}, all : SUBSET Hash,
                              pending : SUBSET Hash, failed : BOOLEAN]]
    /\ copy \in [Process -> SUBSET [name : Hash, whole : BOOLEAN]]
    /\ made \in [Process -> Nat] /\ unheard \in [Process -> Nat] /\ fresh \in Nat

(* What has been uploaded is there, and what is there under the name of a   *)
(* hash is the whole object, whoever else uploads, fails or is killed: the  *)
(* next push takes it for uploaded and a pull for its content.  Only where  *)
(* _upload writes under the final name (webdav.py, webhdfs.py) may a part   *)
(* of an object be found, while it is written or after that was broken off. *)
ObjectsWhole ==
    /\ \A s \in stored : \E i \in items : i.name = s[2]
    /\ \A i \in items : i.whole \/ (/\ cloud \in InPlace
                                   /\ \/ i.name \in broken
                                      \/ \E t \in Thread : /\ work[t].step = "writing"
                                                         /\ work[t].hash = i.name)

(* However many threads upload into a directory that is not there yet,      *)
(* their process has Drive make it again only when the answer was an error  *)
(* (gdrive.py:450: Drive may have made it, and is asked again); never       *)
(* because two threads have found it missing (gdrive.py:459).               *)
OneDirectory == \A p \in Process : made[p] <= unheard[p] + 1

(* "The user might think that he has downloaded a complete directory, while *)
(* having a partial one" (base.py, _download_dir): a download that ends     *)
(* well has made a copy of each file, a whole one where _upload never       *)
(* leaves a part of an object.                                              *)
DownloadWhole ==
    \A p \in Process : fetch[p].step = "ok" =>
        /\ {c.name : c \in copy[p]} = fetch[p].all
        /\ cloud \notin InPlace => \A c \in copy[p] : c.whole

-----------------------------------------------------------------------------
(* What a thread is at, it is at for an object and on a cloud with that step. *)
StepsFit ==
    \A t \in Thread :
        /\ work[t].step # "idle" => work[t].hash \in Hash
        /\ work[t].step = "makedirs" => cloud \in {"ssh", "local", "webdav"}
        /\ work[t].step \in {"open", "writing"} => cloud \in InPlace

(* The lock of _create_dir: its holder has found that its process knows no   *)
(* directory, and nobody adds one before it does.                            *)
OneCreator ==
    /\ \A t \in Thread : LET p == ProcessOf[t] IN
          /\ work[t].step \in {"create", "creating"} => ids[p] # Unlisted
          /\ work[t].step = "creating" => creator[p] = t /\ ids[p] = {}
    /\ \A p \in Process :
          \/ made[p] = unheard[p]
          \/ made[p] = unheard[p] + 1 /\ ids[p] # {} /\ ids[p] # Unlisted

(* The files of a download that are accounted for: to be begun, under way   *)
(* or there.                                                                 *)
Moving(p) == {t \in Threads(p) : work[t].step = "move"}

Accounted(p) ==
    fetch[p].pending \cup {work[t].hash : t \in Moving(p)} \cup {c.name : c \in copy[p]}

Downloads ==
    /\ \A t \in Thread : LET p == ProcessOf[t] IN
          /\ fetch[p].step = "running" => work[t].step \in {"idle", "move"}
          /\ work[t].step = "move" => fetch[p].step = "running"
          /\ work[t].step = "move" /\ cloud \notin InPlace => work[t].whole
    /\ \A p \in Process :
          /\ fetch[p].step \in {"running", "ok"} => Accounted(p) \subseteq fetch[p].all
          /\ fetch[p].step = "running" /\ ~fetch[p].failed => fetch[p].all \subseteq Accounted(p)
          /\ fetch[p].step = "ok" => fetch[p].all \subseteq {c.name : c \in copy[p]}
          /\ cloud \notin InPlace => \A c \in copy[p] : c.whole
=============================================================================
