------------------------------- MODULE LocalData -------------------------------
(***************************************************************************)
(* A directory of the workspace that DVC tracks, the cache and the state   *)
(* database: status, add, checkout with its removal of unused links, gc,   *)
(* fetch and the merge driver, with a user who edits, renames and switches *)
(* branches at any time, and crashes.                                      *)
(*                                                                         *)
(* src/dvc/cache/base.py, src/dvc/tree/base.py, src/dvc/tree/local.py,     *)
(* src/dvc/output/base.py and src/dvc/state.py.  A file is an inode, with  *)
(* an mtime, a content and a flag ro: objects are read-only (CACHE_MODE),  *)
(* so nobody asks for the rows that DVC saves for them as well.            *)
(* A command works on the database in one transaction, and commits it in   *)
(* the end, also when it fails.                                            *)
(***************************************************************************)
EXTENDS State, DirInfo, Functions

CONSTANTS MaxUser,       \* bound: steps of the user
          MaxCmds        \* bound: commands of DVC

(* There is an inode for each file of a full cache, and for the directory. *)
ASSUME FilesAssumption == IsFiniteSet(Content) /\ Cardinality(Content) < MaxUint

VARIABLES clock,         \* the last mtime: every write has one of its own
          disk,          \* inode -> mtime, data, ro
          ws,            \* name -> inode, the files of the directory
          present,       \* is there the directory?
          objs,          \* hash -> inode, the files in the cache
          dirs,          \* the versions whose .dir object is in the cache
          strays,        \* contents under temporary names in the cache
          record,        \* the version the .dvc file names, or None
          stored,        \* the database on disk
          db,            \* the transaction of the running command
          hardlinks,     \* cache.type is hardlink, not copy
          op,            \* the running command
          ours,          \* the version DVC has recorded links for, None when a
                         \* change that links do not show has come since
          laid,          \* the same, in the transaction
          blind,         \* inodes whose rows may be wrong, as changes were not seen
          doubt,         \* the same, in the transaction
          cut,           \* has a crash come between VACUUM and the count?
          steps          \* of the user and of DVC, for the bounds

fs == <<disk, ws, present, objs, dirs, strays>>
vars == <<clock, disk, ws, present, objs, dirs, strays, record, stored, db, hardlinks, op,
          ours, laid, blind, doubt, cut, steps>>

(* The inode of the directory; the others are for files.                   *)
D == MaxUint - 1
FileInode == Inode \ {D}
Path == "data"

Inodes(w, o) == {w[n] : n \in DOMAIN w} \cup {o[c] : c \in DOMAIN o}

NewInode(w, o) == CHOOSE i \in FileInode : i \notin Inodes(w, o)

(* get_mtime_and_size, get_inode: the metadata of a directory are the      *)
(* mtimes of the files in it. *)
MetaIn(d, w, i) == IF i = D THEN [n \in DOMAIN w |-> d[w[n]].mtime] ELSE d[i].mtime
Meta(i) == MetaIn(disk, ws, i)

Version == [n \in DOMAIN ws |-> disk[ws[n]].data]
Actual(i) == IF i = D THEN Version ELSE disk[i].data

Lookup(i) == Get(db, i, Meta(i))

(* get_hash of a file *)
HashOf(n) == IF Lookup(ws[n]) # NoHash THEN Lookup(ws[n]) ELSE disk[ws[n]].data

(* changed_cache of a directory; the objects are read-only.                *)
InCache(v) == v \in dirs /\ {v[n] : n \in DOMAIN v} \subseteq DOMAIN objs

Used == IF record = None THEN {}
        ELSE IF record \in dirs THEN {record[n] : n \in DOMAIN record} ELSE {}

Idle == [cmd |-> "idle", pc |-> "none", v |-> Empty, todo |-> {}, forced |-> FALSE,
         result |-> "none"]

TypeOK ==
    /\ clock \in Nat
    /\ DOMAIN disk = Inodes(ws, objs) /\ DOMAIN disk \subseteq FileInode
    /\ \A i \in DOMAIN disk : disk[i].mtime \in 0..clock /\ disk[i].data \in Content
    /\ DOMAIN ws \subseteq Name /\ DOMAIN objs \subseteq Content
    /\ \A m, n \in DOMAIN ws : ws[m] = ws[n] => m = n \/ hardlinks
    /\ ~present => DOMAIN ws = {}
    /\ \A c \in DOMAIN objs : disk[objs[c]].ro
    /\ dirs \subseteq Versions /\ strays \subseteq Content /\ record \in Versions \cup {None}
    /\ stored.inserts = 0 /\ (op = Idle => db = EmptyDb)
    /\ blind \subseteq Inode /\ doubt \subseteq Inode

(* A clone with a full cache, or a fresh one.                              *)
Init ==
    /\ clock = Cardinality(Content)
    /\ objs \in {[c \in {} |-> D]}
               \cup {f \in [Content -> 0..(Cardinality(Content) - 1)] : IsInjective(f)}
    /\ disk = [i \in {objs[c] : c \in DOMAIN objs} |->
                 [mtime |-> i, ro |-> TRUE,
                  data |-> CHOOSE c \in DOMAIN objs : objs[c] = i]]
    /\ ws = [n \in {} |-> D] /\ present = FALSE
    /\ dirs \in {{}, Versions} /\ strays = {}
    /\ record \in Versions \cup {None}
    /\ stored = EmptyDb /\ db = EmptyDb
    /\ hardlinks \in BOOLEAN
    /\ op = Idle /\ ours = None /\ laid = None /\ blind = {} /\ doubt = {} /\ cut = FALSE
    /\ steps = [user |-> 0, dvc |-> 0]

(* What changes on the disk: files that no name leads to are gone.         *)
Files(d, w, o) ==
    /\ disk' = [i \in Inodes(w, o) |-> d[i]]
    /\ ws' = w
    /\ objs' = o

Disk(d, w, o) == Files(d, w, o) /\ UNCHANGED strays

--------------------------------------------------------------------------------
(***************************************************************************)
(* The user.  What he does while a command runs, and a write that sets    *)
(* the mtime back, cannot be seen by DVC.                                  *)
(***************************************************************************)
User(touched, quiet) ==
    /\ steps.user < MaxUser
    /\ steps' = [steps EXCEPT !.user = @ + 1]
    /\ blind' = IF quiet THEN blind \cup touched ELSE blind
    /\ doubt' = IF op # Idle THEN doubt \cup touched ELSE doubt
    /\ ours' = IF quiet THEN None ELSE ours
    /\ laid' = IF quiet THEN None ELSE laid
    /\ UNCHANGED <<dirs, record, stored, db, hardlinks, op, cut>>

WriteInPlace ==
    /\ \E n \in DOMAIN ws, c \in Content, quiet \in BOOLEAN :
          LET i == ws[n] IN
          /\ ~disk[i].ro /\ disk[i].data # c
          /\ clock' = IF quiet THEN clock ELSE clock + 1
          /\ Disk([disk EXCEPT ![i].data = c, ![i].mtime = IF quiet THEN @ ELSE clock'],
                  ws, objs)
          /\ User({i, D}, quiet)
    /\ UNCHANGED present

WriteNew ==
    /\ clock' = clock + 1
    /\ FileInode \ Inodes(ws, objs) # {}
    /\ \E n \in Name, c \in Content :
          LET i == NewInode(ws, objs) IN
          /\ Disk(Override(disk, i, [mtime |-> clock', data |-> c, ro |-> FALSE]),
                  Override(ws, n, i), objs)
          /\ User({i, D}, FALSE)
    /\ present' = TRUE

Delete ==
    /\ \E n \in DOMAIN ws : Disk(disk, Without(ws, {n}), objs)
    /\ User({D}, FALSE)
    /\ UNCHANGED <<clock, present>>

Rename ==
    /\ \E m, n \in DOMAIN ws :
          m # n /\ Disk(disk, [ws EXCEPT ![m] = ws[n], ![n] = ws[m]], objs)
    /\ User({D}, FALSE)
    /\ UNCHANGED <<clock, present>>

(* git checkout, git pull: another version in the .dvc file, or none.      *)
GitSwitch ==
    /\ op = Idle /\ steps.user < MaxUser
    /\ \E v \in Versions \cup {None} : v # record /\ record' = v
    /\ steps' = [steps EXCEPT !.user = @ + 1]
    /\ UNCHANGED <<clock, fs, stored, db, hardlinks, op, ours, laid, blind, doubt, cut>>

(* The database is lost, or made by an older version of DVC.               *)
LoseDb ==
    /\ op = Idle /\ steps.user < MaxUser /\ stored # EmptyDb
    /\ stored' = EmptyDb
    /\ blind' = {} /\ ours' = None
    /\ steps' = [steps EXCEPT !.user = @ + 1]
    /\ UNCHANGED <<clock, fs, record, db, hardlinks, op, laid, doubt, cut>>

--------------------------------------------------------------------------------
(***************************************************************************)
(* Commands: load, in the beginning, and dump, in the end.                 *)
(***************************************************************************)
MayStart == op = Idle /\ steps.dvc < MaxCmds
Load ==
    /\ db' = stored /\ doubt' = blind /\ laid' = ours
    /\ steps' = [steps EXCEPT !.dvc = @ + 1]

Goto(pc) == op' = [op EXCEPT !.pc = pc]
Finish(result) ==
    op' = [op EXCEPT !.pc = "dump", !.result = result, !.v = Empty, !.todo = {}]

(* What comes when the hash of the directory is known.                     *)
Hashed(v) ==
    \/ op.cmd = "status" /\ Finish("ok")
    \/ op.cmd = "add" /\ op' = [op EXCEPT !.v = v, !.pc = "commit", !.todo = DOMAIN v]
    \/ op.cmd = "checkout" /\ op' = [op EXCEPT !.v = v, !.pc = "compare"]

(* A row that is written for what is there does away with old confusions;  *)
(* one that is not passes on those of the rows that it was taken from.     *)
SaveHash(i, hash, from) ==
    /\ db' = SaveRow(db, i, Meta(i), hash)
    /\ doubt' = IF hash = Actual(i) THEN doubt \ {i}
                ELSE IF doubt \cap from = {} THEN doubt ELSE doubt \cup {i}

Start(cmd, forced) ==
    /\ MayStart /\ present
    /\ cmd # "add" => record # None
    /\ cmd = "status" \/ forced => InCache(record)
    /\ Load
    /\ op' = [Idle EXCEPT !.cmd = cmd, !.forced = forced, !.pc = "hash"]
    /\ UNCHANGED <<clock, fs, record, stored, hardlinks, ours, blind, cut>>

(* get_hash of the directory: from its row, if the .dir object is there,   *)
(* or from the rows and contents of the files. *)
Hash ==
    /\ op.pc = "hash"
    /\ IF Lookup(D) # NoHash /\ Lookup(D) \in dirs
       THEN Hashed(Lookup(D))
       ELSE op' = [op EXCEPT !.v = [n \in DOMAIN ws |-> HashOf(n)], !.pc = "save"]
    /\ UNCHANGED <<clock, fs, record, stored, db, hardlinks, ours, laid, blind, doubt, cut,
                   steps>>

(* save_dir_info, and the row of the directory as it is by now.            *)
SaveDirHash ==
    /\ op.pc = "save"
    /\ dirs' = dirs \cup {op.v}
    /\ SaveHash(D, op.v, Range(ws) \cup {D})
    /\ Hashed(op.v)
    /\ UNCHANGED <<clock, disk, ws, present, objs, strays, record, stored, hardlinks, ours,
                   laid, blind, cut, steps>>

--------------------------------------------------------------------------------
(* link: a copy, or a hard link to the object.                             *)
LinkTo(d, w, o, n, c) ==
    IF hardlinks THEN [disk |-> d, ws |-> Override(w, n, o[c])]
    ELSE LET i == NewInode(Without(w, {n}), o)
         IN  [disk |-> Override(d, i, [mtime |-> clock + 1, data |-> d[o[c]].data, ro |-> FALSE]),
              ws |-> Override(w, n, i)]

(* link, and state.save of what is linked, under the hash it should have.  *)
(* Of an object that is not what its name says, DVC knows nothing; nor     *)
(* which other names of an inode it has taken at its old row's word.       *)
Link(b, n, c, d, w, o) ==                     \* bound: inodes do not run out
    LET l == LinkTo(d, w, o, n, c)
        i == l.ws[n]
    IN  /\ hardlinks \/ FileInode \ Inodes(Without(w, {n}), o) # {}
        /\ Disk(l.disk, l.ws, o)
        /\ db' = SaveRow(b, i, l.disk[i].mtime, c)
        /\ doubt' = IF l.disk[i].data # c THEN doubt \cup {i, D}
                     ELSE IF hardlinks /\ i \in doubt THEN (doubt \ {i}) \cup {D}
                     ELSE doubt \ {i}
        /\ clock' = IF hardlinks THEN clock ELSE clock + 1

(***************************************************************************)
(* dvc add: the files enter the cache one by one, under the hashes that    *)
(* were taken before: moved and linked back, left where they are, or       *)
(* replaced by a link (_save_file).                                        *)
(***************************************************************************)
Protect(d, i) == [d EXCEPT ![i].ro = TRUE]

CommitFile ==
    /\ op.pc = "commit"
    /\ \E n \in op.todo \cap DOMAIN ws :
          LET c == op.v[n]
              i == ws[n]
              copied == \A o \in DOMAIN objs : objs[o] # i
          IN /\ \/ /\ c \notin DOMAIN objs
                   /\ Link(db, n, c, Protect(disk, i), ws, Override(objs, c, i))
                \/ /\ c \in DOMAIN objs /\ copied /\ ~hardlinks
                   /\ Disk([disk EXCEPT ![i].ro = FALSE], ws, objs)
                   /\ SaveHash(i, c, {i, D})
                   /\ UNCHANGED clock
                \/ /\ c \in DOMAIN objs /\ ~(copied /\ ~hardlinks)
                   /\ Link(db, n, c, disk, Without(ws, {n}), objs)
             /\ op' = [op EXCEPT !.todo = @ \ {n}]
    /\ UNCHANGED <<present, dirs, record, stored, hardlinks, ours, laid, blind, cut, steps>>

(* The file is gone. *)
CommitFails ==
    /\ op.pc = "commit"
    /\ op.todo \ DOMAIN ws # {}
    /\ Finish("failed")
    /\ UNCHANGED <<clock, fs, record, stored, db, hardlinks, ours, laid, blind, doubt, cut,
                   steps>>

(* save_link and state.save of the directory end both add and checkout.    *)
LinkDir(v) ==
    /\ db' = SaveRow(SaveLink(db, Path, D, Meta(D)), D, Meta(D), v)
    /\ doubt' = IF v = Version THEN doubt \ {D}
                ELSE IF doubt \cap (Range(ws) \cup {D}) = {} THEN doubt ELSE doubt \cup {D}
    /\ laid' = IF D \in doubt' THEN None ELSE v

CommitDir ==
    /\ op.pc = "commit" /\ op.todo = {}
    /\ LinkDir(op.v)
    /\ record' = op.v
    /\ Finish("ok")
    /\ UNCHANGED <<clock, fs, stored, hardlinks, ours, blind, cut, steps>>

--------------------------------------------------------------------------------
(***************************************************************************)
(* dvc checkout.  Without a record, the directory is an unused link, which *)
(* goes when it is as DVC has left it.                                     *)
(***************************************************************************)
(* Broken form: whatever is there was made by DVC. *)
AnyLink == Path \in DOMAIN db'.links

UnusedLink == OwnLink(db', Path, D, Meta(D))

RemoveUnused ==
    /\ MayStart /\ record = None /\ present
    /\ Load /\ UnusedLink
    /\ Disk(disk, Empty, objs) /\ present' = FALSE
    /\ op' = [Idle EXCEPT !.cmd = "unlink", !.pc = "unlink", !.v = Version]
    /\ UNCHANGED <<clock, dirs, record, stored, hardlinks, ours, blind, cut>>

DropLink ==
    /\ op.pc = "unlink"
    /\ db' = RemoveLink(db, Path)
    /\ Finish("ok")
    /\ UNCHANGED <<clock, fs, record, stored, hardlinks, ours, laid, blind, doubt, cut, steps>>

(* The directory is not there. *)
StartCheckout ==
    /\ MayStart /\ ~present /\ record # None
    /\ Load
    /\ op' = [Idle EXCEPT !.cmd = "checkout", !.v = record,
                 !.pc = IF InCache(record) THEN "files" ELSE "dump",
                 !.todo = IF InCache(record) THEN DOMAIN record ELSE {},
                 !.result = IF InCache(record) THEN "none" ELSE "failed"]
    /\ present' = InCache(record)
    /\ UNCHANGED <<clock, disk, ws, objs, dirs, strays, record, stored, hardlinks, ours, blind,
                   cut>>

(* changed: has it to be checked out? *)
Compare ==
    /\ op.pc = "compare"
    /\ InCache(record)
    /\ IF op.v = record THEN Finish("ok")
       ELSE op' = [op EXCEPT !.pc = "files", !.v = record, !.todo = DOMAIN record]
    /\ UNCHANGED <<clock, fs, record, stored, db, hardlinks, ours, laid, blind, doubt, cut,
                   steps>>

(* safe_remove: what is in the cache may go, and what the user lets go.    *)
MayRemove(cached) == cached \/ op.forced

Refuse == Finish("failed") /\ UNCHANGED <<clock, fs>>

(* The record is not in the cache: nothing is made, and what is there is   *)
(* removed. *)
Missing ==
    /\ op.pc = "compare"
    /\ ~InCache(record)
    /\ \/ Refuse /\ ~MayRemove(InCache(op.v)) /\ UNCHANGED <<db, doubt>>
       \/ /\ MayRemove(InCache(op.v))
          /\ Disk(disk, Empty, objs) /\ present' = FALSE
          /\ Finish("failed")
          /\ UNCHANGED <<clock, dirs, db, doubt>>
    /\ UNCHANGED <<record, stored, hardlinks, ours, laid, blind, cut, steps>>

(* Under --force it is not even looked at. *)
MissingForced ==
    /\ MayStart /\ present /\ record # None /\ ~InCache(record)
    /\ Load
    /\ Disk(disk, Empty, objs) /\ present' = FALSE
    /\ op' = [Idle EXCEPT !.cmd = "checkout", !.forced = TRUE, !.pc = "dump",
                 !.result = "failed"]
    /\ UNCHANGED <<clock, dirs, record, stored, hardlinks, ours, blind, cut>>

(* get_hash of a file, with the row that it leaves. *)
Looked(n) == SaveRow(db, ws[n], Meta(ws[n]), HashOf(n))
Look(n) == SaveHash(ws[n], HashOf(n), {ws[n]})

(* One file of _checkout_dir. *)
CheckoutFile ==
    /\ op.pc = "files"
    /\ \E n \in op.todo :
          LET c == op.v[n] IN
          \/ /\ n \in DOMAIN ws /\ HashOf(n) = c
             /\ Look(n)
             /\ op' = [op EXCEPT !.todo = @ \ {n}]
             /\ UNCHANGED <<clock, fs>>
          \/ /\ n \in DOMAIN ws /\ HashOf(n) # c
             /\ ~MayRemove(HashOf(n) \in DOMAIN objs)
             /\ Look(n)
             /\ Refuse
          \/ /\ n \in DOMAIN ws => HashOf(n) # c /\ MayRemove(HashOf(n) \in DOMAIN objs)
             /\ Link(IF n \in DOMAIN ws THEN Looked(n) ELSE db,
                     n, c, disk, Without(ws, {n}), objs)
             /\ op' = [op EXCEPT !.todo = @ \ {n}]
             /\ UNCHANGED <<present, dirs>>
    /\ UNCHANGED <<record, stored, hardlinks, ours, laid, blind, cut, steps>>

(* _remove_redundant_files *)
(* Broken form: they stay. *)
RedundantKept(v) == {}

Redundant(v) == DOMAIN ws \ DOMAIN v

RemoveRedundant ==
    /\ op.pc = "files" /\ op.todo = {}
    /\ \E n \in Redundant(op.v) :
          /\ \/ op.forced /\ UNCHANGED <<db, doubt>>
             \/ ~op.forced /\ Look(n)
          /\ \/ /\ ~MayRemove(HashOf(n) \in DOMAIN objs)
                /\ Refuse
             \/ /\ MayRemove(HashOf(n) \in DOMAIN objs)
                /\ Disk(disk, Without(ws, {n}), objs)
                /\ Goto("files")
                /\ UNCHANGED <<clock, present, dirs>>
    /\ UNCHANGED <<record, stored, hardlinks, ours, laid, blind, cut, steps>>

CheckoutDir ==
    /\ op.pc = "files" /\ op.todo = {} /\ Redundant(op.v) = {}
    /\ LinkDir(op.v)
    /\ Finish("ok")
    /\ UNCHANGED <<clock, fs, record, stored, hardlinks, ours, blind, cut, steps>>

--------------------------------------------------------------------------------
(***************************************************************************)
(* The merge driver of Git, on the versions of a common ancestor, of this  *)
(* branch and of the other.  A version whose .dir object is not in the     *)
(* cache is taken for an empty one (get_dir_cache).                        *)
(***************************************************************************)
DirCache(v) == IF v # None /\ v \in dirs THEN v ELSE Empty

MergeDriver ==
    /\ MayStart /\ record # None
    /\ steps.user = 0 /\ steps.dvc = 0        \* bound: only as the first command
    /\ Load
    /\ \E ancestor \in Versions \cup {None}, their \in Versions :
          LET a == DirCache(ancestor)
              o == DirCache(record)
              t == DirCache(their)
          IN /\ MergeAllowed(a, o, t)
             /\ op' = [cmd |-> "merge", pc |-> "merged", ancestor |-> ancestor,
                       their |-> their, v |-> Merge(a, o, t)]
    /\ UNCHANGED <<clock, fs, record, stored, hardlinks, ours, blind, cut>>

(* save_dir_info, and the dump of the .dvc file. *)
Merged ==
    /\ op.pc = "merged"
    /\ dirs' = dirs \cup {op.v}
    /\ record' = op.v
    /\ op' = [Idle EXCEPT !.cmd = "merge", !.pc = "dump", !.result = "ok"]
    /\ UNCHANGED <<clock, disk, ws, present, objs, strays, stored, db, hardlinks, ours, laid,
                   blind, doubt, cut, steps>>

(* dvc gc --workspace.  A temporary name is not one of a used object       *)
(* (path_to_hash), and its file is removed. *)
Gc ==
    /\ MayStart
    /\ LET o == [c \in DOMAIN objs \cap Used |-> objs[c]] IN Files(disk, ws, o)
    /\ strays' = {}
    /\ dirs' = dirs \cap {record}
    /\ steps' = [steps EXCEPT !.dvc = @ + 1]
    /\ UNCHANGED <<clock, present, record, stored, db, hardlinks, op, ours, laid, blind, doubt,
                   cut>>

--------------------------------------------------------------------------------
(* dump: the transaction is committed; above the limit, VACUUM commits it  *)
(* before the count is written. *)
Blind(database) == {i \in doubt : ToSqlite(i) \in DOMAIN database.rows}

Dump ==
    /\ op.pc = "dump" /\ ~MustCleanUp(db)
    /\ stored' = Committed(db, Counted(db))
    /\ blind' = Blind(db) /\ doubt' = {}
    /\ ours' = laid /\ laid' = None
    /\ db' = EmptyDb /\ op' = Idle
    /\ UNCHANGED <<clock, fs, record, hardlinks, cut, steps>>

CleanUp ==
    /\ op.pc = "dump" /\ MustCleanUp(db)
    /\ \E deleted \in CleanUps(db) :
          /\ db' = Vacuumed(db, deleted)
          /\ stored' = Vacuumed(db, deleted)
          /\ blind' = Blind(db')
    /\ ours' = laid
    /\ Goto("count")
    /\ UNCHANGED <<clock, fs, record, hardlinks, laid, doubt, cut, steps>>

Count ==
    /\ op.pc = "count"
    /\ stored' = Committed(db, Cardinality(DOMAIN db.rows))
    /\ blind' = Blind(db) /\ doubt' = {}
    /\ ours' = laid /\ laid' = None
    /\ db' = EmptyDb /\ op' = Idle
    /\ UNCHANGED <<clock, fs, record, hardlinks, cut, steps>>

(* The process dies, and its transaction is rolled back.                   *)
Die ==
    /\ op # Idle
    /\ op' = Idle /\ db' = EmptyDb
    /\ cut' = (cut \/ op.pc = "count")
    /\ doubt' = {} /\ laid' = None
    /\ UNCHANGED <<clock, blind, record, stored, hardlinks, ours, steps>>

Crash == Die /\ UNCHANGED fs

(* It dies in move, which takes a file of the workspace to a temporary name *)
(* in the cache, and from there to its own: between the two, neither name  *)
(* leads to it. *)
MoveCutShort ==
    /\ op.pc = "commit"
    /\ \E n \in op.todo \cap DOMAIN ws :
          /\ op.v[n] \notin DOMAIN objs
          /\ Files(Protect(disk, ws[n]), Without(ws, {n}), objs)
          /\ strays' = strays \cup {disk[ws[n]].data}
    /\ Die
    /\ UNCHANGED <<present, dirs>>

Next ==
    \/ WriteInPlace \/ WriteNew \/ Delete \/ Rename \/ GitSwitch \/ LoseDb
    \/ Start("status", FALSE) \/ Start("add", FALSE)
    \/ \E forced \in BOOLEAN : Start("checkout", forced)
    \/ Hash \/ SaveDirHash
    \/ CommitFile \/ CommitFails \/ CommitDir
    \/ RemoveUnused \/ DropLink \/ StartCheckout \/ Compare \/ Missing \/ MissingForced
    \/ CheckoutFile \/ RemoveRedundant \/ CheckoutDir
    \/ MergeDriver \/ Merged \/ Gc
    \/ Dump \/ CleanUp \/ Count \/ Crash \/ MoveCutShort

Spec == Init /\ [][Next]_vars
--------------------------------------------------------------------------------
(***************************************************************************)
(* What a step needs to know of the steps before it.  Times are spent: no  *)
(* two inodes have the same mtime, and none has one that is still to come. *)
(***************************************************************************)
FilesKnown ==
    /\ clock \in Nat
    /\ DOMAIN disk = Inodes(ws, objs) /\ DOMAIN disk \subseteq FileInode
    /\ \A i \in DOMAIN disk :
          DOMAIN disk[i] = {"mtime", "data", "ro"} /\ disk[i].mtime \in 0..clock
    /\ \A i, j \in DOMAIN disk : disk[i].mtime = disk[j].mtime => i = j

(* Of the row of a file: where its mtime is the file's, its hash is.       *)
FileRows(b, dubious, d, t) ==
    \A i \in FileInode :
        ToSqlite(i) \in DOMAIN b.rows =>
            LET row == b.rows[ToSqlite(i)] IN
            /\ row.meta \in 0..t
            /\ i \in DOMAIN d /\ d[i].mtime = row.meta => row.hash = d[i].data \/ i \in dubious

(* Of mtimes by name: what has one of them, has the content of that name.  *)
Tells(meta, v, d, t) ==
    /\ v = [n \in DOMAIN meta |-> v[n]]
    /\ \A n \in DOMAIN meta :
          /\ meta[n] \in 0..t
          /\ \A i \in DOMAIN d : d[i].mtime = meta[n] => d[i].data = v[n]

DirRow(b, dubious, d, t) ==
    ToSqlite(D) \in DOMAIN b.rows /\ D \notin dubious =>
        Tells(b.rows[ToSqlite(D)].meta, b.rows[ToSqlite(D)].hash, d, t)

LinkRow(b, v, d, t) ==
    Path \in DOMAIN b.links /\ v # None => Tells(b.links[Path].meta, v, d, t)

Truthful(b, dubious, v, d, t) ==
    /\ {"rows", "links"} \subseteq DOMAIN b
    /\ FileRows(b, dubious, d, t) /\ DirRow(b, dubious, d, t) /\ LinkRow(b, v, d, t)

DbTrue == Truthful(db, doubt, laid, disk, clock)
StoredTrue == Truthful(stored, blind, ours, disk, clock)

(* A file of which checkout is done has the content it should have, or its *)
(* row says so. *)
Settled(n) ==
    /\ n \in DOMAIN ws
    /\ \/ op.v[n] = disk[ws[n]].data
       \/ ws[n] \in doubt /\ op.v[n] # NoHash /\ Lookup(ws[n]) = op.v[n]

(* Listings map names to hashes. *)
Mapping(v) == v = [n \in DOMAIN v |-> v[n]]

Listings ==
    /\ \A v \in dirs : Mapping(v)
    /\ op.pc \in {"save", "merged"} => Mapping(op.v)
    /\ op.pc = "files" => InCache(op.v) /\ op.todo \subseteq DOMAIN op.v

InStride ==
    /\ "pc" \in DOMAIN op
    /\ op.pc # "merged" => DOMAIN op = DOMAIN Idle
    /\ op = Idle => db = EmptyDb /\ doubt = {}
    /\ op.pc = "save" => op.v = Version \/ doubt \cap (Range(ws) \cup {D}) # {}
    /\ op.pc \in {"commit", "compare"} => op.v = Version \/ D \in doubt
    /\ op.pc = "commit" => op.cmd = "add"
    /\ op.pc = "unlink" => op.cmd = "unlink"
    /\ op.pc = "merged" => op.cmd = "merge"
    /\ op.pc = "files" =>
          /\ op.v = record
          /\ D \in doubt \/ \A n \in DOMAIN op.v \ op.todo : Settled(n)
    /\ op.pc = "dump" /\ op.cmd = "checkout" /\ op.result = "ok" =>
          Version = record \/ doubt \cap (Range(ws) \cup {D}) # {}

(* What the next command finds in the database is true: a row that agrees  *)
(* with the metadata of a file has the hash of its content, and so for the *)
(* directory, whatever was saved before its content was looked at again    *)
(* (cache/base.py:210, 224, 304, 435, 473 and 483 save hashes that were    *)
(* taken before).  Only changes that mtime and inode do not show escape    *)
(* (state.py:453).                                                         *)
HashSound ==
    op = Idle =>
        \A i \in Range(ws) \cup (IF present THEN {D} ELSE {}) :
            Get(stored, i, Meta(i)) \in {NoHash, Actual(i)} \/ i \in blind

(* The table of rows stays within its limit, whatever is inserted, updated *)
(* and rolled back (state.py:296 counts, 298 cleans up), unless a crash    *)
(* has come between VACUUM, which commits, and the new count.              *)
RowsBounded ==
    op = Idle /\ ~cut => /\ Cardinality(DOMAIN stored.rows) <= RowLimit
                         /\ Cardinality(DOMAIN stored.rows) = stored.count

(* DVC removes or overwrites a file only when its content is in the cache, *)
(* the user has said --force, or, as an unused link, when it is what DVC   *)
(* has put there (cache/base.py:399 and 407, state.py:501), as far as a    *)
(* change can be seen at all.  Only a dvc add that is killed between the   *)
(* two renames of move (utils/fs.py:111 and 113) takes a file away and has *)
(* it under a temporary name alone, until a gc removes that: MoveAtomic.   *)
OnlyOursRemoved ==
    [][op' # op =>
        \A n \in DOMAIN ws :
            \/ n \in DOMAIN ws' /\ disk'[ws'[n]].data = disk[ws[n]].data
            \/ disk[ws[n]].data \in DOMAIN objs'
            \/ disk[ws[n]].data \in strays' /\ op.pc = "commit"
            \/ op'.forced
            \/ op'.pc = "unlink" /\ ours \in {Version, None}
            \/ doubt \cap {ws[n], D} # {}]_vars

(* move is said to make "the whole operation atomic" (utils/fs.py:90): at  *)
(* every step of dvc add, a file that is not in the workspace any more has *)
(* its content in the cache. It does not hold for MoveCutShort.            *)
MoveAtomic ==
    [][op.pc = "commit" /\ UNCHANGED steps =>
        \A n \in DOMAIN ws : n \in DOMAIN ws' \/ disk[ws[n]].data \in DOMAIN objs']_vars

(* A checkout that succeeds leaves the directory as the .dvc file has it,  *)
(* also when it finds nothing to do (cache/base.py:523 and 469).           *)
CheckoutRestores ==
    [][op.cmd = "checkout" /\ op'.pc = "dump" /\ op'.result = "ok"
       => Version = record \/ doubt \cap (Range(ws) \cup {D}) # {}]_vars

(* A merge that the driver does not refuse is the three-way merge, path by *)
(* path: who changed nothing follows the other, and additions of both are  *)
(* kept (dir_info.py:28).  The .dir objects have to be in the cache.       *)
ThreeWay(ancestor, our, their, merged) ==
    \A n \in Name :
        LET In(v) == IF n \in DOMAIN v THEN {v[n]} ELSE {}
        IN  \/ In(our) = In(ancestor) /\ In(merged) = In(their)
            \/ In(their) = In(ancestor) /\ In(merged) = In(our)
            \/ In(our) = In(their) /\ In(merged) = In(our)

MergeKeeps ==
    op.pc = "merged" /\ {record, op.their} \subseteq dirs
      /\ (op.ancestor # None => op.ancestor \in dirs)
    => ThreeWay(IF op.ancestor = None THEN Empty ELSE op.ancestor, record, op.their, op.v)
================================================================================
