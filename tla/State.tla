--------------------------------- MODULE State ---------------------------------
(***************************************************************************)
(* The state database, src/dvc/state.py: a table of rows that say which    *)
(* hash the file with an inode had when its metadata were such and such,   *)
(* and a table of the links that DVC has made in the workspace.            *)
(*                                                                         *)
(* sqlite has signed integers: inodes above MaxInt are folded into the     *)
(* negative ones.  Sizes are left out: no two contents differ in size.     *)
(***************************************************************************)
EXTENDS Integers, FiniteSets

CONSTANTS MaxInt,        \* 2^63 - 1 in the code
          RowLimit,      \* row_limit
          CleanupRows,   \* int(row_limit * row_cleanup_quota / 100)
          NoHash         \* what get returns when it has no hash

ASSUME StateAssumption ==
    /\ MaxInt \in Nat \ {0}
    /\ RowLimit \in Nat
    /\ CleanupRows \in 0..RowLimit

MaxUint == 2 * MaxInt

Inode == 0..(MaxUint - 1)

ToSqlite(num) == IF num > MaxInt THEN -(num - MaxInt) ELSE num

FromSqlite(num) == IF num < 0 THEN -num + MaxInt ELSE num

Override(f, key, value) ==
    [k \in DOMAIN f \cup {key} |-> IF k = key THEN value ELSE f[k]]

Without(f, keys) == [k \in DOMAIN f \ keys |-> f[k]]

(* A database without rows, as _prepare_db makes it.                       *)
EmptyDb == [rows |-> [k \in {} |-> NoHash], links |-> [k \in {} |-> NoHash],
            count |-> 0, inserts |-> 0]

(* Broken form: the metadata are not compared. *)
GetAny(db, inode, meta) ==
    IF ToSqlite(inode) \in DOMAIN db.rows THEN db.rows[ToSqlite(inode)].hash ELSE NoHash

Get(db, inode, meta) ==
    IF ToSqlite(inode) \in DOMAIN db.rows /\ db.rows[ToSqlite(inode)].meta = meta
    THEN db.rows[ToSqlite(inode)].hash
    ELSE NoHash

(* save inserts a row, or updates the one of the inode.                    *)
SaveRow(db, inode, meta, hash) ==
    [db EXCEPT !.rows = Override(@, ToSqlite(inode), [meta |-> meta, hash |-> hash]),
               !.inserts = IF ToSqlite(inode) \in DOMAIN db.rows THEN @ ELSE @ + 1]

SaveLink(db, path, inode, meta) ==
    [db EXCEPT !.links = Override(@, path, [inode |-> ToSqlite(inode), meta |-> meta])]

(* get_unused_links, of one path that exists and is not used.              *)
OwnLink(db, path, inode, meta) ==
    /\ path \in DOMAIN db.links
    /\ FromSqlite(db.links[path].inode) = inode
    /\ db.links[path].meta = meta

RemoveLink(db, path) == [db EXCEPT !.links = Without(@, {path})]

(* dump: the rows are counted by what was inserted; above the limit the    *)
(* oldest ones go.  Which ones those are is left open, and that rows with  *)
(* the timestamp of the last of them go as well.                           *)
(* Broken form: what was inserted since is not counted. *)
OldCount(db) == db.count

Counted(db) == db.count + db.inserts

MustCleanUp(db) == Counted(db) > RowLimit

ToDelete(db) == Counted(db) - RowLimit + CleanupRows

(* Not every row has to be there that was counted.                         *)
CleanUps(db) ==
    {S \in SUBSET DOMAIN db.rows :
        Cardinality(S) >= ToDelete(db) \/ S = DOMAIN db.rows}

(* VACUUM commits the deletion, with the count of before.                  *)
Vacuumed(db, deleted) == [db EXCEPT !.rows = Without(@, deleted), !.inserts = 0]

Committed(db, count) == [db EXCEPT !.count = count, !.inserts = 0]
================================================================================
