---------------------------- MODULE LocalDataProofs ----------------------------
(***************************************************************************)
(* Proofs about State, DirInfo and LocalData, for any files, contents,     *)
(* limits and width of integers.                                           *)
(***************************************************************************)
EXTENDS LocalData, FiniteSetTheorems, TLAPS

(* Inodes that are folded into the signed integers of sqlite fit there,    *)
(* come back as they were, and never share a row (state.py:180 and 192).   *)
THEOREM Folding ==
    ASSUME NEW m \in Inode, NEW n \in Inode
    PROVE  /\ ToSqlite(n) \in -MaxInt..MaxInt
           /\ FromSqlite(ToSqlite(n)) = n
           /\ ToSqlite(m) = ToSqlite(n) => m = n
BY StateAssumption DEF Inode, MaxUint, ToSqlite, FromSqlite

(* A merge that is allowed is the three-way merge (dir_info.py:28).        *)
LEMMA MergeIsThreeWay ==
    ASSUME NEW a, NEW o, NEW t, MergeAllowed(a, o, t)
    PROVE  ThreeWay(a, o, t, Merge(a, o, t))
<1>1. CASE o = a
  BY <1>1 DEF ThreeWay, Merge
<1>2. CASE o # a /\ t = a
  BY <1>2 DEF ThreeWay, Merge
<1>3. CASE o # a /\ t # a
  <2>1. /\ DOMAIN a \subseteq DOMAIN o /\ DOMAIN a \subseteq DOMAIN t
        /\ \A n \in DOMAIN a : a[n] = o[n] /\ a[n] = t[n]
        /\ \A n \in DOMAIN o \cap DOMAIN t : o[n] = t[n]
    BY <1>3 DEF MergeAllowed, OnlyAdds, Changed, Removed, Conflicts
  <2>2. Merge(a, o, t) = Patch(o, t)
    BY <1>3 DEF Merge
  <2> DEFINE In(v, n) == IF n \in DOMAIN v THEN {v[n]} ELSE {}
  <2>3. ASSUME NEW n \in Name
        PROVE  \/ In(o, n) = In(a, n) /\ In(Patch(o, t), n) = In(t, n)
               \/ In(t, n) = In(a, n) /\ In(Patch(o, t), n) = In(o, n)
               \/ In(o, n) = In(t, n) /\ In(Patch(o, t), n) = In(o, n)
    <3>1. CASE n \in DOMAIN t /\ n \in DOMAIN o
      BY <3>1, <2>1 DEF Patch
    <3>2. CASE n \in DOMAIN t /\ n \notin DOMAIN o
      BY <3>2, <2>1 DEF Patch
    <3>3. CASE n \notin DOMAIN t
      BY <3>3, <2>1 DEF Patch
    <3> QED BY <3>1, <3>2, <3>3
  <2> QED BY <2>2, <2>3 DEF ThreeWay
<1> QED BY <1>1, <1>2, <1>3

--------------------------------------------------------------------------------
(* What the driver has merged, until it has saved it. *)
MergeInv ==
    /\ "pc" \in DOMAIN op
    /\ op.pc = "merged" =>
           /\ record # None /\ op.their # None
           /\ MergeAllowed(DirCache(op.ancestor), DirCache(record), DirCache(op.their))
           /\ op.v = Merge(DirCache(op.ancestor), DirCache(record), DirCache(op.their))

(* The actions that leave a running merge alone. *)
UserStep == WriteInPlace \/ WriteNew \/ Delete \/ Rename

LEMMA InitMergeInv == Init => MergeInv
BY DEF Init, MergeInv, Idle

(* Nothing but the driver itself comes to "merged". *)
LEMMA NextMergeInv == MergeInv /\ [Next]_vars => MergeInv'
<1> SUFFICES ASSUME MergeInv, [Next]_vars PROVE MergeInv'
  OBVIOUS
<1> USE DEF MergeInv
<1>1. CASE UNCHANGED vars
  BY <1>1 DEF vars, fs, DirCache
<1>2. CASE UserStep
  BY <1>2 DEF UserStep, WriteInPlace, WriteNew, Delete, Rename, User, DirCache
<1>3. CASE GitSwitch \/ LoseDb \/ Gc
  BY <1>3 DEF GitSwitch, LoseDb, Gc, MayStart, Idle
<1>4. CASE \E cmd \in {"status", "add", "checkout"}, forced \in BOOLEAN : Start(cmd, forced)
  BY <1>4 DEF Start, Idle
<1>5. CASE Hash \/ SaveDirHash
  BY <1>5 DEF Hash, SaveDirHash, Hashed, Finish
<1>6. CASE CommitFile \/ CommitFails \/ CommitDir
  BY <1>6 DEF CommitFile, CommitFails, CommitDir, Finish
<1>7. CASE RemoveUnused \/ DropLink \/ StartCheckout \/ MissingForced
  BY <1>7 DEF RemoveUnused, DropLink, StartCheckout, MissingForced, Finish, Idle
<1>8. CASE Compare \/ Missing
  BY <1>8 DEF Compare, Missing, Refuse, Finish
<1>9. CASE CheckoutFile \/ RemoveRedundant \/ CheckoutDir
  BY <1>9 DEF CheckoutFile, RemoveRedundant, CheckoutDir, Refuse, Finish, Goto
<1>10. CASE MergeDriver
  <2>1. PICK ancestor \in Versions \cup {None}, their \in Versions :
           /\ MergeAllowed(DirCache(ancestor), DirCache(record), DirCache(their))
           /\ op' = [cmd |-> "merge", pc |-> "merged", ancestor |-> ancestor,
                     their |-> their,
                     v |-> Merge(DirCache(ancestor), DirCache(record), DirCache(their))]
    BY <1>10 DEF MergeDriver
  <2>2. UNCHANGED <<dirs, record>>
    BY <1>10 DEF MergeDriver, fs
  <2>3. record # None
    BY <1>10 DEF MergeDriver
  <2> QED BY <2>1, <2>2, <2>3, NoVersionAssumption DEF DirCache
<1>11. CASE Merged \/ Dump \/ CleanUp \/ Count \/ Crash \/ MoveCutShort
  <2>1. CASE Merged
    BY <2>1 DEF Merged, Idle
  <2>2. CASE Dump \/ Count \/ Crash \/ MoveCutShort
    BY <2>2 DEF Dump, Count, Crash, MoveCutShort, Die, Idle
  <2>3. CASE CleanUp
    BY <2>3 DEF CleanUp, Goto
  <2> QED BY <1>11, <2>1, <2>2, <2>3
<1> QED
  BY <1>1, <1>2, <1>3, <1>4, <1>5, <1>6, <1>7, <1>8, <1>9, <1>10, <1>11 DEF Next, UserStep

LEMMA MergeInvImplies == MergeInv => MergeKeeps
<1> SUFFICES ASSUME MergeInv, op.pc = "merged", {record, op.their} \subseteq dirs,
                    op.ancestor # None => op.ancestor \in dirs
             PROVE  ThreeWay(IF op.ancestor = None THEN Empty ELSE op.ancestor,
                             record, op.their, op.v)
  BY DEF MergeKeeps
<1>1. /\ DirCache(record) = record /\ DirCache(op.their) = op.their
      /\ DirCache(op.ancestor) = IF op.ancestor = None THEN Empty ELSE op.ancestor
  BY DEF MergeInv, DirCache
<1>2. ThreeWay(DirCache(op.ancestor), DirCache(record), DirCache(op.their), op.v)
  BY MergeIsThreeWay DEF MergeInv
<1> QED BY <1>1, <1>2

(* What the merge driver makes of two versions of a directory, when it     *)
(* does not refuse, is their three-way merge.                              *)
THEOREM MergeKept == Spec => []MergeKeeps
BY InitMergeInv, NextMergeInv, MergeInvImplies, PTL DEF Spec

--------------------------------------------------------------------------------
(* A database, and whether its count is right. *)
Table(b) ==
    /\ {"rows", "count", "inserts"} \subseteq DOMAIN b
    /\ IsFiniteSet(DOMAIN b.rows)
    /\ b.count \in Nat /\ b.inserts \in Nat

Exact(b) == Counted(b) = Cardinality(DOMAIN b.rows)

LEMMA EmptyTable == Table(EmptyDb) /\ Exact(EmptyDb) /\ EmptyDb.inserts = 0 /\ EmptyDb.count = 0
<1>1. DOMAIN EmptyDb.rows = {}
  BY DEF EmptyDb
<1> QED BY <1>1, FS_EmptySet DEF EmptyDb, Table, Exact, Counted

(* Saving a hash keeps the count right: an insert adds a row, and an       *)
(* update does not. *)
LEMMA SavedRow ==
    ASSUME NEW b, Table(b), NEW i, NEW meta, NEW hash
    PROVE  /\ Table(SaveRow(b, i, meta, hash))
           /\ Exact(b) => Exact(SaveRow(b, i, meta, hash))
<1> DEFINE key == ToSqlite(i)
           rows == Override(b.rows, key, [meta |-> meta, hash |-> hash])
           inserts == IF key \in DOMAIN b.rows THEN b.inserts ELSE b.inserts + 1
           saved == SaveRow(b, i, meta, hash)
<1>1. /\ saved.rows = rows /\ saved.count = b.count /\ saved.inserts = inserts
      /\ DOMAIN saved = DOMAIN b
  BY DEF Table, SaveRow
<1>2. DOMAIN rows = DOMAIN b.rows \cup {key}
  BY DEF Override
<1>3. /\ IsFiniteSet(DOMAIN rows)
      /\ Cardinality(DOMAIN rows) = IF key \in DOMAIN b.rows THEN Cardinality(DOMAIN b.rows)
                                    ELSE Cardinality(DOMAIN b.rows) + 1
  BY <1>2, FS_AddElement DEF Table
<1>4. Cardinality(DOMAIN b.rows) \in Nat
  BY FS_CardinalityType DEF Table
<1> HIDE DEF rows, key
<1> HIDE DEF saved
<1>6. Table(saved)
  BY <1>1, <1>3 DEF Table
<1>7. Exact(b) => Exact(saved)
  BY <1>1, <1>3, <1>4 DEF Exact, Counted, Table
<1> QED BY <1>6, <1>7 DEF saved

LEMMA SavedLink ==
    ASSUME NEW b, Table(b), NEW path, NEW i, NEW meta
    PROVE  /\ Table(SaveLink(b, path, i, meta)) /\ Table(RemoveLink(b, path))
           /\ Exact(b) => Exact(SaveLink(b, path, i, meta)) /\ Exact(RemoveLink(b, path))
BY DEF Table, SaveLink, RemoveLink, Exact, Counted

(* What VACUUM leaves is within the limit, when the count was right. *)
LEMMA Cleaned ==
    ASSUME NEW b, Table(b), NEW deleted \in CleanUps(b)
    PROVE  /\ Table(Vacuumed(b, deleted)) /\ Vacuumed(b, deleted).inserts = 0
           /\ Exact(b) /\ MustCleanUp(b)
              => Cardinality(DOMAIN Vacuumed(b, deleted).rows) <= RowLimit
<1> DEFINE left == DOMAIN b.rows \ deleted
           cleaned == Vacuumed(b, deleted)
<1>1. /\ DOMAIN cleaned.rows = left /\ cleaned.count = b.count /\ cleaned.inserts = 0
      /\ DOMAIN cleaned = DOMAIN b
  BY DEF Table, Vacuumed, Without
<1>2. /\ deleted \subseteq DOMAIN b.rows
      /\ Cardinality(deleted) >= ToDelete(b) \/ deleted = DOMAIN b.rows
  BY DEF CleanUps
<1>3. /\ IsFiniteSet(left) /\ IsFiniteSet(deleted)
      /\ Cardinality(left) \in Nat /\ Cardinality(deleted) \in Nat
      /\ Cardinality(DOMAIN b.rows) \in Nat
      /\ Cardinality(left) = Cardinality(DOMAIN b.rows) - Cardinality(deleted)
  <2>1. IsFiniteSet(deleted) /\ IsFiniteSet(left)
    BY <1>2, FS_Subset DEF Table
  <2>2. DOMAIN b.rows \cap deleted = deleted
    BY <1>2
  <2> QED BY <2>1, <2>2, FS_Difference, FS_CardinalityType DEF Table
<1> HIDE DEF cleaned, left
<1>4. Table(cleaned)
  BY <1>1, <1>3 DEF Table
<1>5. Exact(b) /\ MustCleanUp(b) => Cardinality(left) <= RowLimit
  <2>1. CASE Cardinality(deleted) >= ToDelete(b)
    BY <2>1, <1>3, StateAssumption DEF Exact, ToDelete, Table, Counted
  <2>2. CASE deleted = DOMAIN b.rows
    BY <2>2, <1>3, StateAssumption
  <2> QED BY <2>1, <2>2, <1>2
<1> QED BY <1>1, <1>4, <1>5 DEF cleaned

--------------------------------------------------------------------------------
(* Commands count right, but for the time between VACUUM and the count.    *)
RowsInv ==
    /\ "pc" \in DOMAIN op
    /\ Table(stored) /\ Table(db) /\ stored.inserts = 0
    /\ cut \in BOOLEAN
    /\ ~cut /\ op.pc # "count" =>
           Exact(stored) /\ Exact(db) /\ stored.count <= RowLimit
    /\ ~cut /\ op.pc = "count" => Cardinality(DOMAIN db.rows) <= RowLimit

LEMMA InitRowsInv == Init => RowsInv
<1> SUFFICES ASSUME Init PROVE RowsInv
  OBVIOUS
<1>1. "pc" \in DOMAIN op /\ op.pc = "none" /\ cut = FALSE
  BY DEF Init, Idle
<1>2. stored = EmptyDb /\ db = EmptyDb
  BY DEF Init
<1>3. /\ Table(stored) /\ Exact(stored) /\ Table(db) /\ Exact(db)
      /\ stored.inserts = 0 /\ stored.count = 0
  BY <1>2, EmptyTable
<1>4. 0 <= RowLimit
  BY StateAssumption
<1> QED BY <1>1, <1>3, <1>4 DEF RowsInv

(* A step that writes at most rows and links into the transaction. *)
Saves ==
    /\ UNCHANGED <<stored, cut>>
    /\ op.pc # "count" /\ "pc" \in DOMAIN op' /\ op'.pc # "count"
    /\ Table(db') /\ (Exact(db) => Exact(db'))

LEMMA SavesRowsInv == ASSUME RowsInv, Saves PROVE RowsInv'
BY DEF RowsInv, Saves

LEMMA LinkSaves ==
    ASSUME NEW b, Table(b), NEW n, NEW c, NEW d, NEW w, NEW o, Link(b, n, c, d, w, o)
    PROVE  Table(db') /\ (Exact(b) => Exact(db'))
<1>1. PICK i, meta : db' = SaveRow(b, i, meta, c)
  BY DEF Link
<1> QED BY <1>1, SavedRow

LEMMA SaveHashSaves ==
    ASSUME RowsInv, NEW i, NEW hash, NEW from, SaveHash(i, hash, from)
    PROVE  Table(db') /\ (Exact(db) => Exact(db'))
BY SavedRow DEF RowsInv, SaveHash

LEMMA LinkDirSaves ==
    ASSUME RowsInv, NEW v, LinkDir(v)
    PROVE  Table(db') /\ (Exact(db) => Exact(db'))
<1>1. Table(SaveLink(db, Path, D, Meta(D))) /\ (Exact(db) => Exact(SaveLink(db, Path, D, Meta(D))))
  BY SavedLink DEF RowsInv
<1>2. db' = SaveRow(SaveLink(db, Path, D, Meta(D)), D, Meta(D), v)
  BY DEF LinkDir
<1> QED BY <1>1, <1>2, SavedRow

LEMMA NextRowsInv == RowsInv /\ [Next]_vars => RowsInv'
<1> SUFFICES ASSUME RowsInv, [Next]_vars PROVE RowsInv'
  OBVIOUS
<1>1. CASE UNCHANGED vars
  BY <1>1 DEF vars, RowsInv, Exact, Counted
<1>2. CASE UserStep
  BY <1>2 DEF UserStep, WriteInPlace, WriteNew, Delete, Rename, User, RowsInv
<1>3. CASE GitSwitch \/ Gc
  BY <1>3 DEF GitSwitch, Gc, RowsInv
<1>4. CASE LoseDb
  BY <1>4, EmptyTable, StateAssumption DEF LoseDb, RowsInv
<1>5. CASE Load /\ stored' = stored /\ cut' = cut /\ op = Idle /\ "pc" \in DOMAIN op' /\ op'.pc # "count"
  BY <1>5 DEF Load, RowsInv, Idle
<1>6. CASE \E cmd \in {"status", "add", "checkout"}, forced \in BOOLEAN : Start(cmd, forced)
  BY <1>6, <1>5 DEF Start, Idle, MayStart
<1>7. CASE RemoveUnused \/ StartCheckout \/ MissingForced
  BY <1>7, <1>5 DEF RemoveUnused, StartCheckout, MissingForced, Idle, MayStart
<1>8. CASE MergeDriver
  BY <1>8, <1>5 DEF MergeDriver, MayStart
<1>9. CASE Hash
  BY <1>9, SavesRowsInv DEF Saves, RowsInv, Hash, Hashed, Finish
<1>10. CASE SaveDirHash
  <2>1. Table(db') /\ (Exact(db) => Exact(db'))
    BY <1>10, SaveHashSaves DEF SaveDirHash
  <2> QED BY <1>10, <2>1, SavesRowsInv DEF Saves, RowsInv, SaveDirHash, Hashed, Finish
<1>11. CASE CommitFile
  <2>1. Table(db') /\ (Exact(db) => Exact(db'))
    BY <1>11, SaveHashSaves, LinkSaves DEF CommitFile, RowsInv
  <2>2. /\ UNCHANGED <<stored, cut>> /\ op.pc = "commit"
        /\ \E n : op' = [op EXCEPT !.todo = @ \ {n}]
    BY <1>11 DEF CommitFile
  <2> QED BY <2>1, <2>2, SavesRowsInv DEF Saves, RowsInv
<1>12. CASE CommitFails \/ Compare
  BY <1>12, SavesRowsInv DEF Saves, RowsInv, CommitFails, Compare, Finish
<1>13. CASE CommitDir \/ CheckoutDir
  <2>1. Table(db') /\ (Exact(db) => Exact(db'))
    BY <1>13, LinkDirSaves DEF CommitDir, CheckoutDir
  <2> QED BY <1>13, <2>1, SavesRowsInv DEF Saves, RowsInv, CommitDir, CheckoutDir, Finish
<1>14. CASE DropLink
  <2>1. Table(db') /\ (Exact(db) => Exact(db'))
    BY <1>14, SavedLink DEF DropLink, RowsInv
  <2> QED BY <1>14, <2>1, SavesRowsInv DEF Saves, RowsInv, DropLink, Finish
<1>15. CASE Missing
  BY <1>15, SavesRowsInv DEF Saves, RowsInv, Missing, Refuse, Finish
<1>22. CASE RemoveRedundant
  <2>1. Table(db') /\ (Exact(db) => Exact(db'))
    BY <1>22, SaveHashSaves DEF RemoveRedundant, Look, RowsInv
  <2> QED BY <1>22, <2>1, SavesRowsInv DEF Saves, RowsInv, RemoveRedundant, Refuse, Finish, Goto
<1>16. CASE CheckoutFile
  <2>1. Table(db') /\ (Exact(db) => Exact(db'))
    <3>1. \A n : Table(Looked(n)) /\ (Exact(db) => Exact(Looked(n)))
      BY SavedRow DEF Looked, RowsInv
    <3> QED BY <1>16, <3>1, SaveHashSaves, LinkSaves DEF CheckoutFile, Look, RowsInv
  <2>2. /\ UNCHANGED <<stored, cut>> /\ op.pc = "files"
        /\ "pc" \in DOMAIN op' /\ op'.pc # "count"
    BY <1>16 DEF CheckoutFile, Refuse, Finish, RowsInv
  <2> QED BY <2>1, <2>2, SavesRowsInv DEF Saves
<1>17. CASE Merged
  BY <1>17, SavesRowsInv DEF Saves, RowsInv, Merged, Idle
<1>18. CASE Dump
  <2>1. /\ stored' = [db EXCEPT !.count = Counted(db), !.inserts = 0] /\ db' = EmptyDb
        /\ op' = Idle /\ cut' = cut /\ op.pc = "dump" /\ ~MustCleanUp(db)
    BY <1>18 DEF Dump, Committed
  <2>2. /\ Table(stored') /\ stored'.inserts = 0 /\ stored'.count = Counted(db)
        /\ DOMAIN stored'.rows = DOMAIN db.rows
    BY <2>1 DEF RowsInv, Table, Counted
  <2>3. Exact(db) => Exact(stored') /\ stored'.count <= RowLimit
    BY <2>1, <2>2, StateAssumption DEF Exact, Counted, MustCleanUp, RowsInv, Table
  <2> QED BY <2>1, <2>2, <2>3, EmptyTable DEF RowsInv, Idle
<1>19. CASE CleanUp
  <2>1. PICK deleted \in CleanUps(db) :
           db' = Vacuumed(db, deleted) /\ stored' = Vacuumed(db, deleted)
    BY <1>19 DEF CleanUp
  <2>2. op'.pc = "count" /\ "pc" \in DOMAIN op' /\ cut' = cut /\ op.pc = "dump" /\ MustCleanUp(db)
    BY <1>19 DEF CleanUp, Goto, RowsInv
  <2> QED BY <2>1, <2>2, Cleaned DEF RowsInv
<1>20. CASE Count
  <2>1. /\ stored' = [db EXCEPT !.count = Cardinality(DOMAIN db.rows), !.inserts = 0]
        /\ db' = EmptyDb /\ op' = Idle /\ cut' = cut /\ op.pc = "count"
    BY <1>20 DEF Count, Committed
  <2>2. Cardinality(DOMAIN db.rows) \in Nat
    BY FS_CardinalityType DEF RowsInv, Table
  <2>3. /\ Table(stored') /\ stored'.inserts = 0
        /\ stored'.count = Cardinality(DOMAIN db.rows)
        /\ DOMAIN stored'.rows = DOMAIN db.rows
    BY <2>1, <2>2 DEF RowsInv, Table
  <2>4. Exact(stored')
    BY <2>2, <2>3 DEF Exact, Counted
  <2> QED BY <2>1, <2>3, <2>4, EmptyTable DEF RowsInv, Idle
<1>21. CASE Crash \/ MoveCutShort
  <2>1. Die
    BY <1>21 DEF Crash, MoveCutShort
  <2> QED BY <2>1, EmptyTable DEF Die, RowsInv, Idle
<1> QED
  BY <1>1, <1>2, <1>3, <1>4, <1>6, <1>7, <1>8, <1>9, <1>10, <1>11, <1>12, <1>13, <1>14,
     <1>15, <1>16, <1>17, <1>18, <1>19, <1>20, <1>21, <1>22 DEF Next, UserStep

(* The table of rows stays within its limit, and is counted right, for     *)
(* every limit, unless a crash has come between VACUUM and the new count   *)
(* (state.py:298). *)
THEOREM RowsStayBounded == Spec => []RowsBounded
<1>1. RowsInv => RowsBounded
  BY DEF RowsInv, RowsBounded, Exact, Counted, Idle, Table
<1> QED BY <1>1, InitRowsInv, NextRowsInv, PTL DEF Spec

--------------------------------------------------------------------------------
(***************************************************************************)
(* What the rows of a database say about the files.                        *)
(***************************************************************************)
LEMMA Keys ==
    /\ D \in Inode /\ D \notin FileInode /\ FileInode \subseteq Inode
    /\ \A i, j \in FileInode : ToSqlite(i) = ToSqlite(j) => i = j
    /\ \A i \in FileInode : ToSqlite(i) # ToSqlite(D)
<1>1. D \in Inode /\ D \notin FileInode /\ FileInode \subseteq Inode
  BY StateAssumption DEF D, FileInode, Inode, MaxUint
<1> QED BY <1>1, Folding

LEMMA SavedFields ==
    ASSUME NEW b, {"rows", "links"} \subseteq DOMAIN b, NEW i, NEW meta, NEW hash,
           NEW s, s = SaveRow(b, i, meta, hash)
    PROVE  /\ {"rows", "links"} \subseteq DOMAIN s /\ s.links = b.links
           /\ DOMAIN s.rows = DOMAIN b.rows \cup {ToSqlite(i)}
           /\ s.rows[ToSqlite(i)] = [meta |-> meta, hash |-> hash]
           /\ \A k \in DOMAIN b.rows : k # ToSqlite(i) => s.rows[k] = b.rows[k]
<1> DEFINE rows == Override(b.rows, ToSqlite(i), [meta |-> meta, hash |-> hash])
<1>1. s.rows = rows /\ DOMAIN s = DOMAIN b /\ s.links = b.links
  BY DEF SaveRow
<1>2. /\ DOMAIN rows = DOMAIN b.rows \cup {ToSqlite(i)}
      /\ rows[ToSqlite(i)] = [meta |-> meta, hash |-> hash]
      /\ \A k \in DOMAIN b.rows : k # ToSqlite(i) => rows[k] = b.rows[k]
  BY DEF Override
<1> HIDE DEF rows
<1> QED BY <1>1, <1>2

LEMMA LinkFields ==
    ASSUME NEW b, {"rows", "links"} \subseteq DOMAIN b, NEW path, NEW i, NEW meta
    PROVE  /\ LET s == SaveLink(b, path, i, meta)
              IN  /\ {"rows", "links"} \subseteq DOMAIN s /\ s.rows = b.rows
                  /\ s.links[path].meta = meta
           /\ LET r == RemoveLink(b, path)
              IN  /\ {"rows", "links"} \subseteq DOMAIN r /\ r.rows = b.rows
                  /\ path \notin DOMAIN r.links
BY DEF SaveLink, RemoveLink, Override, Without

(* The files k become k2: each stays as it is, but that i may be written,  *)
(* at a time of its own. *)
Moves(k, t, k2, t2, i) ==
    /\ t \in Nat /\ t2 \in {t, t + 1}
    /\ \A j \in DOMAIN k2 : DOMAIN k2[j] = {"mtime", "data", "ro"}
    /\ \A j \in DOMAIN k2 :
          \/ j \in DOMAIN k /\ k2[j].mtime = k[j].mtime /\ k2[j].data = k[j].data
          \/ j = i /\ t2 = t + 1 /\ k2[j].mtime = t2

LEMMA TellsMoves ==
    ASSUME NEW m, NEW v, NEW k, NEW t, NEW k2, NEW t2, NEW i,
           Tells(m, v, k, t), Moves(k, t, k2, t2, i)
    PROVE  Tells(m, v, k2, t2)
BY DEF Tells, Moves

(* A write is no news for the rows that are there. *)
LEMMA TruthMoves ==
    ASSUME NEW b, NEW m, NEW v, NEW k, NEW t, NEW k2, NEW t2, NEW i,
           Truthful(b, m, v, k, t), Moves(k, t, k2, t2, i)
    PROVE  Truthful(b, m, v, k2, t2)
<1>1. FileRows(b, m, k2, t2)
  BY DEF Truthful, FileRows, Moves
<1>2. DirRow(b, m, k2, t2) /\ LinkRow(b, v, k2, t2)
  BY TellsMoves DEF Truthful, DirRow, LinkRow
<1> QED BY <1>1, <1>2 DEF Truthful

(* Unless it sets the mtime back: then they are in doubt. *)
LEMMA TruthQuiet ==
    ASSUME NEW b, NEW m, NEW v, NEW k, NEW t, NEW k2, NEW i,
           Truthful(b, m, v, k, t),
           \A j \in DOMAIN k2 : /\ j \in DOMAIN k /\ k2[j].mtime = k[j].mtime
                                /\ j # i => k2[j].data = k[j].data
    PROVE  Truthful(b, m \cup {i, D}, None, k2, t)
BY DEF Truthful, FileRows, DirRow, LinkRow

LEMMA TruthWider ==
    ASSUME NEW b, NEW m, NEW v, NEW k, NEW t, NEW m2, NEW v2,
           Truthful(b, m, v, k, t), m \subseteq m2, v2 \in {v, None}
    PROVE  Truthful(b, m2, v2, k, t)
BY DEF Truthful, FileRows, DirRow, LinkRow

LEMMA EmptyTruth ==
    ASSUME NEW m, NEW v, NEW k, NEW t
    PROVE  Truthful(EmptyDb, m, v, k, t)
BY DEF Truthful, FileRows, DirRow, LinkRow, EmptyDb

(* The row of a file, that is true or in doubt. *)
LEMMA TruthFileRow ==
    ASSUME NEW b, NEW m, NEW v, NEW k, NEW t, NEW i \in FileInode, NEW meta, NEW hash, NEW m2,
           Truthful(b, m, v, k, t), meta \in 0..t,
           i \in DOMAIN k /\ k[i].mtime = meta => hash = k[i].data \/ i \in m2,
           m \ {i} \subseteq m2
    PROVE  Truthful(SaveRow(b, i, meta, hash), m2, v, k, t)
<1> DEFINE s == SaveRow(b, i, meta, hash)
<1>1. /\ {"rows", "links"} \subseteq DOMAIN s /\ s.links = b.links
      /\ DOMAIN s.rows = DOMAIN b.rows \cup {ToSqlite(i)}
      /\ s.rows[ToSqlite(i)] = [meta |-> meta, hash |-> hash]
      /\ \A key \in DOMAIN b.rows : key # ToSqlite(i) => s.rows[key] = b.rows[key]
  BY SavedFields DEF Truthful
<1> HIDE DEF s
<1>2. FileRows(s, m2, k, t)
  <2> SUFFICES ASSUME NEW j \in FileInode, ToSqlite(j) \in DOMAIN s.rows
               PROVE  /\ s.rows[ToSqlite(j)].meta \in 0..t
                      /\ j \in DOMAIN k /\ k[j].mtime = s.rows[ToSqlite(j)].meta
                         => s.rows[ToSqlite(j)].hash = k[j].data \/ j \in m2
    BY DEF FileRows
  <2>1. CASE j = i
    BY <2>1, <1>1
  <2>2. CASE j # i
    <3>1. ToSqlite(j) # ToSqlite(i) /\ s.rows[ToSqlite(j)] = b.rows[ToSqlite(j)]
          /\ ToSqlite(j) \in DOMAIN b.rows
      BY <2>2, <1>1, Keys
    <3> QED BY <3>1, <2>2 DEF Truthful, FileRows
  <2> QED BY <2>1, <2>2
<1>3. DirRow(s, m2, k, t)
  BY <1>1, Keys DEF Truthful, DirRow
<1>4. LinkRow(s, v, k, t)
  BY <1>1 DEF Truthful, LinkRow
<1> QED BY <1>1, <1>2, <1>3, <1>4 DEF Truthful, s

(* The row of the directory. *)
LEMMA TruthDirRow ==
    ASSUME NEW b, NEW m, NEW v, NEW k, NEW t, NEW meta, NEW hash, NEW m2,
           Truthful(b, m, v, k, t),
           Tells(meta, hash, k, t) \/ D \in m2,
           m \ {D} \subseteq m2
    PROVE  Truthful(SaveRow(b, D, meta, hash), m2, v, k, t)
<1> DEFINE s == SaveRow(b, D, meta, hash)
<1>1. /\ {"rows", "links"} \subseteq DOMAIN s /\ s.links = b.links
      /\ DOMAIN s.rows = DOMAIN b.rows \cup {ToSqlite(D)}
      /\ s.rows[ToSqlite(D)] = [meta |-> meta, hash |-> hash]
      /\ \A key \in DOMAIN b.rows : key # ToSqlite(D) => s.rows[key] = b.rows[key]
  BY SavedFields DEF Truthful
<1> HIDE DEF s
<1>2. FileRows(s, m2, k, t)
  <2> SUFFICES ASSUME NEW j \in FileInode, ToSqlite(j) \in DOMAIN s.rows
               PROVE  /\ s.rows[ToSqlite(j)].meta \in 0..t
                      /\ j \in DOMAIN k /\ k[j].mtime = s.rows[ToSqlite(j)].meta
                         => s.rows[ToSqlite(j)].hash = k[j].data \/ j \in m2
    BY DEF FileRows
  <2>1. ToSqlite(j) # ToSqlite(D) /\ j # D
    BY Keys
  <2>2. s.rows[ToSqlite(j)] = b.rows[ToSqlite(j)] /\ ToSqlite(j) \in DOMAIN b.rows
    BY <2>1, <1>1
  <2> QED BY <2>1, <2>2 DEF Truthful, FileRows
<1>3. DirRow(s, m2, k, t)
  BY <1>1 DEF DirRow
<1>4. LinkRow(s, v, k, t)
  BY <1>1 DEF Truthful, LinkRow
<1> QED BY <1>1, <1>2, <1>3, <1>4 DEF Truthful, s

LEMMA TruthLink ==
    ASSUME NEW b, NEW m, NEW v, NEW k, NEW t, NEW i, NEW meta, NEW v2,
           Truthful(b, m, v, k, t), v2 = None \/ Tells(meta, v2, k, t)
    PROVE  /\ Truthful(SaveLink(b, Path, i, meta), m, v2, k, t)
           /\ Truthful(RemoveLink(b, Path), m, v2, k, t)
BY LinkFields DEF Truthful, FileRows, DirRow, LinkRow

(* What is left of the doubts when rows go, and when others are written    *)
(* to the disk. *)
LEMMA TruthLess ==
    ASSUME NEW b, NEW m, NEW v, NEW k, NEW t, NEW gone, NEW count, NEW m2,
           Truthful(b, m, v, k, t)
    PROVE  /\ {i \in m : ToSqlite(i) \in DOMAIN Vacuumed(b, gone).rows} \subseteq m2
              => Truthful(Vacuumed(b, gone), m2, v, k, t)
           /\ {i \in m : ToSqlite(i) \in DOMAIN b.rows} \subseteq m2
              => Truthful(Committed(b, count), m2, v, k, t)
<1> DEFINE less == Vacuumed(b, gone)
           same == Committed(b, count)
<1>1. /\ {"rows", "links"} \subseteq DOMAIN less /\ less.links = b.links
      /\ DOMAIN less.rows \subseteq DOMAIN b.rows
      /\ \A key \in DOMAIN less.rows : less.rows[key] = b.rows[key]
  BY DEF Truthful, Vacuumed, Without
<1>2. /\ {"rows", "links"} \subseteq DOMAIN same /\ same.links = b.links /\ same.rows = b.rows
  BY DEF Truthful, Committed
<1> HIDE DEF less, same
<1>3. {i \in m : ToSqlite(i) \in DOMAIN less.rows} \subseteq m2
      => Truthful(less, m2, v, k, t)
  BY <1>1 DEF Truthful, FileRows, DirRow, LinkRow
<1>4. {i \in m : ToSqlite(i) \in DOMAIN b.rows} \subseteq m2
      => Truthful(same, m2, v, k, t)
  BY <1>2 DEF Truthful, FileRows, DirRow, LinkRow
<1> QED BY <1>3, <1>4 DEF less, same

--------------------------------------------------------------------------------
(***************************************************************************)
(* The files and the database of LocalData.                                *)
(***************************************************************************)
LEMMA OnDisk ==
    ASSUME FilesKnown
    PROVE  /\ \A n \in DOMAIN ws : ws[n] \in DOMAIN disk /\ ws[n] \in FileInode /\ ws[n] # D
           /\ \A c \in DOMAIN objs : objs[c] \in DOMAIN disk /\ objs[c] # D
           /\ \A n \in DOMAIN ws : Meta(ws[n]) = disk[ws[n]].mtime
                                   /\ Actual(ws[n]) = disk[ws[n]].data
           /\ Meta(D) = [n \in DOMAIN ws |-> disk[ws[n]].mtime]
           /\ Actual(D) = Version
<1>1. /\ \A n \in DOMAIN ws : ws[n] \in DOMAIN disk /\ ws[n] \in FileInode /\ ws[n] # D
      /\ \A c \in DOMAIN objs : objs[c] \in DOMAIN disk /\ objs[c] # D
  BY Keys DEF FilesKnown, Inodes
<1> QED BY <1>1 DEF Meta, MetaIn, Actual

LEMMA VersionTells == ASSUME FilesKnown PROVE Tells(Meta(D), Version, disk, clock)
<1>1. /\ \A n \in DOMAIN ws : ws[n] \in DOMAIN disk
      /\ Meta(D) = [n \in DOMAIN ws |-> disk[ws[n]].mtime]
  BY OnDisk
<1> QED BY <1>1 DEF Tells, Version, FilesKnown

LEMMA TellsVersion ==
    ASSUME FilesKnown, NEW v, Tells(Meta(D), v, disk, clock)
    PROVE  v = Version
<1>1. /\ \A n \in DOMAIN ws : ws[n] \in DOMAIN disk
      /\ Meta(D) = [n \in DOMAIN ws |-> disk[ws[n]].mtime]
  BY OnDisk
<1>2. /\ v = [n \in DOMAIN ws |-> v[n]]
      /\ \A n \in DOMAIN ws : v[n] = disk[ws[n]].data
  BY <1>1 DEF Tells
<1> QED BY <1>2 DEF Version

(* What a row says of a file or of the directory as it is.                 *)
LEMMA RowsTrue ==
    ASSUME FilesKnown, NEW b, NEW m, NEW v, Truthful(b, m, v, disk, clock)
    PROVE  /\ \A n \in DOMAIN ws :
                Get(b, ws[n], Meta(ws[n])) \in {NoHash, Actual(ws[n])} \/ ws[n] \in m
           /\ Get(b, D, Meta(D)) \in {NoHash, Version} \/ D \in m
<1>1. \A n \in DOMAIN ws : /\ ws[n] \in DOMAIN disk /\ ws[n] \in FileInode
                           /\ Meta(ws[n]) = disk[ws[n]].mtime
                           /\ Actual(ws[n]) = disk[ws[n]].data
  BY OnDisk
<1>2. \A n \in DOMAIN ws :
         Get(b, ws[n], Meta(ws[n])) \in {NoHash, Actual(ws[n])} \/ ws[n] \in m
  BY <1>1 DEF Truthful, FileRows, Get
<1>3. Get(b, D, Meta(D)) \in {NoHash, Version} \/ D \in m
  BY TellsVersion DEF Truthful, DirRow, Get
<1> QED BY <1>2, <1>3

(* A hash that is taken of a file is that of its content, or its row is in *)
(* doubt; the same for the directory. *)
LEMMA Hashes ==
    ASSUME FilesKnown, DbTrue
    PROVE  /\ \A n \in DOMAIN ws :
                \/ HashOf(n) = disk[ws[n]].data
                \/ ws[n] \in doubt /\ Lookup(ws[n]) = HashOf(n)
           /\ Lookup(D) \in {NoHash, Version} \/ D \in doubt
BY RowsTrue, OnDisk DEF DbTrue, HashOf, Lookup

LEMMA KnownMoves ==
    ASSUME FilesKnown, NEW i, Moves(disk, clock, disk', clock', i),
           DOMAIN disk' = Inodes(ws', objs'), DOMAIN disk' \subseteq FileInode
    PROVE  FilesKnown'
<1>1. /\ clock' \in Nat
      /\ \A j \in DOMAIN disk' :
            DOMAIN disk'[j] = {"mtime", "data", "ro"} /\ disk'[j].mtime \in 0..clock'
  BY DEF FilesKnown, Moves
<1>2. ASSUME NEW j \in DOMAIN disk', NEW k \in DOMAIN disk', disk'[j].mtime = disk'[k].mtime
      PROVE  j = k
  BY <1>2 DEF FilesKnown, Moves
<1> QED BY <1>1, <1>2 DEF FilesKnown

(* Files may go, and names change. *)
LEMMA KnownFewer ==
    ASSUME FilesKnown, NEW w, NEW o, Files(disk, w, o), Inodes(w, o) \subseteq DOMAIN disk,
           clock' = clock, NEW b, NEW m, NEW v, Truthful(b, m, v, disk, clock)
    PROVE  FilesKnown' /\ Truthful(b, m, v, disk', clock')
<1>1. /\ disk' = [i \in Inodes(w, o) |-> disk[i]] /\ ws' = w /\ objs' = o
      /\ Inodes(w, o) = Inodes(ws', objs')
  BY DEF Disk, Files
<1>2. Moves(disk, clock, disk', clock', D)
  BY <1>1 DEF Moves, FilesKnown
<1>3. FilesKnown'
  BY <1>1, <1>2, KnownMoves DEF FilesKnown
<1> QED BY <1>2, <1>3, TruthMoves

(* A step of the user: all that a command knows is in doubt.               *)
LEMMA UserStride ==
    ASSUME InStride, op' = op, db' = db, record' = record,
           IF op = Idle THEN doubt' = doubt ELSE D \in doubt'
    PROVE  InStride'
<1>1. op = Idle => op.pc = "none"
  BY DEF Idle
<1> QED BY <1>1 DEF InStride

(* Nor does a command start from anything. *)
LEMMA IdleStride == ASSUME op' = Idle, db' = EmptyDb, doubt' = {} PROVE InStride'
BY DEF InStride, Idle

Core == FilesKnown /\ DbTrue /\ StoredTrue /\ InStride

IInv == Core /\ Listings

LEMMA NewInodeIsNew ==
    ASSUME NEW w, NEW o, FileInode \ Inodes(w, o) # {}
    PROVE  NewInode(w, o) \in FileInode \ Inodes(w, o)
BY DEF NewInode

(* What the user does in the open. *)
LEMMA UserOpen ==
    ASSUME IInv, NEW i, NEW touched, D \in touched, User(touched, FALSE),
           Moves(disk, clock, disk', clock', i),
           DOMAIN disk' = Inodes(ws', objs'), DOMAIN disk' \subseteq FileInode
    PROVE  Core'
<1>1. /\ db' = db /\ stored' = stored /\ op' = op /\ record' = record
      /\ blind' = blind /\ ours' = ours /\ laid' = laid /\ doubt \subseteq doubt'
      /\ IF op = Idle THEN doubt' = doubt ELSE D \in doubt'
  BY DEF User
<1>2. FilesKnown'
  BY KnownMoves DEF IInv, Core
<1>3. Truthful(db, doubt, laid, disk', clock') /\ Truthful(stored, blind, ours, disk', clock')
  BY TruthMoves DEF IInv, Core, DbTrue, StoredTrue
<1>4. Truthful(db, doubt', laid, disk', clock')
  BY <1>1, <1>3, TruthWider
<1>5. InStride'
  BY <1>1, UserStride DEF IInv, Core
<1> QED BY <1>1, <1>2, <1>3, <1>4, <1>5 DEF IInv, Core, DbTrue, StoredTrue

LEMMA WriteInPlaceOK == IInv /\ WriteInPlace => Core'
<1> SUFFICES ASSUME IInv, WriteInPlace PROVE Core'
  OBVIOUS
<1> USE DEF IInv, Core
<1>1. PICK n \in DOMAIN ws, c \in Content, quiet \in BOOLEAN :
        /\ clock' = IF quiet THEN clock ELSE clock + 1
        /\ Disk([disk EXCEPT ![ws[n]].data = c,
                             ![ws[n]].mtime = IF quiet THEN @ ELSE clock'], ws, objs)
        /\ User({ws[n], D}, quiet)
  BY DEF WriteInPlace
<1>2. PICK i : i = ws[n]
  OBVIOUS
<1>3. i \in DOMAIN disk /\ Inodes(ws, objs) = DOMAIN disk /\ ws' = ws /\ objs' = objs
  BY <1>1, <1>2, OnDisk DEF FilesKnown, Disk, Files
<1>4. /\ DOMAIN disk' = DOMAIN disk
      /\ \A j \in DOMAIN disk : j # i => disk'[j] = disk[j]
      /\ disk'[i].mtime = IF quiet THEN disk[i].mtime ELSE clock'
      /\ DOMAIN disk'[i] = {"mtime", "data", "ro"}
  <2> DEFINE d == [disk EXCEPT ![i].data = c, ![i].mtime = IF quiet THEN @ ELSE clock']
  <2>1. disk' = [j \in DOMAIN disk |-> d[j]]
    BY <1>1, <1>2, <1>3 DEF Disk, Files
  <2>2. DOMAIN d = DOMAIN disk /\ \A j \in DOMAIN disk : j # i => d[j] = disk[j]
    OBVIOUS
  <2>3. /\ d[i].mtime = IF quiet THEN disk[i].mtime ELSE clock'
        /\ DOMAIN d[i] = {"mtime", "data", "ro"}
    BY <1>3 DEF FilesKnown
  <2> HIDE DEF d
  <2> QED BY <1>3, <2>1, <2>2, <2>3
<1>5. CASE ~quiet
  <2>1. Moves(disk, clock, disk', clock', i)
    BY <1>1, <1>4, <1>5 DEF Moves, FilesKnown
  <2>2. quiet = FALSE
    BY <1>5, Zenon
  <2>3. User({ws[n], D}, FALSE)
    BY <1>1, <2>2, Zenon
  <2>4. DOMAIN disk' = Inodes(ws', objs') /\ DOMAIN disk' \subseteq FileInode
    BY <1>3, <1>4 DEF FilesKnown
  <2> QED BY <2>1, <2>3, <2>4, UserOpen
<1>6. CASE quiet
  <2>1. clock' = clock /\ \A j \in DOMAIN disk' :
           j \in DOMAIN disk /\ disk'[j].mtime = disk[j].mtime /\ (j # i => disk'[j].data = disk[j].data)
    BY <1>1, <1>4, <1>6
  <2>2. FilesKnown'
    BY <1>3, <1>4, <2>1 DEF FilesKnown
  <2>3. /\ Truthful(db, doubt \cup {i, D}, None, disk', clock')
        /\ Truthful(stored, blind \cup {i, D}, None, disk', clock')
    BY <2>1, TruthQuiet DEF DbTrue, StoredTrue
  <2>4. /\ db' = db /\ stored' = stored /\ op' = op /\ record' = record
        /\ blind' = blind \cup {i, D} /\ ours' = None /\ laid' = None
        /\ IF op = Idle THEN doubt' = doubt ELSE doubt' = doubt \cup {i, D}
    BY <1>1, <1>2, <1>6 DEF User
  <2>5. InStride'
    BY <2>4, UserStride
  <2>6. DbTrue'
    <3>1. CASE op # Idle
      BY <3>1, <2>3, <2>4 DEF DbTrue
    <3>2. CASE op = Idle
      BY <3>2, <2>4, EmptyTruth DEF DbTrue, InStride
    <3> QED BY <3>1, <3>2
  <2> QED BY <2>2, <2>3, <2>4, <2>5, <2>6 DEF StoredTrue
<1> QED BY <1>5, <1>6

LEMMA WriteNewOK == IInv /\ WriteNew => Core'
<1> SUFFICES ASSUME IInv, WriteNew PROVE Core'
  OBVIOUS
<1> USE DEF IInv, Core
<1>1. PICK n \in Name, c \in Content :
        /\ Disk(Override(disk, NewInode(ws, objs), [mtime |-> clock', data |-> c, ro |-> FALSE]),
                Override(ws, n, NewInode(ws, objs)), objs)
        /\ User({NewInode(ws, objs), D}, FALSE)
  BY DEF WriteNew
<1>2. PICK i : i = NewInode(ws, objs)
  OBVIOUS
<1>3. i \in FileInode \ DOMAIN disk /\ clock' = clock + 1
  BY <1>2, NewInodeIsNew DEF WriteNew, FilesKnown
<1> DEFINE w == Override(ws, n, i)
           d == Override(disk, i, [mtime |-> clock', data |-> c, ro |-> FALSE])
<1>4. Inodes(w, objs) \subseteq DOMAIN disk \cup {i}
  BY DEF Override, Inodes, FilesKnown
<1>5. /\ \A j \in DOMAIN disk : j # i => d[j] = disk[j]
      /\ d[i].mtime = clock' /\ DOMAIN d[i] = {"mtime", "data", "ro"}
  BY DEF Override
<1>6. /\ disk' = [j \in Inodes(w, objs) |-> d[j]]
      /\ DOMAIN disk' = Inodes(ws', objs') /\ DOMAIN disk' \subseteq FileInode
  <2>1. disk' = [j \in Inodes(w, objs) |-> d[j]] /\ ws' = w /\ objs' = objs
    BY <1>1, <1>2 DEF Disk, Files
  <2> HIDE DEF w, d
  <2> QED BY <2>1, <1>3, <1>4 DEF FilesKnown
<1>7. Moves(disk, clock, disk', clock', i)
  <2> HIDE DEF w, d
  <2> QED BY <1>3, <1>4, <1>5, <1>6 DEF Moves, FilesKnown
<1>8. User({i, D}, FALSE)
  BY <1>1, <1>2, Zenon
<1> QED BY <1>6, <1>7, <1>8, UserOpen

LEMMA DeleteRenameOK == IInv /\ (Delete \/ Rename) => Core'
<1> SUFFICES ASSUME IInv, Delete \/ Rename PROVE Core'
  OBVIOUS
<1>1. PICK w : Inodes(w, objs) \subseteq DOMAIN disk /\ Disk(disk, w, objs)
  <2>1. CASE Delete
    <3>1. \A n : Inodes(Without(ws, {n}), objs) \subseteq DOMAIN disk
      BY DEF IInv, Core, FilesKnown, Inodes, Without
    <3> QED BY <2>1, <3>1 DEF Delete
  <2>2. CASE Rename
    <3>1. PICK m \in DOMAIN ws, n \in DOMAIN ws :
             Disk(disk, [ws EXCEPT ![m] = ws[n], ![n] = ws[m]], objs)
      BY <2>2 DEF Rename
    <3>2. Inodes([ws EXCEPT ![m] = ws[n], ![n] = ws[m]], objs) \subseteq DOMAIN disk
      BY DEF IInv, Core, FilesKnown, Inodes
    <3> QED BY <3>1, <3>2
  <2> QED BY <2>1, <2>2
<1>2. User({D}, FALSE) /\ clock' = clock
  BY DEF Delete, Rename
<1>3. DOMAIN disk' = Inodes(ws', objs') /\ DOMAIN disk' \subseteq FileInode
  BY <1>1 DEF Disk, Files, IInv, Core, FilesKnown
<1>4. Moves(disk, clock, disk', clock', D)
  BY <1>1, <1>2 DEF Disk, Files, Moves, IInv, Core, FilesKnown
<1> QED BY <1>2, <1>3, <1>4, UserOpen

--------------------------------------------------------------------------------
(* Steps that leave the files alone. *)
LEMMA SameFiles ==
    ASSUME IInv, UNCHANGED <<clock, disk, ws, objs>>
    PROVE  FilesKnown' /\ Version' = Version /\ Meta(D)' = Meta(D)
           /\ \A n \in DOMAIN ws : Meta(ws[n])' = Meta(ws[n])
BY DEF IInv, Core, FilesKnown, Version, Meta, MetaIn

LEMMA SwitchOK == IInv /\ (GitSwitch \/ LoseDb) => Core'
<1> SUFFICES ASSUME IInv, GitSwitch \/ LoseDb PROVE Core'
  OBVIOUS
<1>1. /\ UNCHANGED <<clock, disk, ws, objs, op, db, doubt, laid>>
      /\ op = Idle
      /\ UNCHANGED <<stored, blind, ours>> \/ stored' = EmptyDb
  BY DEF GitSwitch, LoseDb, fs
<1>2. FilesKnown' /\ InStride'
  BY <1>1, SameFiles, IdleStride DEF IInv, Core, InStride
<1>3. DbTrue' /\ StoredTrue'
  BY <1>1, EmptyTruth DEF IInv, Core, DbTrue, StoredTrue
<1> QED BY <1>2, <1>3 DEF IInv, Core

LEMMA GcOK == IInv /\ Gc => Core'
<1> SUFFICES ASSUME IInv, Gc PROVE Core'
  OBVIOUS
<1> DEFINE left == [c \in DOMAIN objs \cap Used |-> objs[c]]
<1>1. /\ Files(disk, ws, left) /\ clock' = clock
      /\ UNCHANGED <<op, db, doubt, laid, stored, blind, ours>> /\ op = Idle
  BY DEF Gc, MayStart
<1>2. Inodes(ws, left) \subseteq DOMAIN disk
  BY DEF IInv, Core, FilesKnown, Inodes
<1> HIDE DEF left
<1>3. FilesKnown' /\ Truthful(stored, blind, ours, disk', clock')
  BY <1>1, <1>2, KnownFewer DEF IInv, Core, StoredTrue
<1>4. DbTrue' /\ InStride'
  BY <1>1, EmptyTruth, IdleStride DEF IInv, Core, InStride, DbTrue
<1> QED BY <1>1, <1>3, <1>4 DEF IInv, Core, StoredTrue

(* A command that has loaded the database. *)
Loaded ==
    /\ op = Idle /\ Load /\ "pc" \in DOMAIN op'
    /\ UNCHANGED <<stored, blind, ours, record>>
    /\ \/ op'.pc = "merged" /\ op'.cmd = "merge"
       \/ /\ DOMAIN op' = DOMAIN Idle
          /\ \/ op'.pc = "hash"
             \/ op'.pc = "dump" /\ op'.result = "failed"
             \/ op'.pc = "unlink" /\ op'.cmd = "unlink"
             \/ op'.pc = "files" /\ op'.v = record /\ op'.todo = DOMAIN op'.v

LEMMA LoadedOK ==
    ASSUME IInv, Loaded, FilesKnown', Truthful(stored, blind, ours, disk', clock')
    PROVE  Core'
<1>1. DbTrue' /\ StoredTrue'
  BY DEF Loaded, Load, DbTrue, StoredTrue
<1>2. op' # Idle
  BY DEF Loaded, Idle
<1>3. InStride'
  BY <1>2 DEF Loaded, InStride
<1> QED BY <1>1, <1>3 DEF IInv, Core

LEMMA StartOK ==
    ASSUME IInv,
           \/ \E cmd \in {"status", "add", "checkout"}, forced \in BOOLEAN : Start(cmd, forced)
           \/ StartCheckout \/ MergeDriver
    PROVE  Core'
<1>1. UNCHANGED <<clock, disk, ws, objs, stored, blind, ours, record>>
  BY DEF Start, StartCheckout, MergeDriver, fs
<1>2. Loaded
  <2>1. CASE \E cmd \in {"status", "add", "checkout"}, forced \in BOOLEAN : Start(cmd, forced)
    BY <1>1, <2>1 DEF Start, MayStart, Loaded, Idle
  <2>2. CASE StartCheckout
    <3>1. CASE InCache(record)
      BY <1>1, <2>2, <3>1 DEF StartCheckout, MayStart, Loaded, Idle
    <3>2. CASE ~InCache(record)
      BY <1>1, <2>2, <3>2 DEF StartCheckout, MayStart, Loaded, Idle
    <3> QED BY <3>1, <3>2
  <2>3. CASE MergeDriver
    BY <1>1, <2>3 DEF MergeDriver, MayStart, Loaded
  <2> QED BY <2>1, <2>2, <2>3
<1>3. FilesKnown' /\ Truthful(stored, blind, ours, disk', clock')
  BY <1>1, SameFiles DEF IInv, Core, StoredTrue
<1> QED BY <1>2, <1>3, LoadedOK

(* All the files are removed at once. *)
LEMMA StartRemoveOK == ASSUME IInv, RemoveUnused \/ MissingForced PROVE Core'
<1>1. /\ Disk(disk, Empty, objs) /\ clock' = clock
      /\ UNCHANGED <<stored, blind, ours, record>>
  BY DEF RemoveUnused, MissingForced
<1>2. Inodes(Empty, objs) \subseteq DOMAIN disk
  BY DEF IInv, Core, FilesKnown, Inodes, Empty
<1>3. FilesKnown' /\ Truthful(stored, blind, ours, disk', clock')
  BY <1>1, <1>2, KnownFewer DEF IInv, Core, StoredTrue, Disk
<1>4. Loaded
  BY <1>1 DEF RemoveUnused, MissingForced, MayStart, Loaded, Idle
<1> QED BY <1>3, <1>4, LoadedOK

--------------------------------------------------------------------------------
(* The end of a command, with what is committed. *)
LEMMA EndOK == ASSUME IInv, Dump \/ CleanUp \/ Count \/ Crash PROVE Core'
<1>1. UNCHANGED <<clock, disk, ws, objs, record>>
  BY DEF Dump, CleanUp, Count, Crash, Die, fs
<1>2. FilesKnown'
  BY <1>1, SameFiles
<1>3. CASE Crash
  <2>1. op' = Idle /\ db' = EmptyDb /\ doubt' = {} /\ UNCHANGED <<stored, blind, ours>>
    BY <1>3 DEF Crash, Die
  <2> QED BY <1>1, <1>2, <2>1, IdleStride, EmptyTruth DEF IInv, Core, DbTrue, StoredTrue
<1>4. CASE Dump \/ Count
  <2>1. /\ op' = Idle /\ db' = EmptyDb /\ doubt' = {} /\ ours' = laid /\ blind' = Blind(db)
        /\ stored' \in {Committed(db, Counted(db)), Committed(db, Cardinality(DOMAIN db.rows))}
    BY <1>4 DEF Dump, Count
  <2>2. \A count : Truthful(Committed(db, count), Blind(db), laid, disk, clock)
    BY TruthLess DEF IInv, Core, DbTrue, Blind
  <2>3. DbTrue' /\ StoredTrue'
    BY <1>1, <2>1, <2>2, EmptyTruth DEF DbTrue, StoredTrue
  <2> QED BY <1>2, <2>1, <2>3, IdleStride DEF IInv, Core
<1>5. CASE CleanUp
  <2>1. /\ \E gone : db' = Vacuumed(db, gone)
        /\ stored' = db' /\ blind' = Blind(db') /\ ours' = laid
        /\ op.pc = "dump" /\ op' = [op EXCEPT !.pc = "count"] /\ UNCHANGED <<laid, doubt>>
    BY <1>5 DEF CleanUp, Goto
  <2>2. PICK gone : db' = Vacuumed(db, gone)
    BY <2>1
  <2>3. /\ Truthful(db', doubt, laid, disk, clock)
        /\ Truthful(db', Blind(db'), laid, disk, clock)
    BY <2>2, TruthLess DEF IInv, Core, DbTrue, Blind
  <2>4. DbTrue' /\ StoredTrue'
    BY <1>1, <2>1, <2>3 DEF DbTrue, StoredTrue
  <2>5. InStride'
    <3>1. op'.pc = "count" /\ DOMAIN op' = DOMAIN Idle
      BY <2>1 DEF IInv, Core, InStride
    <3> QED BY <3>1 DEF InStride, Idle
  <2> QED BY <1>2, <2>4, <2>5 DEF IInv, Core
<1> QED BY <1>3, <1>4, <1>5

(* A crash that takes a file away. *)
LEMMA MoveCutShortOK == ASSUME IInv, MoveCutShort PROVE Core'
<1>1. PICK n \in DOMAIN ws : Files(Protect(disk, ws[n]), Without(ws, {n}), objs)
  BY DEF MoveCutShort
<1>2. /\ op' = Idle /\ db' = EmptyDb /\ doubt' = {} /\ clock' = clock
      /\ UNCHANGED <<stored, blind, ours>>
  BY DEF MoveCutShort, Die
<1>3. Inodes(Without(ws, {n}), objs) \subseteq DOMAIN disk
  BY DEF IInv, Core, FilesKnown, Inodes, Without
<1>4. /\ Inodes(Without(ws, {n}), objs) = Inodes(ws', objs') /\ DOMAIN disk' = Inodes(ws', objs')
      /\ \A i \in DOMAIN disk' : disk'[i] = Protect(disk, ws[n])[i]
  BY <1>1 DEF Files
<1>5. Moves(disk, clock, disk', clock', D)
  BY <1>2, <1>3, <1>4 DEF Moves, Protect, IInv, Core, FilesKnown
<1>6. FilesKnown'
  BY <1>3, <1>4, <1>5, KnownMoves DEF IInv, Core, FilesKnown
<1>7. DbTrue' /\ StoredTrue'
  BY <1>2, <1>5, EmptyTruth, TruthMoves DEF IInv, Core, DbTrue, StoredTrue
<1> QED BY <1>2, <1>6, <1>7, IdleStride DEF Core

(* In the middle of a command. *)
Busy == UNCHANGED <<stored, blind, ours>> /\ op.pc # "none" /\ op.pc # "merged"

LEMMA BusyOp == ASSUME IInv, Busy PROVE DOMAIN op = DOMAIN Idle /\ "pc" \in DOMAIN op
BY DEF IInv, Core, InStride, Busy

LEMMA StoredOK ==
    ASSUME IInv, NEW i, UNCHANGED <<stored, blind, ours>>,
           Moves(disk, clock, disk', clock', i) \/ UNCHANGED <<disk, clock>>
    PROVE  StoredTrue'
BY TruthMoves DEF IInv, Core, StoredTrue

(* A command that comes to its end. *)
LEMMA FinishStride ==
    ASSUME IInv, Busy, NEW r, Finish(r),
           r # "ok" \/ op.cmd # "checkout"
             \/ Version' = record' \/ doubt' \cap (Range(ws') \cup {D}) # {}
    PROVE  InStride'
<1>1. /\ DOMAIN op' = DOMAIN Idle /\ op'.pc = "dump" /\ op'.result = r /\ op'.cmd = op.cmd
      /\ "pc" \in DOMAIN op'
  BY BusyOp DEF Finish, Idle
<1>2. op' # Idle
  BY <1>1 DEF Idle
<1> QED BY <1>1, <1>2 DEF InStride

LEMMA HashedStride ==
    ASSUME IInv, Busy, NEW v, Hashed(v), v = Version' \/ D \in doubt'
    PROVE  InStride'
<1>1. DOMAIN op = DOMAIN Idle
  BY BusyOp
<1>2. CASE op.cmd = "status" /\ Finish("ok")
  BY <1>2, FinishStride
<1>3. CASE op.cmd = "add" /\ op' = [op EXCEPT !.v = v, !.pc = "commit", !.todo = DOMAIN v]
  <2>1. /\ DOMAIN op' = DOMAIN Idle /\ op'.pc = "commit" /\ op'.v = v /\ op'.cmd = "add"
        /\ "pc" \in DOMAIN op'
    BY <1>1, <1>3 DEF Idle
  <2> QED BY <2>1 DEF InStride, Idle
<1>4. CASE op.cmd = "checkout" /\ op' = [op EXCEPT !.v = v, !.pc = "compare"]
  <2>1. /\ DOMAIN op' = DOMAIN Idle /\ op'.pc = "compare" /\ op'.v = v
        /\ "pc" \in DOMAIN op'
    BY <1>1, <1>4 DEF Idle
  <2> QED BY <2>1 DEF InStride, Idle
<1> QED BY <1>2, <1>3, <1>4 DEF Hashed

LEMMA HashOK == ASSUME IInv, Hash PROVE Core'
<1>1. /\ UNCHANGED <<clock, disk, ws, objs, record, db, doubt, laid>> /\ Busy
  BY DEF Hash, fs, Busy
<1>2. FilesKnown' /\ Version' = Version
  BY <1>1, SameFiles
<1>3. DbTrue' /\ StoredTrue'
  BY <1>1 DEF IInv, Core, DbTrue, StoredTrue, Busy
<1>4. CASE Lookup(D) # NoHash /\ Hashed(Lookup(D))
  <2>1. Lookup(D) = Version \/ D \in doubt
    BY <1>4, Hashes DEF IInv, Core
  <2>2. InStride'
    BY <1>1, <1>2, <1>4, <2>1, HashedStride
  <2> QED BY <1>2, <1>3, <2>2 DEF IInv, Core
<1>5. CASE op' = [op EXCEPT !.v = [n \in DOMAIN ws |-> HashOf(n)], !.pc = "save"]
  <2> DEFINE v == [n \in DOMAIN ws |-> HashOf(n)]
  <2>1. v = Version \/ doubt \cap (Range(ws) \cup {D}) # {}
    <3>1. CASE \A n \in DOMAIN ws : HashOf(n) = disk[ws[n]].data
      BY <3>1 DEF Version
    <3>2. CASE \E n \in DOMAIN ws : HashOf(n) # disk[ws[n]].data
      BY <3>2, Hashes DEF IInv, Core, Range
    <3> QED BY <3>1, <3>2
  <2> HIDE DEF v
  <2>2. DOMAIN op' = DOMAIN Idle /\ op'.pc = "save" /\ op'.v = v /\ "pc" \in DOMAIN op'
    BY <1>1, <1>5, BusyOp DEF Idle, v
  <2>3. InStride'
    BY <1>1, <1>2, <2>1, <2>2 DEF InStride, Idle
  <2> QED BY <1>2, <1>3, <2>3 DEF IInv, Core
<1> QED BY <1>4, <1>5 DEF Hash

(* The row of the directory gets the version that the command has in mind. *)
LEMMA SaveDirHashOK == ASSUME IInv, SaveDirHash PROVE Core'
<1>1. UNCHANGED <<clock, disk, ws, objs, record, laid>> /\ Busy /\ op.pc = "save"
  BY DEF SaveDirHash, Busy
<1>2. /\ db' = SaveRow(db, D, Meta(D), op.v) /\ Hashed(op.v)
      /\ doubt' = IF op.v = Version THEN doubt \ {D}
                  ELSE IF doubt \cap (Range(ws) \cup {D}) = {} THEN doubt ELSE doubt \cup {D}
  BY OnDisk DEF SaveDirHash, SaveHash, IInv, Core
<1>3. op.v = Version \/ D \in doubt'
  BY <1>1, <1>2 DEF IInv, Core, InStride
<1>4. FilesKnown' /\ Version' = Version
  BY <1>1, SameFiles
<1>5. Truthful(SaveRow(db, D, Meta(D), op.v), doubt', laid, disk, clock)
  <2>1. Tells(Meta(D), op.v, disk, clock) \/ D \in doubt'
    BY <1>3, VersionTells DEF IInv, Core
  <2>2. doubt \ {D} \subseteq doubt'
    BY <1>2
  <2> QED BY <2>1, <2>2, TruthDirRow DEF IInv, Core, DbTrue
<1>6. DbTrue' /\ StoredTrue'
  BY <1>1, <1>2, <1>5 DEF DbTrue, StoredTrue, IInv, Core, Busy
<1>7. InStride'
  BY <1>1, <1>2, <1>3, <1>4, HashedStride
<1> QED BY <1>4, <1>6, <1>7 DEF IInv, Core

(* The link and the row of the directory, which end add and checkout.      *)
LEMMA LinkDirTrue ==
    ASSUME IInv, NEW v, LinkDir(v),
           v = Version \/ doubt \cap (Range(ws) \cup {D}) # {},
           UNCHANGED <<clock, disk, ws, objs, stored, blind, ours>>
    PROVE  /\ FilesKnown' /\ DbTrue' /\ StoredTrue' /\ Version' = Version
           /\ v = Version \/ D \in doubt'
<1>1. /\ db' = SaveRow(SaveLink(db, Path, D, Meta(D)), D, Meta(D), v)
      /\ doubt' = IF v = Version THEN doubt \ {D}
                  ELSE IF doubt \cap (Range(ws) \cup {D}) = {} THEN doubt ELSE doubt \cup {D}
      /\ laid' = IF D \in doubt' THEN None ELSE v
  BY DEF LinkDir
<1>2. v = Version \/ D \in doubt'
  BY <1>1
<1>3. /\ Tells(Meta(D), v, disk, clock) \/ D \in doubt'
      /\ laid' = None \/ Tells(Meta(D), laid', disk, clock)
  BY <1>1, <1>2, VersionTells DEF IInv, Core
<1>4. Truthful(SaveLink(db, Path, D, Meta(D)), doubt, laid', disk, clock)
  BY <1>3, TruthLink DEF IInv, Core, DbTrue
<1>5. doubt \ {D} \subseteq doubt'
  BY <1>1
<1>6. Truthful(db', doubt', laid', disk, clock)
  BY <1>1, <1>3, <1>4, <1>5, TruthDirRow
<1>7. FilesKnown' /\ Version' = Version
  BY SameFiles
<1> QED BY <1>2, <1>6, <1>7 DEF IInv, Core, DbTrue, StoredTrue

LEMMA CommitDirOK == ASSUME IInv, CommitDir PROVE Core'
<1>1. /\ UNCHANGED <<clock, disk, ws, objs>> /\ Busy /\ op.pc = "commit" /\ Finish("ok")
      /\ LinkDir(op.v) /\ op.cmd = "add"
  BY DEF CommitDir, fs, Busy, IInv, Core, InStride
<1>2. op.v = Version \/ doubt \cap (Range(ws) \cup {D}) # {}
  BY <1>1 DEF IInv, Core, InStride
<1>3. FilesKnown' /\ DbTrue' /\ StoredTrue'
  BY <1>1, <1>2, LinkDirTrue DEF Busy
<1>4. InStride'
  BY <1>1, FinishStride
<1> QED BY <1>3, <1>4 DEF IInv, Core

(* When every file is settled, and none is left over. *)
LEMMA SettledDir ==
    ASSUME IInv, op.pc = "files", op.todo = {}, Redundant(op.v) = {}
    PROVE  op.v = Version \/ doubt \cap (Range(ws) \cup {D}) # {}
<1>1. CASE D \in doubt
  BY <1>1
<1>2. CASE D \notin doubt
  <2>1. \A n \in DOMAIN op.v : Settled(n)
    BY <1>2 DEF IInv, Core, InStride
  <2>2. DOMAIN op.v = DOMAIN ws
    BY <2>1 DEF Settled, Redundant
  <2>3. CASE \A n \in DOMAIN ws : op.v[n] = disk[ws[n]].data
    BY <2>2, <2>3 DEF Version, IInv, Listings, Mapping, InCache
  <2>4. CASE \E n \in DOMAIN ws : op.v[n] # disk[ws[n]].data
    BY <2>1, <2>2, <2>4 DEF Settled, Range
  <2> QED BY <2>3, <2>4
<1> QED BY <1>1, <1>2

LEMMA CheckoutDirOK == ASSUME IInv, CheckoutDir PROVE Core'
<1>1. /\ UNCHANGED <<clock, disk, ws, objs, record>> /\ Busy /\ Finish("ok")
      /\ LinkDir(op.v) /\ op.v = record
  BY DEF CheckoutDir, fs, Busy, IInv, Core, InStride
<1>2. op.v = Version \/ doubt \cap (Range(ws) \cup {D}) # {}
  BY SettledDir DEF CheckoutDir
<1>3. /\ FilesKnown' /\ DbTrue' /\ StoredTrue' /\ Version' = Version
      /\ op.v = Version \/ D \in doubt'
  BY <1>1, <1>2, LinkDirTrue DEF Busy
<1>4. InStride'
  BY <1>1, <1>3, FinishStride
<1> QED BY <1>3, <1>4 DEF Core

LEMMA QuietOK == ASSUME IInv, CommitFails \/ Compare \/ Merged PROVE Core'
<1>1. /\ UNCHANGED <<clock, disk, ws, objs, db, doubt, laid, stored, blind, ours>>
      /\ op.pc \in {"commit", "compare", "merged"}
  BY DEF CommitFails, Compare, Merged, fs
<1>2. FilesKnown' /\ Version' = Version /\ DbTrue' /\ StoredTrue'
  BY <1>1, SameFiles DEF IInv, Core, DbTrue, StoredTrue
<1>3. InStride'
  <2>1. CASE CommitFails
    BY <2>1, <1>1, FinishStride DEF CommitFails, Busy
  <2>2. CASE Merged
    <3>1. DOMAIN op' = DOMAIN Idle /\ op'.pc = "dump" /\ op'.cmd = "merge" /\ "pc" \in DOMAIN op'
      BY <2>2 DEF Merged, Idle
    <3> QED BY <3>1 DEF InStride, Idle
  <2>3. CASE Compare
    <3>1. /\ op.pc = "compare" /\ record' = record
          /\ op.v = Version \/ D \in doubt
      BY <2>3 DEF Compare, IInv, Core, InStride
    <3>2. CASE op.v = record /\ Finish("ok")
      BY <3>1, <3>2, <1>1, <1>2, FinishStride DEF Busy
    <3>3. CASE op' = [op EXCEPT !.pc = "files", !.v = record, !.todo = DOMAIN record]
      <4>1. /\ DOMAIN op' = DOMAIN Idle /\ "pc" \in DOMAIN op'
            /\ op'.pc = "files" /\ op'.v = record /\ op'.todo = DOMAIN record
        BY <3>1, <3>3, BusyOp, <1>1 DEF Busy, Idle
      <4> QED BY <3>1, <4>1 DEF InStride, Idle
    <3> QED BY <2>3, <3>2, <3>3 DEF Compare
  <2> QED BY <2>1, <2>2, <2>3
<1> QED BY <1>2, <1>3 DEF Core

LEMMA DropLinkOK == ASSUME IInv, DropLink PROVE Core'
<1>1. /\ UNCHANGED <<clock, disk, ws, objs, doubt, laid>> /\ Busy /\ op.cmd = "unlink"
      /\ Finish("ok") /\ db' = RemoveLink(db, Path)
  BY DEF DropLink, fs, Busy, IInv, Core, InStride
<1>2. Truthful(RemoveLink(db, Path), doubt, None, disk, clock)
  BY TruthLink DEF IInv, Core, DbTrue
<1>3. Truthful(RemoveLink(db, Path), doubt, laid, disk, clock)
  BY LinkFields DEF IInv, Core, DbTrue, Truthful, FileRows, DirRow, LinkRow
<1>4. FilesKnown' /\ DbTrue' /\ StoredTrue'
  BY <1>1, <1>3, SameFiles DEF IInv, Core, DbTrue, StoredTrue, Busy
<1>5. InStride'
  BY <1>1, FinishStride
<1> QED BY <1>4, <1>5 DEF Core

LEMMA MissingOK == ASSUME IInv, Missing PROVE Core'
<1>1. /\ UNCHANGED <<db, doubt, laid>> /\ Busy /\ Finish("failed") /\ clock' = clock
      /\ UNCHANGED <<disk, ws, objs>> \/ Disk(disk, Empty, objs)
  BY DEF Missing, Refuse, fs, Busy
<1>2. InStride'
  BY <1>1, FinishStride
<1>3. CASE UNCHANGED <<disk, ws, objs>>
  BY <1>1, <1>2, <1>3, SameFiles DEF IInv, Core, DbTrue, StoredTrue, Busy
<1>4. CASE Disk(disk, Empty, objs)
  <2>1. Inodes(Empty, objs) \subseteq DOMAIN disk
    BY DEF IInv, Core, FilesKnown, Inodes, Empty
  <2>2. /\ FilesKnown'
        /\ Truthful(db, doubt, laid, disk', clock') /\ Truthful(stored, blind, ours, disk', clock')
    BY <1>1, <1>4, <2>1, KnownFewer DEF IInv, Core, DbTrue, StoredTrue, Disk
  <2> QED BY <1>1, <1>2, <2>2 DEF Core, DbTrue, StoredTrue, Busy
<1> QED BY <1>1, <1>3, <1>4

--------------------------------------------------------------------------------
(* The files k, each with its mtime and its content.                       *)
Alike(k, d) ==
    /\ DOMAIN d = DOMAIN k
    /\ \A j \in DOMAIN k : /\ DOMAIN d[j] = {"mtime", "data", "ro"}
                           /\ d[j].mtime = k[j].mtime /\ d[j].data = k[j].data

(* What a link makes of the files: n has the content that the object c     *)
(* has, at its inode i; i is new, or the object's.                         *)
Linked(n, c, w, o, i) ==
    /\ i \in FileInode /\ Moves(disk, clock, disk', clock', i)
    /\ ws' = Override(w, n, i) /\ objs' = o
    /\ DOMAIN disk' = Inodes(ws', objs') /\ DOMAIN disk' \subseteq FileInode
    /\ \A j \in Inodes(Without(w, {n}), o) :
          disk'[j].data = disk[j].data /\ disk'[j].mtime = disk[j].mtime
    /\ disk'[i].data = disk[o[c]].data
    /\ IF hardlinks THEN i = o[c] ELSE i \notin Inodes(Without(w, {n}), o)

LEMMA LinkLinks ==
    ASSUME FilesKnown, NEW b, NEW n, NEW c, NEW d, NEW w, NEW o, Link(b, n, c, d, w, o),
           Alike(disk, d), Inodes(w, o) \subseteq DOMAIN disk, c \in DOMAIN o
    PROVE  \E i : /\ Linked(n, c, w, o, i)
                  /\ db' = SaveRow(b, i, disk'[i].mtime, c)
                  /\ doubt' = IF disk'[i].data # c THEN doubt \cup {i, D}
                              ELSE IF hardlinks /\ i \in doubt THEN (doubt \ {i}) \cup {D}
                              ELSE doubt \ {i}
<1>1. /\ Inodes(Without(w, {n}), o) \subseteq DOMAIN disk /\ DOMAIN disk \subseteq FileInode
      /\ o[c] \in Inodes(Without(w, {n}), o) /\ o[c] \in FileInode
  BY DEF Inodes, Without, FilesKnown
<1> DEFINE l == LinkTo(d, w, o, n, c)
<1>2. /\ Disk(l.disk, l.ws, o)
      /\ db' = SaveRow(b, l.ws[n], l.disk[l.ws[n]].mtime, c)
      /\ doubt' = IF l.disk[l.ws[n]].data # c THEN doubt \cup {l.ws[n], D}
                  ELSE IF hardlinks /\ l.ws[n] \in doubt THEN (doubt \ {l.ws[n]}) \cup {D}
                  ELSE doubt \ {l.ws[n]}
      /\ clock' = IF hardlinks THEN clock ELSE clock + 1
      /\ hardlinks \/ FileInode \ Inodes(Without(w, {n}), o) # {}
  BY DEF Link
<1>3. PICK i : i = IF hardlinks THEN o[c] ELSE NewInode(Without(w, {n}), o)
  OBVIOUS
<1>4. i \in FileInode /\ (~hardlinks => i \notin Inodes(Without(w, {n}), o))
  BY <1>1, <1>2, <1>3, NewInodeIsNew
<1>5. l.ws = Override(w, n, i) /\ l.ws[n] = i
  BY <1>3 DEF LinkTo, Override
<1>6. /\ \A j \in DOMAIN disk : hardlinks \/ j # i => l.disk[j] = d[j]
      /\ ~hardlinks => /\ l.disk[i].mtime = clock + 1 /\ l.disk[i].data = d[o[c]].data
                       /\ DOMAIN l.disk[i] = {"mtime", "data", "ro"}
  <2>1. CASE hardlinks
    BY <2>1 DEF LinkTo
  <2>2. CASE ~hardlinks
    BY <2>2, <1>3 DEF LinkTo, Override, Alike
  <2> QED BY <2>1, <2>2
<1> HIDE DEF l
<1>7. Inodes(l.ws, o) = Inodes(Without(w, {n}), o) \cup {i}
  BY <1>5 DEF Inodes, Override, Without
<1>8. /\ disk' = [j \in Inodes(l.ws, o) |-> l.disk[j]] /\ ws' = l.ws /\ objs' = o
      /\ DOMAIN disk' = Inodes(ws', objs') /\ DOMAIN disk' \subseteq FileInode
  BY <1>1, <1>2, <1>4, <1>7 DEF Disk, Files
<1>9. \A j \in Inodes(Without(w, {n}), o) :
         /\ j \in DOMAIN disk /\ j \in DOMAIN disk' /\ disk'[j] = d[j]
         /\ DOMAIN disk'[j] = {"mtime", "data", "ro"}
         /\ disk'[j].data = disk[j].data /\ disk'[j].mtime = disk[j].mtime
  BY <1>1, <1>4, <1>6, <1>7, <1>8 DEF Alike
<1>10. disk'[i] = l.disk[i] /\ disk'[i].data = disk[o[c]].data
  BY <1>1, <1>3, <1>6, <1>7, <1>8, <1>9 DEF Alike
<1>11. Moves(disk, clock, disk', clock', i)
  <2>1. CASE hardlinks
    BY <2>1, <1>1, <1>2, <1>3, <1>7, <1>8, <1>9 DEF Moves, FilesKnown
  <2>2. CASE ~hardlinks
    BY <2>2, <1>2, <1>6, <1>7, <1>8, <1>9, <1>10 DEF Moves, FilesKnown
  <2> QED BY <2>1, <2>2
<1>12. Linked(n, c, w, o, i)
  BY <1>3, <1>4, <1>5, <1>8, <1>9, <1>10, <1>11 DEF Linked
<1> QED BY <1>2, <1>5, <1>10, <1>12

(* The row of what is linked is true, or in doubt.                         *)
LEMMA LinkTrue ==
    ASSUME FilesKnown, NEW b, NEW n, NEW c, NEW d, NEW w, NEW o, Link(b, n, c, d, w, o),
           Truthful(b, doubt, laid, disk, clock), laid' = laid,
           Alike(disk, d), Inodes(w, o) \subseteq DOMAIN disk, c \in DOMAIN o
    PROVE  /\ FilesKnown' /\ DbTrue'
           /\ \E i : /\ Linked(n, c, w, o, i)
                     /\ db' = SaveRow(b, i, disk'[i].mtime, c)
                     /\ disk'[i].data = c \/ D \in doubt'
                     /\ doubt \ {i} \subseteq doubt'
                     /\ hardlinks /\ i \in doubt => D \in doubt'
<1>1. PICK i : /\ Linked(n, c, w, o, i)
               /\ db' = SaveRow(b, i, disk'[i].mtime, c)
               /\ doubt' = IF disk'[i].data # c THEN doubt \cup {i, D}
                           ELSE IF hardlinks /\ i \in doubt THEN (doubt \ {i}) \cup {D}
                           ELSE doubt \ {i}
  BY LinkLinks
<1>2. FilesKnown'
  BY <1>1, KnownMoves DEF Linked
<1>3. Truthful(b, doubt, laid, disk', clock')
  BY <1>1, TruthMoves DEF Linked
<1>4. i \in DOMAIN disk' /\ disk'[i].mtime \in 0..clock'
  BY <1>1, <1>2 DEF Linked, FilesKnown, Inodes, Override
<1>5. /\ disk'[i].data = c \/ {i, D} \subseteq doubt'
      /\ doubt \ {i} \subseteq doubt'
      /\ hardlinks /\ i \in doubt => D \in doubt'
  BY <1>1
<1>6. Truthful(SaveRow(b, i, disk'[i].mtime, c), doubt', laid, disk', clock')
  BY <1>1, <1>3, <1>4, <1>5, TruthFileRow DEF Linked
<1>7. DbTrue'
  BY <1>1, <1>6 DEF DbTrue
<1> QED BY <1>1, <1>2, <1>5, <1>7

(* The other names keep their contents. *)
OthersStay(n, i) ==
    /\ DOMAIN ws' = DOMAIN ws \cup {n} /\ ws'[n] = i
    /\ \A m \in DOMAIN ws : m # n =>
          /\ ws'[m] = ws[m] /\ (~hardlinks => ws[m] # i)
          /\ disk'[ws[m]].data = disk[ws[m]].data
          /\ disk'[ws[m]].mtime = disk[ws[m]].mtime

LEMMA LinkedAlone ==
    ASSUME NEW n, NEW c, NEW w, NEW o, NEW i, Linked(n, c, w, o, i),
           Without(w, {n}) = Without(ws, {n})
    PROVE  OthersStay(n, i)
<1>1. /\ DOMAIN w \cup {n} = DOMAIN ws \cup {n}
      /\ \A m \in DOMAIN ws : m # n => w[m] = ws[m]
  <2>1. DOMAIN Without(w, {n}) = DOMAIN w \ {n} /\ DOMAIN Without(ws, {n}) = DOMAIN ws \ {n}
    BY DEF Without
  <2>2. \A m \in DOMAIN ws : m # n => Without(ws, {n})[m] = ws[m] /\ Without(w, {n})[m] = w[m]
    BY <2>1 DEF Without
  <2> QED BY <2>1, <2>2
<1>2. DOMAIN ws' = DOMAIN w \cup {n} /\ ws'[n] = i /\ \A m \in DOMAIN w : m # n => ws'[m] = w[m]
  BY DEF Linked, Override
<1>3. \A m \in DOMAIN ws : m # n => ws[m] \in Inodes(Without(w, {n}), o)
  BY DEF Inodes, Without
<1> QED BY <1>1, <1>2, <1>3 DEF Linked, OthersStay

LEMMA CommitStride ==
    ASSUME IInv, op.pc = "commit", op.v = Version' \/ D \in doubt', record' = record,
           \E n : op' = [op EXCEPT !.todo = @ \ {n}]
    PROVE  InStride'
<1>1. DOMAIN op = DOMAIN Idle /\ op.cmd = "add"
  BY DEF IInv, Core, InStride
<1>2. /\ DOMAIN op' = DOMAIN Idle /\ op'.pc = "commit" /\ op'.v = op.v /\ op'.cmd = op.cmd
      /\ "pc" \in DOMAIN op'
  BY <1>1 DEF Idle
<1> QED BY <1>1, <1>2 DEF InStride, Idle

(* A file enters the cache, and is linked back. *)
LEMMA CommitLink ==
    ASSUME IInv, op.pc = "commit", NEW n \in DOMAIN ws, NEW d, NEW w, NEW o,
           Link(db, n, op.v[n], d, w, o), Alike(disk, d), Inodes(w, o) \subseteq DOMAIN disk,
           op.v[n] \in DOMAIN o, Without(w, {n}) = Without(ws, {n}), laid' = laid
    PROVE  FilesKnown' /\ DbTrue' /\ (op.v = Version' \/ D \in doubt')
           /\ \E i : Moves(disk, clock, disk', clock', i)
<1>1. /\ FilesKnown' /\ DbTrue'
      /\ \E i : /\ Linked(n, op.v[n], w, o, i)
                /\ disk'[i].data = op.v[n] \/ D \in doubt'
                /\ doubt \ {i} \subseteq doubt'
  BY LinkTrue DEF IInv, Core, DbTrue
<1>2. PICK i : /\ Linked(n, op.v[n], w, o, i)
               /\ disk'[i].data = op.v[n] \/ D \in doubt'
               /\ doubt \ {i} \subseteq doubt'
  BY <1>1
<1>3. ASSUME D \notin doubt' PROVE op.v = Version'
  <2>1. D \notin doubt
    BY <1>2, <1>3, Keys DEF Linked
  <2>2. op.v = Version
    BY <2>1 DEF IInv, Core, InStride
  <2>3. /\ DOMAIN ws' = DOMAIN ws /\ disk'[ws'[n]].data = op.v[n]
        /\ \A m \in DOMAIN ws : m # n => disk'[ws'[m]].data = disk[ws[m]].data
    <3>1. OthersStay(n, i)
      BY <1>2, LinkedAlone
    <3> QED BY <1>2, <1>3, <3>1 DEF OthersStay
  <2> QED BY <2>2, <2>3 DEF Version
<1> QED BY <1>1, <1>2, <1>3 DEF Linked

LEMMA CommitFileOK == ASSUME IInv, CommitFile PROVE Core'
<1>1. PICK n \in op.todo \cap DOMAIN ws :
        /\ \/ /\ op.v[n] \notin DOMAIN objs
              /\ Link(db, n, op.v[n], Protect(disk, ws[n]), ws, Override(objs, op.v[n], ws[n]))
           \/ /\ op.v[n] \in DOMAIN objs
              /\ Disk([disk EXCEPT ![ws[n]].ro = FALSE], ws, objs)
              /\ SaveHash(ws[n], op.v[n], {ws[n], D})
              /\ UNCHANGED clock
           \/ /\ op.v[n] \in DOMAIN objs
              /\ Link(db, n, op.v[n], disk, Without(ws, {n}), objs)
        /\ op' = [op EXCEPT !.todo = @ \ {n}]
  BY DEF CommitFile
<1>2. /\ UNCHANGED <<record, stored, blind, ours, laid>> /\ op.pc = "commit"
      /\ op.v = Version \/ D \in doubt
  BY DEF CommitFile, IInv, Core, InStride
<1>3. ws[n] \in DOMAIN disk /\ ws[n] \in FileInode /\ FilesKnown /\ DbTrue
      /\ Meta(ws[n]) = disk[ws[n]].mtime /\ Actual(ws[n]) = disk[ws[n]].data
  BY OnDisk DEF IInv, Core
<1>4. /\ FilesKnown' /\ DbTrue' /\ (op.v = Version' \/ D \in doubt')
      /\ \E i : Moves(disk, clock, disk', clock', i)
  <2>1. CASE Link(db, n, op.v[n], Protect(disk, ws[n]), ws, Override(objs, op.v[n], ws[n]))
    <3>1. Alike(disk, Protect(disk, ws[n]))
      BY <1>3 DEF Alike, Protect, FilesKnown
    <3>2. Inodes(ws, Override(objs, op.v[n], ws[n])) \subseteq DOMAIN disk
      BY DEF IInv, Core, FilesKnown, Inodes, Override
    <3>3. op.v[n] \in DOMAIN Override(objs, op.v[n], ws[n])
      BY DEF Override
    <3> QED BY <1>2, <2>1, <3>1, <3>2, <3>3, CommitLink
  <2>2. CASE op.v[n] \in DOMAIN objs /\ Link(db, n, op.v[n], disk, Without(ws, {n}), objs)
    <3>1. Alike(disk, disk)
      BY <1>3 DEF Alike, FilesKnown
    <3>2. Inodes(Without(ws, {n}), objs) \subseteq DOMAIN disk
      BY DEF IInv, Core, FilesKnown, Inodes, Without
    <3>3. Without(Without(ws, {n}), {n}) = Without(ws, {n})
      BY DEF Without
    <3> QED BY <1>2, <2>2, <3>1, <3>2, <3>3, CommitLink
  <2>3. CASE /\ Disk([disk EXCEPT ![ws[n]].ro = FALSE], ws, objs)
             /\ SaveHash(ws[n], op.v[n], {ws[n], D})
             /\ UNCHANGED clock
    <3>1. /\ Inodes(ws, objs) = DOMAIN disk /\ ws' = ws /\ objs' = objs
          /\ disk' = [j \in DOMAIN disk |-> [disk EXCEPT ![ws[n]].ro = FALSE][j]]
      BY <1>3, <2>3 DEF Disk, Files, FilesKnown
    <3>2. Alike(disk, disk')
      BY <1>3, <3>1 DEF Alike, FilesKnown
    <3>3. Moves(disk, clock, disk', clock', D)
      BY <1>3, <2>3, <3>2 DEF Moves, Alike, FilesKnown
    <3>4. FilesKnown' /\ Version' = Version
      <4>1. DOMAIN disk' = Inodes(ws', objs') /\ DOMAIN disk' \subseteq FileInode
        BY <1>3, <3>1 DEF FilesKnown
      <4>2. Version' = Version
        BY <3>1, <3>2, OnDisk, <1>3 DEF Version, Alike
      <4> QED BY <1>3, <3>3, <4>1, <4>2, KnownMoves
    <3>5. /\ db' = SaveRow(db, ws[n], disk[ws[n]].mtime, op.v[n])
          /\ doubt' = IF op.v[n] = disk[ws[n]].data THEN doubt \ {ws[n]}
                      ELSE IF doubt \cap {ws[n], D} = {} THEN doubt ELSE doubt \cup {ws[n]}
      BY <1>3, <2>3 DEF SaveHash
    <3>6. op.v[n] = disk[ws[n]].data \/ ws[n] \in doubt'
      BY <1>2, <3>5 DEF Version
    <3>7. disk[ws[n]].mtime \in 0..clock /\ doubt \ {ws[n]} \subseteq doubt'
      BY <1>3, <3>5 DEF FilesKnown
    <3>8. Truthful(SaveRow(db, ws[n], disk[ws[n]].mtime, op.v[n]), doubt', laid, disk, clock)
      BY <1>3, <3>6, <3>7, TruthFileRow DEF DbTrue
    <3>9. Truthful(db', doubt', laid, disk', clock')
      BY <3>3, <3>5, <3>8, TruthMoves
    <3>10. op.v = Version' \/ D \in doubt'
      BY <1>2, <1>3, <3>4, <3>7, Keys
    <3> QED BY <1>2, <3>3, <3>4, <3>9, <3>10 DEF DbTrue
  <2> QED BY <1>1, <2>1, <2>2, <2>3
<1>5. StoredTrue'
  BY <1>2, <1>4, StoredOK
<1>6. InStride'
  BY <1>1, <1>2, <1>4, CommitStride
<1> QED BY <1>4, <1>5, <1>6 DEF Core

--------------------------------------------------------------------------------
(* The hash h is that of the file i, or its row has it, which is in doubt. *)
Holds(h, i, b, k, dubious) ==
    \/ h = k[i].data
    \/ i \in dubious /\ h # NoHash /\ Get(b, i, k[i].mtime) = h

LEMMA SettledHolds ==
    ASSUME FilesKnown
    PROVE  \A n : Settled(n) <=> n \in DOMAIN ws /\ Holds(op.v[n], ws[n], db, disk, doubt)
BY OnDisk DEF Settled, Holds, Lookup

LEMMA HashHolds ==
    ASSUME IInv, NEW n \in DOMAIN ws
    PROVE  HashOf(n) = disk[ws[n]].data \/ (ws[n] \in doubt /\ HashOf(n) # NoHash)
BY Hashes DEF IInv, Core, HashOf

(* It stays so when a row is saved, of another file or with the same hash. *)
LEMMA HoldsSaved ==
    ASSUME NEW b, {"rows", "links"} \subseteq DOMAIN b, NEW i \in FileInode, NEW j \in FileInode,
           NEW h, NEW k, NEW m, NEW m2, NEW hash, Holds(h, j, b, k, m), m \ {i} \subseteq m2,
           j = i /\ h # k[i].data => i \in m2 /\ hash = h
    PROVE  Holds(h, j, SaveRow(b, i, k[i].mtime, hash), k, m2)
<1> DEFINE s == SaveRow(b, i, k[i].mtime, hash)
<1>1. /\ DOMAIN s.rows = DOMAIN b.rows \cup {ToSqlite(i)}
      /\ s.rows[ToSqlite(i)] = [meta |-> k[i].mtime, hash |-> hash]
      /\ \A key \in DOMAIN b.rows : key # ToSqlite(i) => s.rows[key] = b.rows[key]
  BY SavedFields
<1> HIDE DEF s
<1>2. ASSUME j = i PROVE Holds(h, j, s, k, m2)
  <2>1. Get(s, i, k[i].mtime) = hash
    BY <1>1 DEF Get
  <2> QED BY <1>2, <2>1 DEF Holds
<1>3. ASSUME j # i PROVE Holds(h, j, s, k, m2)
  <2>1. ToSqlite(j) # ToSqlite(i)
    BY <1>3, Keys
  <2>2. Get(s, j, k[j].mtime) = Get(b, j, k[j].mtime)
    BY <1>1, <2>1 DEF Get
  <2> QED BY <1>3, <2>2 DEF Holds
<1> QED BY <1>2, <1>3 DEF s

(* get_hash leaves a row of the file, true or as false as it was.          *)
LEMMA LookedTrue ==
    ASSUME IInv, NEW n \in DOMAIN ws
    PROVE  /\ Looked(n) = SaveRow(db, ws[n], disk[ws[n]].mtime, HashOf(n))
           /\ Truthful(Looked(n), doubt, laid, disk, clock)
           /\ \A h : \A m \in DOMAIN ws : Holds(h, ws[m], db, disk, doubt)
                                      => Holds(h, ws[m], Looked(n), disk, doubt)
<1>1. /\ \A m \in DOMAIN ws : ws[m] \in DOMAIN disk /\ ws[m] \in FileInode
                              /\ Meta(ws[m]) = disk[ws[m]].mtime
      /\ disk[ws[n]].mtime \in 0..clock
  BY OnDisk DEF IInv, Core, FilesKnown
<1>2. Looked(n) = SaveRow(db, ws[n], disk[ws[n]].mtime, HashOf(n))
  BY <1>1 DEF Looked
<1>3. HashOf(n) = disk[ws[n]].data \/ ws[n] \in doubt
  BY HashHolds
<1>4. Truthful(SaveRow(db, ws[n], disk[ws[n]].mtime, HashOf(n)), doubt, laid, disk, clock)
  BY <1>1, <1>3, TruthFileRow DEF IInv, Core, DbTrue
<1>5. ASSUME NEW m \in DOMAIN ws, NEW h, Holds(h, ws[m], db, disk, doubt)
      PROVE  Holds(h, ws[m], SaveRow(db, ws[n], disk[ws[n]].mtime, HashOf(n)), disk, doubt)
  <2>1. ws[m] = ws[n] /\ h # disk[ws[n]].data => ws[n] \in doubt /\ HashOf(n) = h
    BY <1>1, <1>5 DEF Holds, HashOf, Lookup
  <2>2. {"rows", "links"} \subseteq DOMAIN db
    BY DEF IInv, Core, DbTrue, Truthful
  <2> QED BY <1>1, <1>5, <2>1, <2>2, HoldsSaved
<1> QED BY <1>2, <1>4, <1>5

LEMMA LookTrue ==
    ASSUME IInv, NEW n \in DOMAIN ws, Look(n)
    PROVE  /\ Truthful(db', doubt', laid, disk, clock)
           /\ D \in doubt => D \in doubt'
           /\ \A h : \A m \in DOMAIN ws : Holds(h, ws[m], db, disk, doubt)
                                      => Holds(h, ws[m], db', disk, doubt')
           /\ Holds(HashOf(n), ws[n], db', disk, doubt')
<1>1. /\ \A m \in DOMAIN ws : ws[m] \in DOMAIN disk /\ ws[m] \in FileInode /\ ws[m] # D
                              /\ Meta(ws[m]) = disk[ws[m]].mtime
                              /\ Actual(ws[m]) = disk[ws[m]].data
      /\ disk[ws[n]].mtime \in 0..clock
  BY OnDisk DEF IInv, Core, FilesKnown
<1>2. /\ db' = SaveRow(db, ws[n], disk[ws[n]].mtime, HashOf(n))
      /\ doubt' = IF HashOf(n) = disk[ws[n]].data THEN doubt \ {ws[n]}
                  ELSE IF doubt \cap {ws[n]} = {} THEN doubt ELSE doubt \cup {ws[n]}
  BY <1>1 DEF Look, SaveHash
<1>3. HashOf(n) = disk[ws[n]].data \/ (ws[n] \in doubt /\ HashOf(n) # NoHash)
  BY HashHolds
<1>4. /\ doubt \ {ws[n]} \subseteq doubt'
      /\ HashOf(n) = disk[ws[n]].data \/ ws[n] \in doubt'
  BY <1>2, <1>3
<1>5. Truthful(SaveRow(db, ws[n], disk[ws[n]].mtime, HashOf(n)), doubt', laid, disk, clock)
  BY <1>1, <1>4, TruthFileRow DEF IInv, Core, DbTrue
<1>6. {"rows", "links"} \subseteq DOMAIN db
  BY DEF IInv, Core, DbTrue, Truthful
<1>7. ASSUME NEW m \in DOMAIN ws, NEW h, Holds(h, ws[m], db, disk, doubt)
      PROVE  Holds(h, ws[m], SaveRow(db, ws[n], disk[ws[n]].mtime, HashOf(n)), disk, doubt')
  <2>1. ws[m] = ws[n] /\ h # disk[ws[n]].data => ws[n] \in doubt' /\ HashOf(n) = h
    BY <1>1, <1>2, <1>7 DEF Holds, HashOf, Lookup
  <2> QED BY <1>1, <1>4, <1>6, <1>7, <2>1, HoldsSaved
<1>8. Holds(HashOf(n), ws[n], SaveRow(db, ws[n], disk[ws[n]].mtime, HashOf(n)), disk, doubt')
  <2> DEFINE s == SaveRow(db, ws[n], disk[ws[n]].mtime, HashOf(n))
  <2>1. Get(s, ws[n], disk[ws[n]].mtime) = HashOf(n)
    <3>1. /\ ToSqlite(ws[n]) \in DOMAIN s.rows
          /\ s.rows[ToSqlite(ws[n])] = [meta |-> disk[ws[n]].mtime, hash |-> HashOf(n)]
      BY <1>6, SavedFields
    <3> HIDE DEF s
    <3> QED BY <3>1 DEF Get
  <2> QED BY <1>3, <1>4, <2>1 DEF Holds
<1> QED BY <1>1, <1>2, <1>4, <1>5, <1>7, <1>8

LEMMA FilesStride ==
    ASSUME IInv, op.pc = "files", record' = record, FilesKnown', NEW todo,
           \/ op' = [op EXCEPT !.todo = todo]
           \/ op' = [op EXCEPT !.pc = "files"] /\ todo = op.todo,
           D \in doubt' \/ \A m \in DOMAIN op.v \ todo :
               m \in DOMAIN ws' /\ Holds(op.v[m], ws'[m], db', disk', doubt')
    PROVE  InStride'
<1>1. DOMAIN op = DOMAIN Idle /\ op.v = record
  BY DEF IInv, Core, InStride
<1>2. /\ DOMAIN op' = DOMAIN Idle /\ op'.pc = "files" /\ op'.v = op.v /\ op'.todo = todo
      /\ "pc" \in DOMAIN op'
  BY <1>1 DEF Idle
<1>3. \A m \in DOMAIN ws' : ws'[m] # D
  BY Keys DEF FilesKnown, Inodes
<1>4. D \in doubt' \/ \A m \in DOMAIN op'.v \ op'.todo : Settled(m)'
  BY <1>2, <1>3 DEF Settled, Holds, Lookup, Meta, MetaIn
<1> QED BY <1>1, <1>2, <1>4 DEF InStride, Idle

LEMMA CheckoutFileOK == ASSUME IInv, CheckoutFile PROVE Core'
<1>1. PICK n \in op.todo :
        \/ /\ n \in DOMAIN ws /\ HashOf(n) = op.v[n]
           /\ Look(n)
           /\ op' = [op EXCEPT !.todo = @ \ {n}]
           /\ UNCHANGED <<clock, fs>>
        \/ /\ n \in DOMAIN ws
           /\ Look(n)
           /\ Refuse
        \/ /\ Link(IF n \in DOMAIN ws THEN Looked(n) ELSE db,
                   n, op.v[n], disk, Without(ws, {n}), objs)
           /\ op' = [op EXCEPT !.todo = @ \ {n}]
  BY DEF CheckoutFile
<1>2. /\ UNCHANGED <<record, stored, blind, ours, laid>> /\ op.pc = "files" /\ Busy
      /\ FilesKnown /\ op.v[n] \in DOMAIN objs
  BY DEF CheckoutFile, Busy, IInv, Core, Listings, InCache
<1>3. D \in doubt \/ \A m \in DOMAIN op.v \ op.todo :
         m \in DOMAIN ws /\ Holds(op.v[m], ws[m], db, disk, doubt)
  BY <1>2, SettledHolds DEF IInv, Core, InStride
<1>4. ASSUME n \in DOMAIN ws, Look(n), UNCHANGED <<clock, fs>>
      PROVE  FilesKnown' /\ DbTrue' /\ StoredTrue'
  <2>1. UNCHANGED <<clock, disk, ws, objs>>
    BY <1>4 DEF fs
  <2>2. Truthful(db', doubt', laid, disk, clock)
    BY <1>4, LookTrue
  <2> QED BY <1>2, <2>1, <2>2, SameFiles DEF IInv, Core, DbTrue, StoredTrue
<1>5. CASE /\ n \in DOMAIN ws /\ HashOf(n) = op.v[n]
           /\ Look(n)
           /\ op' = [op EXCEPT !.todo = @ \ {n}]
           /\ UNCHANGED <<clock, fs>>
  <2>1. UNCHANGED <<disk, ws>>
    BY <1>5 DEF fs
  <2>2. D \in doubt' \/ \A m \in DOMAIN op.v \ (op.todo \ {n}) :
           m \in DOMAIN ws /\ Holds(op.v[m], ws[m], db', disk, doubt')
    BY <1>3, <1>5, LookTrue
  <2>3. InStride'
    BY <1>2, <1>4, <1>5, <2>1, <2>2, FilesStride
  <2> QED BY <1>4, <1>5, <2>3 DEF Core
<1>6. CASE n \in DOMAIN ws /\ Look(n) /\ Refuse
  <2>1. Finish("failed") /\ UNCHANGED <<clock, fs>>
    BY <1>6 DEF Refuse
  <2>2. InStride'
    BY <1>2, <2>1, FinishStride
  <2> QED BY <1>4, <1>6, <2>1, <2>2 DEF Core
<1>7. CASE /\ Link(IF n \in DOMAIN ws THEN Looked(n) ELSE db,
                   n, op.v[n], disk, Without(ws, {n}), objs)
           /\ op' = [op EXCEPT !.todo = @ \ {n}]
  <2>1. PICK b : b = IF n \in DOMAIN ws THEN Looked(n) ELSE db
    OBVIOUS
  <2>2. /\ Truthful(b, doubt, laid, disk, clock)
        /\ \A h : \A m \in DOMAIN ws : Holds(h, ws[m], db, disk, doubt)
                                   => Holds(h, ws[m], b, disk, doubt)
    BY <2>1, LookedTrue DEF IInv, Core, DbTrue
  <2>3. PICK c : c = op.v[n]
    OBVIOUS
  <2>4. Link(b, n, c, disk, Without(ws, {n}), objs)
    BY <1>7, <2>1, <2>3
  <2>5. Alike(disk, disk) /\ Inodes(Without(ws, {n}), objs) \subseteq DOMAIN disk
    BY <1>2 DEF Alike, FilesKnown, Inodes, Without
  <2>6. /\ FilesKnown' /\ DbTrue'
        /\ \E i : /\ Linked(n, c, Without(ws, {n}), objs, i)
                  /\ db' = SaveRow(b, i, disk'[i].mtime, c)
                  /\ disk'[i].data = c \/ D \in doubt'
                  /\ doubt \ {i} \subseteq doubt'
                  /\ hardlinks /\ i \in doubt => D \in doubt'
    BY <1>2, <2>2, <2>3, <2>4, <2>5, LinkTrue
  <2>7. PICK i : /\ Linked(n, c, Without(ws, {n}), objs, i)
                 /\ db' = SaveRow(b, i, disk'[i].mtime, c)
                 /\ disk'[i].data = c \/ D \in doubt'
                 /\ doubt \ {i} \subseteq doubt'
                 /\ hardlinks /\ i \in doubt => D \in doubt'
    BY <2>6
  <2>8. StoredTrue'
    BY <1>2, <2>7, StoredOK DEF Linked
  <2>9. OthersStay(n, i)
    <3>1. Without(Without(ws, {n}), {n}) = Without(ws, {n})
      BY DEF Without
    <3> QED BY <2>7, <3>1, LinkedAlone
  <2>10. ASSUME D \notin doubt', NEW m \in DOMAIN op.v \ (op.todo \ {n})
         PROVE  m \in DOMAIN ws' /\ Holds(op.v[m], ws'[m], db', disk', doubt')
    <3>1. CASE m = n
      BY <2>3, <2>7, <2>9, <2>10, <3>1 DEF OthersStay, Holds
    <3>2. CASE m # n
      <4>1. D \notin doubt /\ i \in FileInode
        BY <2>7, <2>10, Keys DEF Linked
      <4>2. m \in DOMAIN ws /\ Holds(op.v[m], ws[m], b, disk, doubt)
        BY <1>3, <2>2, <3>2, <4>1
      <4>3. /\ m \in DOMAIN ws' /\ ws'[m] = ws[m] /\ (~hardlinks => ws[m] # i)
            /\ disk'[ws[m]].data = disk[ws[m]].data /\ disk'[ws[m]].mtime = disk[ws[m]].mtime
        BY <2>9, <3>2, <4>2 DEF OthersStay
      <4>4. Holds(op.v[m], ws[m], b, disk', doubt)
        BY <4>2, <4>3 DEF Holds
      <4>5. ws[m] = i /\ op.v[m] # disk'[i].data => i \in doubt' /\ c = op.v[m]
        BY <2>7, <2>10, <4>3, <4>4 DEF Holds
      <4>6. ws[m] \in FileInode /\ {"rows", "links"} \subseteq DOMAIN b
        BY <1>2, <2>2, <4>2, OnDisk DEF Truthful
      <4>7. Holds(op.v[m], ws[m], SaveRow(b, i, disk'[i].mtime, c), disk', doubt')
        BY <2>7, <4>1, <4>4, <4>5, <4>6, HoldsSaved
      <4> QED BY <2>7, <4>3, <4>7
    <3> QED BY <3>1, <3>2
  <2>11. InStride'
    BY <1>2, <1>7, <2>6, <2>10, FilesStride
  <2> QED BY <2>6, <2>8, <2>11 DEF Core
<1> QED BY <1>1, <1>5, <1>6, <1>7

(* What is left over is removed. *)
LEMMA RemoveRedundantOK == ASSUME IInv, RemoveRedundant PROVE Core'
<1>1. PICK n \in Redundant(op.v) :
        /\ \/ UNCHANGED <<db, doubt>>
           \/ Look(n)
        /\ \/ Refuse
           \/ /\ Disk(disk, Without(ws, {n}), objs)
              /\ Goto("files")
              /\ UNCHANGED clock
  BY DEF RemoveRedundant
<1>2. /\ UNCHANGED <<record, stored, blind, ours, laid>> /\ op.pc = "files" /\ op.todo = {}
      /\ Busy /\ FilesKnown /\ n \in DOMAIN ws /\ n \notin DOMAIN op.v
  BY DEF RemoveRedundant, Redundant, Busy, IInv, Core
<1>3. /\ Truthful(db', doubt', laid, disk, clock)
      /\ D \in doubt => D \in doubt'
      /\ \A h : \A m \in DOMAIN ws : Holds(h, ws[m], db, disk, doubt)
                                 => Holds(h, ws[m], db', disk, doubt')
  BY <1>1, <1>2, LookTrue DEF IInv, Core, DbTrue
<1>4. CASE Refuse
  <2>1. Finish("failed") /\ UNCHANGED <<clock, disk, ws, objs>>
    BY <1>4 DEF Refuse, fs
  <2>2. InStride'
    BY <1>2, <2>1, FinishStride
  <2> QED BY <1>2, <1>3, <2>1, <2>2, SameFiles DEF IInv, Core, DbTrue, StoredTrue
<1>5. CASE Disk(disk, Without(ws, {n}), objs) /\ Goto("files") /\ UNCHANGED clock
  <2>1. Inodes(Without(ws, {n}), objs) \subseteq DOMAIN disk
    BY <1>2 DEF FilesKnown, Inodes, Without
  <2>2. FilesKnown' /\ Truthful(stored, blind, ours, disk', clock')
    BY <1>2, <1>5, <2>1, KnownFewer DEF IInv, Core, StoredTrue, Disk
  <2>3. PICK b, dubious : b = db' /\ dubious = doubt'
    OBVIOUS
  <2>4. Truthful(b, dubious, laid, disk', clock')
    BY <1>2, <1>3, <1>5, <2>1, <2>3, KnownFewer DEF Disk
  <2>5. DbTrue' /\ StoredTrue'
    BY <1>2, <2>2, <2>3, <2>4 DEF DbTrue, StoredTrue
  <2>6. D \in doubt \/ \A m \in DOMAIN op.v :
           m \in DOMAIN ws /\ Holds(op.v[m], ws[m], db, disk, doubt)
    BY <1>2, SettledHolds DEF IInv, Core, InStride
  <2>7. ASSUME NEW m \in DOMAIN op.v, m \in DOMAIN ws
        PROVE  /\ m \in DOMAIN ws' /\ ws'[m] = ws[m] /\ disk'[ws[m]] = disk[ws[m]]
    <3>1. m # n
      BY <1>2
    <3> QED BY <1>5, <2>7, <3>1 DEF Disk, Files, Inodes, Without
  <2>8. D \in doubt' \/ \A m \in DOMAIN op.v \ {} :
           m \in DOMAIN ws' /\ Holds(op.v[m], ws'[m], db', disk', doubt')
    BY <1>3, <2>6, <2>7 DEF Holds
  <2>9. InStride'
    BY <1>2, <1>5, <2>2, <2>8, FilesStride DEF Goto
  <2> QED BY <2>2, <2>5, <2>9 DEF Core
<1> QED BY <1>1, <1>4, <1>5

--------------------------------------------------------------------------------
(* The listings are mappings, and what is checked out is in the cache.     *)
LEMMA NextListings == ASSUME IInv, [Next]_vars PROVE Listings'
<1>1. /\ DOMAIN Idle = {"cmd", "pc", "v", "todo", "forced", "result"}
      /\ "pc" \in DOMAIN op /\ (op.pc # "merged" => DOMAIN op = DOMAIN Idle)
  BY DEF IInv, Core, InStride, Idle
<1>2. ASSUME UNCHANGED <<op, dirs, objs>> PROVE Listings'
  BY <1>2 DEF IInv, Listings, InCache
<1>3. ASSUME dirs' \subseteq dirs, op'.pc \notin {"save", "merged", "files"} PROVE Listings'
  BY <1>3 DEF IInv, Listings
<1>4. CASE UNCHANGED vars
  BY <1>2, <1>4 DEF vars, fs
<1>5. CASE UserStep \/ GitSwitch \/ LoseDb
  BY <1>2, <1>5
    DEF UserStep, WriteInPlace, WriteNew, Delete, Rename, User, Disk, Files, GitSwitch, LoseDb, fs
<1>6. CASE Gc
  BY <1>3, <1>6 DEF Gc, MayStart, Idle
<1>7. CASE Start("status", FALSE) \/ Start("add", FALSE) \/ \E forced \in BOOLEAN : Start("checkout", forced)
  BY <1>3, <1>7 DEF Start, Idle, fs
<1>8. CASE StartCheckout
  <2>1. CASE InCache(record)
    <3>1. UNCHANGED <<objs, dirs>> /\ op'.pc = "files" /\ op'.v = record /\ op'.todo = DOMAIN record
      BY <1>8, <2>1 DEF StartCheckout, Idle
    <3> QED BY <2>1, <3>1 DEF IInv, Listings, InCache
  <2>2. CASE ~InCache(record)
    BY <1>3, <1>8, <2>2 DEF StartCheckout, Idle
  <2> QED BY <2>1, <2>2
<1>9. CASE MergeDriver
  <2>1. PICK a, o, t : /\ a \in dirs \cup {Empty} /\ o \in dirs \cup {Empty} /\ t \in dirs \cup {Empty}
                       /\ op'.v = Merge(a, o, t) /\ op'.pc = "merged"
    BY <1>9 DEF MergeDriver, DirCache
  <2>2. Mapping(Merge(a, o, t))
    BY <2>1 DEF Merge, Patch, IInv, Listings, Mapping, Empty
  <2>3. dirs' = dirs
    BY <1>9 DEF MergeDriver, fs
  <2> QED BY <2>1, <2>2, <2>3 DEF IInv, Listings
<1>10. CASE Hash
  <2>1. dirs' = dirs /\ op.pc = "hash"
    BY <1>10 DEF Hash, fs
  <2>2. ASSUME NEW v, Hashed(v) PROVE Listings'
    BY <1>1, <1>3, <2>1, <2>2 DEF Hashed, Finish
  <2>3. CASE op' = [op EXCEPT !.v = [n \in DOMAIN ws |-> HashOf(n)], !.pc = "save"]
    BY <1>1, <2>1, <2>3 DEF IInv, Listings, Mapping
  <2> QED BY <1>10, <2>2, <2>3 DEF Hash
<1>11. CASE SaveDirHash
  <2>1. dirs' = dirs \cup {op.v} /\ Mapping(op.v) /\ op.pc = "save"
    BY <1>11 DEF SaveDirHash, IInv, Listings
  <2>2. op'.pc \in {"dump", "commit", "compare"}
    BY <1>1, <1>11, <2>1 DEF SaveDirHash, Hashed, Finish
  <2> QED BY <2>1, <2>2 DEF IInv, Listings
<1>12. CASE CommitFile \/ CommitFails \/ CommitDir
  <2>1. dirs' = dirs /\ op.pc = "commit"
    BY <1>12 DEF CommitFile, CommitFails, CommitDir, fs
  <2>2. op'.pc \in {"commit", "dump"}
    BY <1>1, <1>12, <2>1 DEF CommitFile, CommitFails, CommitDir, Finish
  <2> QED BY <1>3, <2>1, <2>2
<1>13. CASE RemoveUnused \/ MissingForced \/ DropLink
  <2>1. dirs' = dirs /\ op'.pc \in {"unlink", "dump"}
    BY <1>1, <1>13 DEF RemoveUnused, MissingForced, DropLink, MayStart, Finish, Idle, fs
  <2> QED BY <1>3, <2>1
<1>14. CASE Compare
  <2>1. InCache(record) /\ UNCHANGED <<dirs, objs>> /\ op.pc = "compare"
    BY <1>14 DEF Compare, fs
  <2>2. CASE Finish("ok")
    BY <1>1, <1>3, <2>1, <2>2 DEF Finish
  <2>3. CASE op' = [op EXCEPT !.pc = "files", !.v = record, !.todo = DOMAIN record]
    BY <1>1, <2>1, <2>3 DEF IInv, Listings, InCache
  <2> QED BY <1>14, <2>2, <2>3 DEF Compare
<1>15. CASE Missing \/ CheckoutDir
  <2>1. dirs' = dirs /\ op'.pc = "dump"
    BY <1>1, <1>15 DEF Missing, CheckoutDir, Refuse, Finish, fs
  <2> QED BY <1>3, <2>1
<1>16. CASE CheckoutFile \/ RemoveRedundant
  <2>1. UNCHANGED <<dirs, objs>> /\ op.pc = "files"
    BY <1>16 DEF CheckoutFile, RemoveRedundant, Refuse, Link, Disk, Files, fs
  <2>2. \/ op'.pc = "dump"
        \/ op'.pc = "files" /\ op'.v = op.v /\ op'.todo \subseteq op.todo
    BY <1>1, <1>16, <2>1 DEF CheckoutFile, RemoveRedundant, Refuse, Finish, Goto
  <2> QED BY <1>3, <2>1, <2>2 DEF IInv, Listings, InCache
<1>17. CASE Merged
  BY <1>17 DEF Merged, IInv, Listings, Idle
<1>18. CASE Dump \/ CleanUp \/ Count \/ Crash \/ MoveCutShort
  <2>1. dirs' = dirs /\ op'.pc \in {"none", "count"}
    BY <1>1, <1>18 DEF Dump, CleanUp, Count, Crash, MoveCutShort, Die, Goto, Idle, fs
  <2> QED BY <1>3, <2>1
<1> QED
  BY <1>4, <1>5, <1>6, <1>7, <1>8, <1>9, <1>10, <1>11, <1>12, <1>13, <1>14, <1>15, <1>16,
     <1>17, <1>18 DEF Next, UserStep

LEMMA NextCore == ASSUME IInv, [Next]_vars PROVE Core'
<1>1. CASE UNCHANGED vars
  <2>1. UNCHANGED <<clock, disk, ws, objs, db, stored, doubt, blind, laid, ours, op, record>>
    BY <1>1 DEF vars, fs
  <2>2. FilesKnown' /\ DbTrue' /\ StoredTrue' /\ Version' = Version
    BY <2>1, SameFiles DEF IInv, Core, DbTrue, StoredTrue
  <2>3. \A n : Settled(n)' <=> Settled(n)
    BY <2>1 DEF Settled, Lookup, Meta, MetaIn
  <2>4. InStride'
    BY <2>1, <2>2, <2>3 DEF IInv, Core, InStride
  <2> QED BY <2>2, <2>4 DEF Core
<1>2. CASE WriteInPlace \/ WriteNew \/ Delete \/ Rename
  BY <1>2, WriteInPlaceOK, WriteNewOK, DeleteRenameOK
<1>3. CASE GitSwitch \/ LoseDb \/ Gc
  BY <1>3, SwitchOK, GcOK
<1>4. CASE Start("status", FALSE) \/ Start("add", FALSE) \/ \E forced \in BOOLEAN : Start("checkout", forced)
  BY <1>4, StartOK
<1>5. CASE StartCheckout \/ MergeDriver
  BY <1>5, StartOK
<1>6. CASE Hash \/ SaveDirHash
  BY <1>6, HashOK, SaveDirHashOK
<1>7. CASE CommitFile \/ CommitDir
  BY <1>7, CommitFileOK, CommitDirOK
<1>8. CASE RemoveUnused \/ MissingForced \/ DropLink \/ Missing
  BY <1>8, StartRemoveOK, DropLinkOK, MissingOK
<1>9. CASE CommitFails \/ Compare \/ Merged
  BY <1>9, QuietOK
<1>10. CASE CheckoutFile \/ RemoveRedundant \/ CheckoutDir
  BY <1>10, CheckoutFileOK, RemoveRedundantOK, CheckoutDirOK
<1>11. CASE Dump \/ CleanUp \/ Count \/ Crash \/ MoveCutShort
  BY <1>11, EndOK, MoveCutShortOK
<1> QED
  BY <1>1, <1>2, <1>3, <1>4, <1>5, <1>6, <1>7, <1>8, <1>9, <1>10, <1>11 DEF Next

LEMMA InitIInv == Init => IInv
<1> SUFFICES ASSUME Init PROVE IInv
  OBVIOUS
<1>1. /\ Cardinality(Content) \in Nat /\ clock = Cardinality(Content)
      /\ 0..(Cardinality(Content) - 1) \subseteq FileInode
  BY FilesAssumption, FS_CardinalityType, StateAssumption DEF Init, FileInode, D, Inode, MaxUint
<1>2. /\ DOMAIN ws = {} /\ \A c \in DOMAIN objs : objs[c] \in 0..(Cardinality(Content) - 1)
      /\ disk = [i \in {objs[c] : c \in DOMAIN objs} |->
                   [mtime |-> i, ro |-> TRUE, data |-> CHOOSE c \in DOMAIN objs : objs[c] = i]]
  BY DEF Init
<1>3. Inodes(ws, objs) = {objs[c] : c \in DOMAIN objs}
  BY <1>2 DEF Inodes
<1>4. FilesKnown
  <2>1. DOMAIN disk = Inodes(ws, objs) /\ DOMAIN disk \subseteq 0..(Cardinality(Content) - 1)
    BY <1>2, <1>3
  <2>2. \A i \in DOMAIN disk : disk[i].mtime = i /\ DOMAIN disk[i] = {"mtime", "data", "ro"}
    BY <1>2
  <2> QED BY <1>1, <2>1, <2>2 DEF FilesKnown
<1>5. DbTrue /\ StoredTrue
  BY EmptyTruth DEF Init, DbTrue, StoredTrue
<1>6. op = Idle /\ db = EmptyDb /\ doubt = {} /\ op.pc = "none"
  BY DEF Init, Idle
<1>7. InStride /\ Listings
  BY <1>6 DEF Init, InStride, Listings, Versions, Mapping, Idle
<1> QED BY <1>4, <1>5, <1>7 DEF IInv, Core

(* What the database says of the files, and what the running command       *)
(* knows, in every behaviour. *)
LEMMA IInvHolds == Spec => []IInv
<1>1. IInv /\ [Next]_vars => IInv'
  BY NextCore, NextListings DEF IInv
<1> QED BY <1>1, InitIInv, PTL DEF Spec

(* Rows of the database that agree with the mtimes of a file, or of all    *)
(* the files of a directory, have its hash, however users, commands and    *)
(* crashes come between the hashing and the saving (cache/base.py:210,     *)
(* 224, 304, 435, 473, 483; state.py:453), but for changes that cannot be  *)
(* seen.                                                                   *)
THEOREM HashesAreSound == Spec => []HashSound
<1>1. IInv => HashSound
  <2> SUFFICES ASSUME IInv, NEW i \in Range(ws) \cup (IF present THEN {D} ELSE {})
               PROVE  Get(stored, i, Meta(i)) \in {NoHash, Actual(i)} \/ i \in blind
    BY DEF HashSound
  <2>1. CASE i = D
    BY <2>1, RowsTrue, OnDisk DEF IInv, Core, StoredTrue
  <2>2. CASE i # D
    <3>1. PICK n \in DOMAIN ws : i = ws[n]
      BY <2>2 DEF Range
    <3> QED BY <3>1, RowsTrue DEF IInv, Core, StoredTrue
  <2> QED BY <2>1, <2>2
<1> QED BY <1>1, IInvHolds, PTL

--------------------------------------------------------------------------------
(***************************************************************************)
(* What the steps of a command do, under that invariant.                   *)
(***************************************************************************)
RestoresNow ==
    op.cmd = "checkout" /\ op'.pc = "dump" /\ op'.result = "ok"
    => Version = record \/ doubt \cap (Range(ws) \cup {D}) # {}

LEMMA StepRestores == ASSUME IInv, [Next]_vars PROVE RestoresNow
<1> SUFFICES ASSUME op.cmd = "checkout", op'.pc = "dump", op'.result = "ok"
             PROVE  Version = record \/ doubt \cap (Range(ws) \cup {D}) # {}
  BY DEF RestoresNow
<1>1. /\ DOMAIN Idle = {"cmd", "pc", "v", "todo", "forced", "result"}
      /\ op # Idle /\ op.pc # "merged" /\ DOMAIN op = DOMAIN Idle
  BY DEF IInv, Core, InStride, Idle
<1>2. CASE op' = op
  BY <1>2 DEF IInv, Core, InStride
<1>3. CASE Compare
  <2>1. op.v = record /\ op.pc = "compare"
    BY <1>1, <1>3 DEF Compare
  <2> QED BY <2>1 DEF IInv, Core, InStride
<1>4. CASE CheckoutDir
  BY <1>4, SettledDir DEF CheckoutDir, IInv, Core, InStride
<1>5. CASE Hash \/ SaveDirHash
  BY <1>1, <1>5 DEF Hash, SaveDirHash, Hashed
<1>6. CASE CommitFile \/ CommitDir \/ DropLink
  BY <1>1, <1>6 DEF CommitFile, CommitDir, DropLink, IInv, Core, InStride
<1>7. CASE CommitFails \/ Missing \/ CheckoutFile \/ RemoveRedundant
  BY <1>1, <1>7
    DEF CommitFails, Missing, CheckoutFile, RemoveRedundant, Refuse, Finish, Goto, IInv, Core, InStride
<1>8. CASE Dump \/ CleanUp \/ Count \/ Crash \/ MoveCutShort
  BY <1>1, <1>8 DEF Dump, CleanUp, Count, Crash, MoveCutShort, Die, Goto, Idle
<1> QED
  BY <1>1, <1>2, <1>3, <1>4, <1>5, <1>6, <1>7, <1>8
    DEF Next, vars, WriteInPlace, WriteNew, Delete, Rename, User, GitSwitch, LoseDb, Gc, MayStart,
        Start, StartCheckout, RemoveUnused, MissingForced, MergeDriver, Merged

(* A checkout that reports success has left the directory as the .dvc file *)
(* has it, also when its row in the database made it do nothing            *)
(* (cache/base.py:523 and 469), unless something changed under it.         *)
THEOREM CheckoutSucceeds == Spec => CheckoutRestores
<1>1. IInv /\ [Next]_vars => [RestoresNow]_vars
  BY StepRestores
<1> QED BY <1>1, IInvHolds, PTL DEF Spec, CheckoutRestores, RestoresNow
(* What becomes of a name's content when op changes (OnlyOursRemoved).     *)
Kept(n) ==
    \/ n \in DOMAIN ws' /\ disk'[ws'[n]].data = disk[ws[n]].data
    \/ disk[ws[n]].data \in DOMAIN objs'
    \/ disk[ws[n]].data \in strays' /\ op.pc = "commit"
    \/ op'.forced
    \/ op'.pc = "unlink" /\ ours \in {Version, None}
    \/ doubt \cap {ws[n], D} # {}

OursNow == op' # op => \A n \in DOMAIN ws : Kept(n)

LEMMA KeptInPlace == ASSUME UNCHANGED <<disk, ws>> PROVE OursNow
BY DEF OursNow, Kept

LEMMA KeptByOthers ==
    ASSUME NEW n, NEW i, OthersStay(n, i), n \in DOMAIN ws => Kept(n)
    PROVE  OursNow
BY DEF OthersStay, OursNow, Kept

LEMMA CommitKeeps == ASSUME IInv, CommitFile PROVE OursNow
<1>1. PICK n \in op.todo \cap DOMAIN ws :
        \/ Link(db, n, op.v[n], Protect(disk, ws[n]), ws, Override(objs, op.v[n], ws[n]))
        \/ op.v[n] \in DOMAIN objs /\ Disk([disk EXCEPT ![ws[n]].ro = FALSE], ws, objs)
        \/ op.v[n] \in DOMAIN objs /\ Link(db, n, op.v[n], disk, Without(ws, {n}), objs)
  BY DEF CommitFile
<1>2. /\ FilesKnown /\ \A m \in DOMAIN ws : ws[m] \in DOMAIN disk
      /\ op.v = Version \/ D \in doubt
  BY OnDisk DEF CommitFile, IInv, Core, InStride
<1>3. CASE Link(db, n, op.v[n], Protect(disk, ws[n]), ws, Override(objs, op.v[n], ws[n]))
  <2>1. /\ Alike(disk, Protect(disk, ws[n]))
        /\ Inodes(ws, Override(objs, op.v[n], ws[n])) \subseteq DOMAIN disk
        /\ op.v[n] \in DOMAIN Override(objs, op.v[n], ws[n])
    <3>1. Alike(disk, Protect(disk, ws[n]))
      BY <1>2 DEF Alike, Protect, FilesKnown
    <3>2. Inodes(ws, Override(objs, op.v[n], ws[n])) \subseteq DOMAIN disk
      <4>1. Inodes(ws, objs) \subseteq DOMAIN disk
        BY <1>2 DEF FilesKnown
      <4> QED BY <4>1, <1>2 DEF Inodes, Override
    <3>3. op.v[n] \in DOMAIN Override(objs, op.v[n], ws[n])
      BY DEF Override
    <3> QED BY <3>1, <3>2, <3>3
  <2>2. PICK i : Linked(n, op.v[n], ws, Override(objs, op.v[n], ws[n]), i)
    BY <1>2, <1>3, <2>1, LinkLinks
  <2>3. OthersStay(n, i)
    BY <2>2, LinkedAlone
  <2>4. disk'[i].data = disk[ws[n]].data
    BY <2>2 DEF Linked, Override
  <2>5. Kept(n)
    BY <2>3, <2>4 DEF OthersStay, Kept
  <2> QED BY <2>3, <2>5, KeptByOthers
<1>4. CASE Disk([disk EXCEPT ![ws[n]].ro = FALSE], ws, objs)
  <2>1. \A m \in DOMAIN ws : disk'[ws'[m]].data = disk[ws[m]].data /\ ws' = ws
    BY <1>2, <1>4 DEF Disk, Files, Inodes, FilesKnown
  <2> QED BY <2>1 DEF OursNow, Kept
<1>5. CASE op.v[n] \in DOMAIN objs /\ Link(db, n, op.v[n], disk, Without(ws, {n}), objs)
  <2>1. /\ Alike(disk, disk) /\ Inodes(Without(ws, {n}), objs) \subseteq DOMAIN disk
        /\ Without(Without(ws, {n}), {n}) = Without(ws, {n})
    BY <1>2 DEF Alike, FilesKnown, Inodes, Without
  <2>2. PICK i : Linked(n, op.v[n], Without(ws, {n}), objs, i)
    BY <1>2, <1>5, <2>1, LinkLinks
  <2>3. OthersStay(n, i) /\ objs' = objs
    BY <2>1, <2>2, LinkedAlone DEF Linked
  <2>4. Kept(n)
    BY <1>2, <1>5, <2>3 DEF Kept, Version
  <2> QED BY <2>3, <2>4, KeptByOthers
<1> QED BY <1>1, <1>3, <1>4, <1>5

(* A file that move had only half taken is there under its temporary name; *)
(* the others stay. *)
LEMMA MoveCutShortKeeps == ASSUME IInv, MoveCutShort PROVE OursNow
<1>1. PICK n \in DOMAIN ws :
        /\ Files(Protect(disk, ws[n]), Without(ws, {n}), objs)
        /\ strays' = strays \cup {disk[ws[n]].data}
  BY DEF MoveCutShort
<1>2. FilesKnown /\ \A m \in DOMAIN ws : ws[m] \in DOMAIN disk
  BY OnDisk DEF IInv, Core
<1>3. Kept(n)
  BY <1>1 DEF Kept, MoveCutShort
<1>4. ASSUME NEW m \in DOMAIN ws, m # n PROVE Kept(m)
  <2>1. m \in DOMAIN ws' /\ ws'[m] = ws[m] /\ ws[m] \in Inodes(Without(ws, {n}), objs)
    BY <1>1, <1>4 DEF Files, Without, Inodes
  <2>2. disk'[ws[m]].data = Protect(disk, ws[n])[ws[m]].data
    BY <1>1, <2>1 DEF Files
  <2>3. Protect(disk, ws[n])[ws[m]].data = disk[ws[m]].data
    BY <1>2 DEF Protect, FilesKnown
  <2> QED BY <2>1, <2>2, <2>3 DEF Kept
<1> QED BY <1>3, <1>4 DEF OursNow

(* safe_remove. *)
LEMMA RemovedKept ==
    ASSUME IInv, NEW n \in DOMAIN ws, MayRemove(HashOf(n) \in DOMAIN objs),
           objs' = objs, op'.forced = op.forced
    PROVE  Kept(n)
BY HashHolds DEF MayRemove, Kept

LEMMA CheckoutKeeps == ASSUME IInv, CheckoutFile \/ RemoveRedundant PROVE OursNow
<1>1. /\ FilesKnown /\ op.pc = "files" /\ op.todo \subseteq DOMAIN op.v
      /\ \A m \in DOMAIN op.v : op.v[m] \in DOMAIN objs
      /\ DOMAIN op = {"cmd", "pc", "v", "todo", "forced", "result"}
  BY DEF CheckoutFile, RemoveRedundant, IInv, Core, InStride, Listings, InCache, Idle
<1>2. CASE UNCHANGED fs
  BY <1>2, KeptInPlace DEF fs
<1>3. ASSUME NEW n \in op.todo, NEW b, Link(b, n, op.v[n], disk, Without(ws, {n}), objs),
             n \in DOMAIN ws => MayRemove(HashOf(n) \in DOMAIN objs),
             op' = [op EXCEPT !.todo = @ \ {n}]
      PROVE  OursNow
  <2>1. /\ Alike(disk, disk) /\ Inodes(Without(ws, {n}), objs) \subseteq DOMAIN disk
        /\ Without(Without(ws, {n}), {n}) = Without(ws, {n}) /\ op.v[n] \in DOMAIN objs
    BY <1>1 DEF Alike, FilesKnown, Inodes, Without
  <2>2. PICK i : Linked(n, op.v[n], Without(ws, {n}), objs, i)
    BY <1>1, <1>3, <2>1, LinkLinks
  <2>3. OthersStay(n, i) /\ objs' = objs
    BY <2>1, <2>2, LinkedAlone DEF Linked
  <2>4. op'.forced = op.forced
    BY <1>1, <1>3
  <2>5. n \in DOMAIN ws => Kept(n)
    BY <1>3, <2>3, <2>4, RemovedKept
  <2> QED BY <2>3, <2>5, KeptByOthers
<1>4. ASSUME NEW n \in Redundant(op.v), Disk(disk, Without(ws, {n}), objs), Goto("files"),
             MayRemove(HashOf(n) \in DOMAIN objs)
      PROVE  OursNow
  <2>1. op'.forced = op.forced /\ objs' = objs /\ n \in DOMAIN ws
    BY <1>1, <1>4 DEF Goto, Disk, Files, Redundant
  <2>2. Kept(n)
    BY <1>4, <2>1, RemovedKept
  <2>3. ASSUME NEW m \in DOMAIN ws, m # n PROVE Kept(m)
    <3>1. m \in DOMAIN ws' /\ ws'[m] = ws[m] /\ ws[m] \in Inodes(Without(ws, {n}), objs)
      BY <1>4, <2>3 DEF Disk, Files, Without, Inodes
    <3> QED BY <1>4, <3>1 DEF Disk, Files, Kept
  <2> QED BY <2>2, <2>3 DEF OursNow
<1> QED BY <1>2, <1>3, <1>4 DEF CheckoutFile, RemoveRedundant, Refuse

(* The directory goes as a whole. *)
LEMMA RemovalKeeps == ASSUME IInv, RemoveUnused \/ MissingForced \/ Missing PROVE OursNow
<1>1. CASE RemoveUnused
  <2>1. /\ OwnLink(stored, Path, D, Meta(D)) /\ op'.pc = "unlink"
    BY <1>1 DEF RemoveUnused, UnusedLink, Load, Idle
  <2>2. Tells(Meta(D), ours, disk, clock) \/ ours = None
    BY <2>1 DEF OwnLink, IInv, Core, StoredTrue, Truthful, LinkRow
  <2>3. ours \in {Version, None}
    BY <2>2, TellsVersion DEF IInv, Core
  <2> QED BY <2>1, <2>3 DEF OursNow, Kept
<1>2. CASE MissingForced
  <2>1. op'.forced
    BY <1>2 DEF MissingForced, Idle
  <2> QED BY <2>1 DEF OursNow, Kept
<1>3. CASE Missing
  <2>1. /\ DOMAIN op = {"cmd", "pc", "v", "todo", "forced", "result"}
        /\ op.v = Version \/ D \in doubt
    BY <1>3 DEF Missing, IInv, Core, InStride, Idle
  <2>2. CASE Refuse
    BY <2>2, KeptInPlace DEF Refuse, fs
  <2>3. CASE MayRemove(InCache(op.v)) /\ Disk(disk, Empty, objs) /\ Finish("failed")
    <3>1. op'.forced = op.forced /\ objs' = objs
      BY <2>1, <2>3 DEF Finish, Disk, Files
    <3>2. \A n \in DOMAIN ws : InCache(Version) => disk[ws[n]].data \in DOMAIN objs
      BY DEF InCache, Version
    <3> QED BY <2>1, <2>3, <3>1, <3>2 DEF MayRemove, OursNow, Kept
  <2> QED BY <1>3, <2>2, <2>3 DEF Missing
<1> QED BY <1>1, <1>2, <1>3

LEMMA StepOurs == ASSUME IInv, [Next]_vars PROVE OursNow
<1>1. ASSUME UNCHANGED op PROVE OursNow
  BY <1>1 DEF OursNow
<1>2. CASE UNCHANGED vars \/ WriteInPlace \/ WriteNew \/ Delete \/ Rename \/ GitSwitch \/ LoseDb \/ Gc
  BY <1>1, <1>2
    DEF vars, WriteInPlace, WriteNew, Delete, Rename, User, GitSwitch, LoseDb, Gc
<1>3. ASSUME UNCHANGED fs \/ UNCHANGED <<disk, ws>> PROVE OursNow
  BY <1>3, KeptInPlace DEF fs
<1>4. CASE \/ Start("status", FALSE) \/ Start("add", FALSE)
           \/ \E forced \in BOOLEAN : Start("checkout", forced)
  BY <1>3, <1>4 DEF Start
<1>5. CASE StartCheckout \/ MergeDriver \/ Merged \/ Hash \/ SaveDirHash
  BY <1>3, <1>5 DEF StartCheckout, MergeDriver, Merged, Hash, SaveDirHash
<1>6. CASE CommitFails \/ CommitDir \/ DropLink \/ Compare \/ CheckoutDir
  BY <1>3, <1>6 DEF CommitFails, CommitDir, DropLink, Compare, CheckoutDir
<1>7. CASE Dump \/ CleanUp \/ Count \/ Crash
  BY <1>3, <1>7 DEF Dump, CleanUp, Count, Crash, Die
<1>8. CASE CommitFile \/ MoveCutShort \/ CheckoutFile \/ RemoveRedundant
  BY <1>8, CommitKeeps, MoveCutShortKeeps, CheckoutKeeps
<1>9. CASE RemoveUnused \/ MissingForced \/ Missing
  BY <1>9, RemovalKeeps
<1> QED BY <1>2, <1>4, <1>5, <1>6, <1>7, <1>8, <1>9 DEF Next

(* DVC never removes or overwrites the last copy of a content the user has *)
(* made without being told to (cache/base.py:399 and 407, state.py:501):   *)
(* it is in the cache, or --force was given, or it is as DVC has put it    *)
(* there, as far as a change can be seen at all.  The one exception is a   *)
(* dvc add killed between the renames of move (utils/fs.py:111 and 113):   *)
(* what it was moving is then under a temporary name.                      *)
THEOREM UsersFilesKept == Spec => OnlyOursRemoved
<1>1. IInv /\ [Next]_vars => [OursNow]_vars
  BY StepOurs
<1> QED BY <1>1, IInvHolds, PTL DEF Spec, OnlyOursRemoved, OursNow, Kept
=============================================================================
