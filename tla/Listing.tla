------------------------------ MODULE Listing ------------------------------
(* What each tree of dvc/tree makes of the same remote: exists, isfile,      *)
(* isdir, walk_files, remove and makedirs over the flat keys of a bucket and *)
(* over the directories of a file system.                                    *)
(*                                                                           *)
(* A path is a sequence of names.  A key of a bucket is a path too; one that *)
(* ends with a slash has Blank for its last name.  "data" is a prefix of the *)
(* key "data2/x", so a name may begin another one.                           *)
EXTENDS Naturals, Sequences, FiniteSets, SequencesExt

CONSTANTS
    Name,    \* the names of files and directories
    Begins,  \* pairs of names: the second one begins with the first one
    Blank,   \* the empty name after the last slash of a key
    Error    \* an exception

ASSUME BeginsAssumption ==
    /\ Begins \subseteq Name \X Name /\ Blank \notin Name
    /\ \A n \in Name : <<n, n>> \in Begins

-----------------------------------------------------------------------------
(* Buckets: a remote is the set of its keys.                                *)

AsDir(p) == IF p = <<>> THEN p ELSE Append(p, Blank)
IsMarker(k) == k # <<>> /\ Last(k) = Blank

KeyStarts(k, p) ==
    \/ p = <<>>
    \/ /\ Len(p) <= Len(k) /\ \A i \in 1..Len(p) - 1 : k[i] = p[i]
       /\ Last(p) = Blank \/ <<Last(p), k[Len(p)]>> \in Begins

(* The service lists the keys that start with a string. *)
ListKeys(S, p) == {k \in S : KeyStarts(k, p)}

S3IsFile(S, p) == ~IsMarker(p) /\ p \in ListKeys(S, p)
S3IsDir(S, p) == ListKeys(S, AsDir(p)) # {}
S3Exists(S, p) == S3IsFile(S, p) \/ S3IsDir(S, p)
S3WalkFiles(S, p, prefix) ==
    {k \in ListKeys(S, IF prefix THEN p ELSE AsDir(p)) : ~IsMarker(k)}
S3Remove(S, p) == S \ {p}
S3MakeDirs(S, p) == IF p = <<>> THEN S ELSE S \cup {AsDir(p)}

GSIsFile(S, p) == ~IsMarker(p) /\ p \in S
GSExists(S, p) == GSIsFile(S, p) \/ ListKeys(S, AsDir(p)) # {}
GSWalkFiles(S, p, prefix) ==
    {k \in ListKeys(S, IF prefix THEN p ELSE AsDir(p)) : ~IsMarker(k)}
GSRemove(S, p) == IF p \in S THEN S \ {p} ELSE S

(* A directory of these two does not exist for DVC: only keys do. *)
AzureExists(S, p) == \E k \in ListKeys(S, p) : k = p
AzureWalkFiles(S, p, prefix) ==
    {k \in ListKeys(S, IF prefix THEN p ELSE AsDir(p)) : ~IsMarker(k)}
OSSExists(S, p) == \E k \in ListKeys(S, p) : k = p
OSSWalkFiles(S, p, prefix) ==
    {k \in ListKeys(S, IF prefix THEN p ELSE AsDir(p)) : ~IsMarker(k)}

(* S3Tree._copy_multipart: the ranges of bytes, from first to last, of the   *)
(* parts of an object of a size that has been put in parts of these sizes.   *)
CopyRanges(parts, size) ==
    LET start[i \in 1..Len(parts) + 1] == IF i = 1 THEN 0 ELSE start[i - 1] + parts[i - 1]
        last(i) == start[i] + parts[i] - 1
    IN [i \in 1..Len(parts) |-> <<start[i], IF last(i) > size THEN size - 1 ELSE last(i)>>]

-----------------------------------------------------------------------------
(* File systems: a remote is [dirs, files], sets of paths.                  *)

IsChild(q, p) == Len(q) = Len(p) + 1 /\ IsPrefix(p, q)
SubDirs(T, p) == {d \in T.dirs : IsChild(d, p)}
FilesIn(T, p) == {f \in T.files : IsChild(f, p)}

(* The walk that goes into the directories it has listed. *)
Walk(T, p) ==
    LET walk[d \in T.dirs] == FilesIn(T, d) \cup UNION {walk[c] : c \in SubDirs(T, d)}
    IN walk[p]

HDFSWalkFiles(T, p) == IF p \in T.dirs THEN Walk(T, p) ELSE {}
SSHWalkFiles(T, p) == IF p \in T.dirs THEN Walk(T, p) ELSE Error
LocalWalkFiles(T, p) == IF p \in T.dirs THEN Walk(T, p) ELSE {}

(* webdav.py keeps the directories that it has yet to list. *)
WebDAVWalkFiles(T, p) ==
    LET round[n \in Nat] ==
            IF n = 0 THEN [dirs |-> {p}, found |-> {}]
            ELSE LET s == round[n - 1] IN
                 IF s.dirs = {} THEN s
                 ELSE LET d == CHOOSE d \in s.dirs : TRUE IN
                      [dirs |-> (s.dirs \ {d}) \cup SubDirs(T, d), found |-> s.found \cup FilesIn(T, d)]
    IN IF p \in T.dirs THEN round[Cardinality(T.dirs)].found ELSE {}

(* webhdfs.py joins each file of a directory to the path of the one before. *)
WebHDFSWalkFiles(T, p) ==
    LET names(d) == SetToSeq({Last(f) : f \in FilesIn(T, d)})
        joined(d) == {d \o SubSeq(names(d), 1, i) : i \in 1..Len(names(d))}
        walk[d \in T.dirs] == joined(d) \cup UNION {walk[c] : c \in SubDirs(T, d)}
    IN IF p \in T.dirs THEN walk[p] ELSE {}

TreeExists(T, p) == p \in T.dirs \cup T.files

Under(X, p) == {x \in X : IsPrefix(p, x)}

HDFSRemove(T, p) == [dirs |-> T.dirs \ Under(T.dirs, p), files |-> T.files \ Under(T.files, p)]

(* The files and directories that the walk from the leaves finds, then the  *)
(* directory.                                                               *)
SSHRemove(T, p) ==
    IF p \notin T.dirs THEN [T EXCEPT !.files = @ \ {p}]
    ELSE LET dirs[d \in T.dirs] == SubDirs(T, d) \cup UNION {dirs[c] : c \in SubDirs(T, d)}
         IN [dirs |-> T.dirs \ (dirs[p] \cup {p}), files |-> T.files \ Walk(T, p)]

(* A directory that is not empty is not deleted. *)
WebHDFSRemove(T, p) ==
    IF SubDirs(T, p) \cup FilesIn(T, p) # {} THEN Error
    ELSE [dirs |-> T.dirs \ {p}, files |-> T.files \ {p}]

(* Each of them makes the directories above first; a file in the way is an  *)
(* error.                                                                   *)
Above(p) == {SubSeq(p, 1, n) : n \in 0..Len(p)}
SSHMakeDirs(T, p) ==
    LET made[q \in Above(p)] ==
            IF q \in T.dirs THEN T
            ELSE IF q \in T.files THEN Error
            ELSE IF made[Front(q)] = Error THEN Error
            ELSE [made[Front(q)] EXCEPT !.dirs = @ \cup {q}]
    IN made[p]

(* webdav.py takes anything of that name for the directory. *)
WebDAVMakeDirs(T, p) ==
    LET made[q \in Above(p)] ==
            IF TreeExists(T, q) THEN T
            ELSE IF made[Front(q)] = Error \/ Front(q) \in T.files THEN Error
            ELSE [made[Front(q)] EXCEPT !.dirs = @ \cup {q}]
    IN made[p]

-----------------------------------------------------------------------------
(* What a tree promises of a remote that holds objects and, with them, the  *)
(* directories that were made: what is below a path, and what is there.     *)

Below(O, p) == {o \in O : IsStrictPrefix(p, o)}

KeysOf(O, D) == O \cup {AsDir(d) : d \in D \ {<<>>}}
TreeOf(O, D) ==
    [files |-> O, dirs |-> {<<>>} \cup (UNION {Above(d) : d \in D}) \cup UNION {Above(Front(o)) : o \in O}]

(* No object is where another one needs a directory. *)
Layout(O, D) == \A o \in O : ~\E x \in O \cup D : IsPrefix(o, x) /\ (x \in D \/ x # o)

(* The walks of all the trees list the objects below a directory, and those *)
(* only: neither those of "data2" for "data", nor a marker, nor a directory.*)
(* webhdfs.py does when no directory has two files.                         *)
WalksAgree(O, D, p) ==
    LET S == KeysOf(O, D)  T == TreeOf(O, D) IN
    /\ S3WalkFiles(S, p, FALSE) = Below(O, p) /\ GSWalkFiles(S, p, FALSE) = Below(O, p)
    /\ AzureWalkFiles(S, p, FALSE) = Below(O, p) /\ OSSWalkFiles(S, p, FALSE) = Below(O, p)
    /\ p \in T.dirs => /\ HDFSWalkFiles(T, p) = Below(O, p) /\ SSHWalkFiles(T, p) = Below(O, p)
                       /\ LocalWalkFiles(T, p) = Below(O, p) /\ WebDAVWalkFiles(T, p) = Below(O, p)
                       /\ (\A d \in T.dirs : Cardinality(FilesIn(T, d)) <= 1) =>
                            WebHDFSWalkFiles(T, p) = Below(O, p)

(* An object exists in all of them, and what is neither an object nor above *)
(* one nor was made exists in none; a directory exists where it can.        *)
ExistsAgree(O, D, p) ==
    LET S == KeysOf(O, D)  T == TreeOf(O, D) IN
    /\ S3Exists(S, p) = GSExists(S, p) /\ AzureExists(S, p) = OSSExists(S, p)
    /\ AzureExists(S, p) <=> p \in O
    /\ p # <<>> => (S3Exists(S, p) <=> TreeExists(T, p))
    /\ S3IsFile(S, p) <=> p \in O
    /\ p # <<>> => (S3IsDir(S, p) <=> p \in T.dirs)

(* What is removed is gone from every walk, and nothing else is. *)
RemoveAgree(O, D, p) ==
    LET S == KeysOf(O, D)  T == TreeOf(O, D) IN
    p \in O =>
        /\ S3WalkFiles(S3Remove(S, p), <<>>, FALSE) = O \ {p} /\ GSRemove(S, p) = S3Remove(S, p)
        /\ HDFSRemove(T, p).files = O \ {p} /\ SSHRemove(T, p) = HDFSRemove(T, p)
        /\ WebHDFSRemove(T, p) = HDFSRemove(T, p)

(* Removing a directory takes what is below it, in either order. *)
RemoveDirAgree(O, D, p) ==
    LET T == TreeOf(O, D) IN
    p \in T.dirs => /\ SSHRemove(T, p) = HDFSRemove(T, p)
                    /\ HDFSRemove(T, p).files = O \ Below(O, p)

(* makedirs adds what is missing above and nothing else, or fails.          *)
MakeDirsAgree(O, D, p) ==
    LET S == KeysOf(O, D)  T == TreeOf(O, D)  M == SSHMakeDirs(T, p) IN
    /\ (M = Error) <=> \E o \in O : IsPrefix(o, p)
    /\ M # Error => /\ M = [T EXCEPT !.dirs = @ \cup Above(p)]
                    /\ WebDAVMakeDirs(T, p) = M
                    /\ p # <<>> => S3IsDir(S3MakeDirs(S, p), p)
                    /\ S3WalkFiles(S3MakeDirs(S, p), <<>>, FALSE) = O
    /\ M = Error /\ p \notin O => WebDAVMakeDirs(T, p) = Error

(* The ranges that are copied are those of the object, part by part. *)
CopyWhole(parts, size) ==
    LET ranges == CopyRanges(parts, size)
        bytes(i) == ranges[i][1]..ranges[i][2]
    IN /\ UNION {bytes(i) : i \in DOMAIN ranges} = 0..(size - 1)
       /\ \A i \in DOMAIN ranges : Cardinality(bytes(i)) = parts[i]
       /\ \A i, j \in DOMAIN ranges : i # j => bytes(i) \cap bytes(j) = {}
=============================================================================
