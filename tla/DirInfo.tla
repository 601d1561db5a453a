-------------------------------- MODULE DirInfo --------------------------------
(***************************************************************************)
(* The versions of a directory, and how the merge driver of Git merges two *)
(* of them: src/dvc/dir_info.py, and what calls it in src/dvc/stage,       *)
(* src/dvc/output and src/dvc/cache.  A version maps the paths of the      *)
(* files to the hashes of their contents.                                  *)
(***************************************************************************)
CONSTANTS Name,          \* paths inside the directory
          Content,       \* contents of files, which stand for their hashes
          None           \* no version, no hash, no link

ASSUME NoneAssumption == None \notin Content

Versions == UNION {[S -> Content] : S \in SUBSET Name}

ASSUME NoVersionAssumption == None \notin Versions

Empty == [n \in {} |-> None]

(* dictdiffer.diff of two versions: the paths it reports as add, remove    *)
(* and change. *)
Added(ancestor, other) == DOMAIN other \ DOMAIN ancestor
Removed(ancestor, other) == DOMAIN ancestor \ DOMAIN other
Changed(ancestor, other) ==
    {n \in DOMAIN ancestor \cap DOMAIN other : ancestor[n] # other[n]}

(* _diff: nothing but additions, or it raises MergeError.                  *)
OnlyAdds(ancestor, other) ==
    Changed(ancestor, other) = {} /\ Removed(ancestor, other) = {}

(* Broken form: two files added under one name are not compared.           *)
ConflictsUnseen(our, their) == FALSE

Conflicts(our, their) == Changed(our, their) # {}

(* _merge: may the two be merged, and into what?                           *)
MergeAllowed(ancestor, our, their) ==
    /\ OnlyAdds(ancestor, our)
    /\ \/ our = ancestor
       \/ /\ OnlyAdds(ancestor, their)
          /\ their = ancestor \/ ~Conflicts(our, their)

Patch(our, their) ==
    [n \in DOMAIN our \cup DOMAIN their |->
        IF n \in DOMAIN their THEN their[n] ELSE our[n]]

Merge(ancestor, our, their) ==
    IF our = ancestor THEN their
    ELSE IF their = ancestor THEN our
    ELSE Patch(our, their)
================================================================================
