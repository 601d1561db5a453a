------------------------------ MODULE MCTrees ------------------------------
(* Two processes, one of them with two threads, on a remote of each kind;    *)
(* and the listings and queries of trees on every small remote.              *)
EXTENDS Trees, Listing, Query, TLC, MCConfig, MCExternalFiles

CONSTANTS p1, p2, t1, t2, t3, h1, h2

MCProcessOf == (t1 :> p1) @@ (t2 :> p1) @@ (t3 :> p2)

(* The names of objects do not matter. *)
Symmetry == Permutations(Hash)

(* gs, azure and oss take the steps of s3. *)
MCCloud == Clouds \ {"gs", "azure", "oss"}

-----------------------------------------------------------------------------
(* Listing: remotes of up to two objects and a directory that was made, in  *)
(* up to three levels, where the name "da" begins with the name "d".         *)

MCBegins == {<<"d", "d">>, <<"da", "da">>, <<"d", "da">>}
MCPaths == UNION {[1..n -> Name] : n \in 0..3}
MCObjects == UNION {kSubset(n, MCPaths \ {<<>>}) : n \in 0..2}
MCDirs == UNION {kSubset(n, MCPaths) : n \in 0..1}

ASSUME ListingsAgree ==
    \A O \in MCObjects, D \in MCDirs : Layout(O, D) =>
        \A p \in MCPaths : /\ WalksAgree(O, D, p) /\ ExistsAgree(O, D, p)
                           /\ RemoveAgree(O, D, p) /\ RemoveDirAgree(O, D, p)
                           /\ MakeDirsAgree(O, D, p)

ASSUME CopiesWhole ==
    \A parts \in UNION {[1..n -> 1..3] : n \in 1..3} :
        CopyWhole(parts, FoldSet(LAMBDA i, sum : sum + parts[i], 0, DOMAIN parts))

-----------------------------------------------------------------------------
(* Query: digits of base 2, with limits from one hash to more than all.      *)

MCDigits == [n \in Md5 |-> n % 8]

Q(len, threshold, page, weight, jobs) == INSTANCE Query WITH
    PrefixLen <- len, Threshold <- threshold, Page <- page, Weight <- weight, Jobs <- jobs

ASSUME QueriesExact ==
    \A len \in {2, 3}, threshold \in {0, 8, 20}, page \in {1, 5}, weight \in {1, 2}, jobs \in {1, 4} :
        /\ Q(len, threshold, page, weight, jobs)!QueryExact
        /\ Q(len, threshold, page, weight, jobs)!AllExact

(* An estimate may stop early, and a remote may be traversed by prefixes. *)
ASSUME QueriesDiffer ==
    /\ \E R, H \in SUBSET Md5 : \E L \in Q(3, 0, 1, 1, 4)!Estimates(R, H) :
          Cardinality(H) > 1 /\ L # ListHashes(R, <<3, 0>>)
    /\ \E R, H \in SUBSET Md5 : \E L \in Q(3, 8, 5, 1, 4)!Estimates(R, H) :
          ~Q(3, 8, 5, 1, 4)!TooLarge(L, H) /\ EstimatedSize(L) * 4 >= Base * Base * 5
=============================================================================
