-------------------------------- MODULE Query --------------------------------
(* How cache/base.py finds out which hashes a remote has: it estimates the   *)
(* size of the remote by the hashes that start with "00..", and then either  *)
(* asks for each hash or lists the remote prefix by prefix.                  *)
(*                                                                           *)
(* Of a hash only its first three digits matter.                             *)
EXTENDS Naturals, FiniteSets

CONSTANTS
    Md5,          \* the hashes of objects
    Base,         \* of the digits of a hash: 16
    Digits,       \* the first three digits of a hash, as a number
    PrefixLen,    \* TRAVERSE_PREFIX_LEN
    Threshold,    \* TRAVERSE_THRESHOLD_SIZE
    Page,         \* LIST_OBJECT_PAGE_SIZE
    Weight,       \* TRAVERSE_WEIGHT_MULTIPLIER
    Jobs,         \* JOBS
    CanTraverse

ASSUME QueryAssumption ==
    /\ IsFiniteSet(Md5)
    /\ Base \in Nat \ {0}
    /\ Digits \in [Md5 -> 0..(Base * Base * Base - 1)]
    /\ PrefixLen \in {2, 3}
    /\ Threshold \in Nat /\ Page \in Nat \ {0} /\ Weight \in Nat \ {0} /\ Jobs \in Nat \ {0}
    /\ CanTraverse \in BOOLEAN

(* The hashes of R that start with the digits of n, len of them. *)
Starting(R, len, n) ==
    {h \in R : (IF len = 3 THEN Digits[h] ELSE Digits[h] \div Base) = n}

(* CloudCache.list_hashes(prefix), and without one. *)
ListHashes(R, prefix) == Starting(R, prefix[1], prefix[2])

TotalPrefixes == IF PrefixLen = 3 THEN Base * Base * Base ELSE Base * Base

(* _hashes_with_limit stops behind the first hash that is one too many:     *)
(* count > max(Threshold, hashes / Weight * Page) / TotalPrefixes.          *)
TooMany(count, H) ==
    /\ count * TotalPrefixes > Threshold
    /\ count * TotalPrefixes * Weight > Cardinality(H) * Page

(* _estimate_remote_size: the hashes it may list, when it looks for H. *)
Estimates(R, H) ==
    LET all == ListHashes(R, <<PrefixLen, 0>>) IN
    {L \in SUBSET all : L = all \/ TooMany(Cardinality(L), H)}

EstimatedSize(L) == TotalPrefixes * (IF L = {} THEN 1 ELSE Cardinality(L))

(* hashes_exist, traverse_weight: the remote is large for so few hashes.    *)
TooLarge(L, H) ==
    LET weight == IF EstimatedSize(L) > Threshold THEN Weight ELSE 1
    IN Cardinality(H) * Page < EstimatedSize(L) * weight

(* list_hashes_exists: each hash is asked for. *)
Existing(R, H) == H \cap R

(* list_hashes_traverse: all at once from a small remote, else by prefixes  *)
(* from a number of threads, and what the estimate has listed already.      *)
TraversePrefixes ==
    ({2} \X (1..(Base * Base - 1))) \cup (IF PrefixLen > 2 THEN {3} \X (1..(Base - 1)) ELSE {})

Traverse(R, L) ==
    IF EstimatedSize(L) * Jobs < Base * Base * Page THEN R
    ELSE L \cup UNION {ListHashes(R, prefix) : prefix \in TraversePrefixes}

(* CloudCache.hashes_exist: the answer, when the estimate has listed L. *)
HashesExist(R, H, L) ==
    IF Cardinality(H) = 1 \/ ~CanTraverse THEN Existing(R, H)
    ELSE IF TooLarge(L, H) THEN (H \cap L) \cup Existing(R, H \ L)
    ELSE H \cap Traverse(R, L)

(* CloudCache.all: the estimate is not limited. *)
All(R) == IF CanTraverse THEN Traverse(R, ListHashes(R, <<PrefixLen, 0>>)) ELSE R

-----------------------------------------------------------------------------
(* A query answers with the hashes that are on the remote, whatever it has  *)
(* been able to list before it stopped: an estimate that stopped early is   *)
(* never taken for all that starts with "00..".                             *)
QueryExact ==
    \A R, H \in SUBSET Md5 : \A L \in Estimates(R, H) : HashesExist(R, H, L) = H \cap R

(* gc sees every object of the remote. *)
AllExact == \A R \in SUBSET Md5 : All(R) = R
=============================================================================
