--------------------------- MODULE OverlayProofs ---------------------------
(* Proofs about the view of a repository and of those below it, for any      *)
(* paths, any number of edits and every walk: the walk of the two trees that *)
(* RepoTree merges never asks one for a directory that it is not at, lists   *)
(* each file, and nothing that the view does not open.                       *)
(*                                                                           *)
(* First paths and the workspace, whose outputs never overlap; then          *)
(* sequences, what Follow keeps of one, and generators that are lined up     *)
(* with the turns left; then the types, what the two trees show of a path,   *)
(* and the invariant of a walk with one lemma for each step of it.           *)
EXTENDS Overlay, FiniteSetTheorems, SequenceTheorems, WellFoundedInduction, TLAPS

-----------------------------------------------------------------------------
(* Paths.                                                                  *)

Names == Seq(Name)

(* The root of the workspace is a path, and is none of its files and       *)
(* directories.                                                            *)
LEMMA RootIsPath == Root \in Names /\ Path \subseteq Names /\ Root \in Path /\ Root \notin Node
<1>1. Node \subseteq Names /\ <<>> \notin Node
  BY OverlayAssumption DEF Names
<1>2. <<>> \in Names
  BY EmptySeq DEF Names
<1> QED
  BY <1>1, <1>2 DEF Root, Path

(* One path is in another when it starts with its names. *)
LEMMA Starts ==
    ASSUME NEW p \in Names, NEW q \in Names
    PROVE  InOrEq(p, q) <=> Len(q) <= Len(p) /\ \A i \in 1..Len(q) : q[i] = p[i]
<1> DEFINE n == Len(q)
<1>1. n \in Nat /\ Len(p) \in Nat /\ 1 \in Int /\ n \in Int
  BY LenProperties DEF Names
<1>2. (\A i \in 1..n : q[i] \in Name) /\ (\A i \in 1..Len(p) : p[i] \in Name)
  BY ElementOfSeq DEF Names
<1> DEFINE sq == SubSeq(q, 1, n)
           sp == SubSeq(p, 1, n)
<1>3. InOrEq(p, q) <=> n <= Len(p) /\ sq = sp
  BY DEF InOrEq, IsPrefix
<1> SUFFICES ASSUME n <= Len(p) PROVE sq = sp <=> \A i \in 1..n : q[i] = p[i]
  BY <1>3
<1>4. \A i \in 1..n : p[i] \in Name
  BY <1>1, <1>2
<1>5. /\ sq \in Seq(Name) /\ Len(sq) = IF 1 <= n THEN n - 1 + 1 ELSE 0
      /\ \A i \in 1..(n - 1 + 1) : sq[i] = q[1 + i - 1]
  <2> HIDE DEF n
  <2> QED
    BY <1>1, <1>2, SubSeqProperties
<1>6. /\ sp \in Seq(Name) /\ Len(sp) = IF 1 <= n THEN n - 1 + 1 ELSE 0
      /\ \A i \in 1..(n - 1 + 1) : sp[i] = p[1 + i - 1]
  <2> HIDE DEF n
  <2> QED
    BY <1>1, <1>4, SubSeqProperties
<1> HIDE DEF n, sq, sp
<1>7. Len(sq) = n /\ Len(sp) = n
  BY <1>1, <1>5, <1>6
<1>8. \A i \in 1..n : sq[i] = q[i] /\ sp[i] = p[i]
  <2> SUFFICES ASSUME NEW i \in 1..n PROVE sq[i] = q[i] /\ sp[i] = p[i]
    OBVIOUS
  <2>1. 1 + i - 1 = i /\ i \in 1..(n - 1 + 1)
    BY <1>1
  <2> QED
    BY <1>5, <1>6, <2>1
<1> QED
  BY <1>5, <1>6, <1>7, <1>8, SeqEqual

(* Being in a directory is a partial order, and what is above a path is a  *)
(* chain.                                                                  *)
LEMMA PathOrder ==
    ASSUME NEW p \in Names, NEW q \in Names, NEW r \in Names
    PROVE  /\ InOrEq(p, p) /\ InOrEq(p, Root)
           /\ InOrEq(p, q) /\ InOrEq(q, r) => InOrEq(p, r)
           /\ InOrEq(p, q) /\ InOrEq(q, p) => p = q
           /\ InOrEq(r, p) /\ InOrEq(r, q) => InOrEq(p, q) \/ InOrEq(q, p)
           /\ In(p, q) <=> InOrEq(p, q) /\ p # q
<1>1. Len(p) \in Nat /\ Len(q) \in Nat /\ Len(r) \in Nat /\ Len(Root) = 0
  BY LenProperties, EmptySeq DEF Names, Root
<1>2. InOrEq(p, p)
  BY <1>1, Starts
<1>3. InOrEq(p, Root)
  BY <1>1, Starts, RootIsPath
<1>4. InOrEq(p, q) /\ InOrEq(q, r) => InOrEq(p, r)
  BY <1>1, Starts
<1>5. InOrEq(p, q) /\ InOrEq(q, p) => p = q
  <2> SUFFICES ASSUME InOrEq(p, q), InOrEq(q, p) PROVE p = q
    OBVIOUS
  <2>1. Len(p) = Len(q) /\ \A i \in 1..Len(q) : q[i] = p[i]
    BY <1>1, Starts
  <2> QED
    BY <2>1, SeqEqual DEF Names
<1>6. InOrEq(r, p) /\ InOrEq(r, q) => InOrEq(p, q) \/ InOrEq(q, p)
  BY <1>1, Starts
<1>7. In(p, q) <=> InOrEq(p, q) /\ p # q
  BY DEF In, InOrEq, IsStrictPrefix
<1> QED
  BY <1>2, <1>3, <1>4, <1>5, <1>6, <1>7

(* A path in a directory. *)
LEMMA ChildIsIn ==
    ASSUME NEW d \in Names, NEW n \in Name, NEW x \in Names
    PROVE  /\ Append(d, n) \in Names
           /\ In(Append(d, n), d)
           /\ InOrEq(Append(d, n), x) => x = Append(d, n) \/ InOrEq(d, x)
<1> DEFINE c == Append(d, n)
<1>1. /\ c \in Names /\ Len(c) = Len(d) + 1 /\ c[Len(d) + 1] = n
      /\ \A i \in 1..Len(d) : c[i] = d[i]
  BY AppendProperties DEF Names
<1>2. Len(d) \in Nat /\ Len(x) \in Nat /\ Len(c) \in Nat
  BY <1>1, LenProperties DEF Names
<1> HIDE DEF c
<1>3. InOrEq(c, d)
  BY <1>1, <1>2, Starts
<1>4. c # d
  BY <1>1, <1>2
<1>5. InOrEq(c, x) => x = c \/ InOrEq(d, x)
  <2> SUFFICES ASSUME InOrEq(c, x) PROVE x = c \/ InOrEq(d, x)
    OBVIOUS
  <2>1. Len(x) <= Len(c) /\ \A i \in 1..Len(x) : x[i] = c[i]
    BY <1>1, Starts
  <2>2. CASE Len(x) = Len(c)
    BY <1>1, <2>1, <2>2, SeqEqual DEF Names
  <2>3. CASE Len(x) # Len(c)
    <3>1. Len(x) <= Len(d)
      BY <1>1, <1>2, <2>1, <2>3
    <3>2. \A i \in 1..Len(x) : x[i] = d[i]
      BY <1>1, <1>2, <2>1, <3>1
    <3> QED
      BY <3>1, <3>2, Starts
  <2> QED
    BY <2>2, <2>3
<1> QED
  BY <1>1, <1>3, <1>4, <1>5, PathOrder DEF c

(* Two names of a directory have nothing in common below them. *)
LEMMA ChildrenApart ==
    ASSUME NEW d \in Names, NEW n \in Name, NEW m \in Name, InOrEq(Append(d, n), Append(d, m))
    PROVE  n = m
<1>1. Append(d, n) \in Names /\ Append(d, m) \in Names
  BY ChildIsIn
<1>2. Len(Append(d, n)) = Len(d) + 1 /\ Len(Append(d, m)) = Len(d) + 1
  BY AppendProperties DEF Names
<1>3. Append(d, n)[Len(d) + 1] = n /\ Append(d, m)[Len(d) + 1] = m
  BY AppendProperties DEF Names
<1>4. Len(d) + 1 \in 1..(Len(d) + 1)
  BY LenProperties DEF Names
<1> QED
  BY <1>1, <1>2, <1>3, <1>4, Starts

(* What is in a directory is one of its names or below one. *)
LEMMA TowardIsChild ==
    ASSUME NEW p \in Node, NEW d \in Names, In(p, d)
    PROVE  \E n \in Name : Append(d, n) \in Node /\ InOrEq(p, Append(d, n))
<1> DEFINE k == Len(d) + 1
           n == p[k]
           c == Append(d, n)
<1>1. p \in Names
  BY RootIsPath DEF Path
<1>2. Len(d) \in Nat /\ Len(p) \in Nat
  BY <1>1, LenProperties DEF Names
<1>3. InOrEq(p, d) /\ p # d
  BY <1>1, PathOrder
<1>4. Len(d) <= Len(p) /\ \A i \in 1..Len(d) : d[i] = p[i]
  BY <1>1, <1>3, Starts
<1>5. Len(d) # Len(p)
  BY <1>1, <1>3, <1>4, SeqEqual DEF Names
<1>6. k \in 1..Len(p)
  BY <1>2, <1>4, <1>5
<1>7. n \in Name
  BY <1>1, <1>6, ElementOfSeq DEF Names
<1>8. c \in Names /\ Len(c) = k /\ c[k] = n /\ \A i \in 1..Len(d) : c[i] = d[i]
  BY <1>7, AppendProperties DEF Names
<1> HIDE DEF c
<1>9. \A i \in 1..Len(c) : c[i] = p[i]
  BY <1>2, <1>4, <1>8
<1>10. InOrEq(p, c)
  BY <1>1, <1>6, <1>8, <1>9, Starts
<1>11. c = SubSeq(p, 1, k)
  <2> HIDE DEF k
  <2>1. 1 \in Int /\ k \in Int /\ k >= 1 /\ k <= Len(p)
    BY <1>2, <1>6
  <2>2. \A i \in 1..k : p[i] \in Name
    BY <1>1, <1>2, <2>1, ElementOfSeq DEF Names
  <2> DEFINE s == SubSeq(p, 1, k)
  <2>3. /\ s \in Seq(Name) /\ Len(s) = IF 1 <= k THEN k - 1 + 1 ELSE 0
        /\ \A i \in 1..(k - 1 + 1) : s[i] = p[1 + i - 1]
    BY <2>1, <2>2, SubSeqProperties
  <2> HIDE DEF s
  <2>4. Len(s) = k
    BY <2>1, <2>3
  <2>5. \A i \in 1..k : s[i] = p[i]
    <3> SUFFICES ASSUME NEW i \in 1..k PROVE s[i] = p[i]
      OBVIOUS
    <3>1. 1 + i - 1 = i /\ i \in 1..(k - 1 + 1)
      BY <2>1
    <3> QED
      BY <2>3, <3>1
  <2>6. c = s
    BY <1>8, <1>9, <2>3, <2>4, <2>5, SeqEqual DEF Names
  <2> QED
    BY <2>6 DEF s
<1>12. c \in Node
  BY <1>6, <1>11, OverlayAssumption
<1> QED
  BY <1>7, <1>10, <1>12 DEF c

(* The directories above a path are paths. *)
LEMMA AboveIsNode ==
    ASSUME NEW p \in Node, NEW d \in Names, NEW n \in Name, InOrEq(p, Append(d, n))
    PROVE  Append(d, n) \in Node
<1>1. p \in Names /\ Append(d, n) \in Names /\ In(Append(d, n), d)
  BY RootIsPath, ChildIsIn DEF Path
<1>2. In(p, d)
  BY <1>1, PathOrder
<1>3. PICK m \in Name : Append(d, m) \in Node /\ InOrEq(p, Append(d, m))
  BY <1>2, TowardIsChild
<1>4. Append(d, m) \in Names
  BY <1>3, ChildIsIn
<1>5. InOrEq(Append(d, n), Append(d, m)) \/ InOrEq(Append(d, m), Append(d, n))
  BY <1>1, <1>3, <1>4, PathOrder
<1>6. n = m
  BY <1>5, ChildrenApart
<1> QED
  BY <1>3, <1>6

(* A set of naturals that is not empty has a least element. *)
LEMMA LeastExists ==
    ASSUME NEW S \in SUBSET Nat, S # {}
    PROVE  \E x \in S : \A y \in S : x <= y
<1> DEFINE R == {ss \in Nat \X Nat : ss[1] < ss[2]}
<1>1. IsWellFoundedOn(R, Nat)
  BY NatLessThanWellFounded DEF OpToRel
<1> HIDE DEF R
<1>2. PICK x \in S : \A y \in S : ~(<<y, x>> \in R)
  BY <1>1, WFMin
<1>3. \A y \in S : ~(y < x)
  BY <1>2 DEF R
<1> QED
  BY <1>3

-----------------------------------------------------------------------------
(* The repository of a path.                                               *)

(* Home is the deepest repository above a path. *)
LEMMA HomeIs ==
    ASSUME subrepos \subseteq Node, NEW p \in Names
    PROVE  /\ Home(p) \in subrepos \cup {Root} /\ Home(p) \in Names /\ InOrEq(p, Home(p))
           /\ \A s \in subrepos \cup {Root} : InOrEq(p, s) => InOrEq(Home(p), s)
<1> DEFINE above == {s \in subrepos \cup {Root} : InOrEq(p, s)}
           Far(s) == Len(p) - Len(s)
           S == {Far(s) : s \in above}
           Deepest(s) == s \in above /\ \A q \in above : InOrEq(s, q)
<1>1. above \subseteq Names /\ Root \in above
  BY RootIsPath, PathOrder DEF Path
<1>2. \A s \in above : Len(s) \in Nat /\ Len(s) <= Len(p) /\ Len(p) \in Nat /\ Far(s) \in Nat
  <2> SUFFICES ASSUME NEW s \in above
               PROVE  Len(s) \in Nat /\ Len(s) <= Len(p) /\ Len(p) \in Nat /\ Far(s) \in Nat
    OBVIOUS
  <2>1. s \in Names /\ InOrEq(p, s)
    BY <1>1
  <2>2. Len(s) \in Nat /\ Len(p) \in Nat
    BY <2>1, LenProperties DEF Names
  <2>3. Len(s) <= Len(p)
    BY <2>1, Starts
  <2> QED
    BY <2>2, <2>3
<1>3. S \in SUBSET Nat /\ S # {}
  <2> HIDE DEF Far, above
  <2> QED
    BY <1>1, <1>2
<1>4. PICK x \in S : \A y \in S : x <= y
  <2> HIDE DEF S
  <2> QED
    BY <1>3, LeastExists
<1>5. PICK h \in above : Far(h) = x
  BY <1>4
<1>6. \A q \in above : InOrEq(h, q)
  <2> SUFFICES ASSUME NEW q \in above PROVE InOrEq(h, q)
    OBVIOUS
  <2>1. Far(h) <= Far(q)
    BY <1>4, <1>5
  <2>2. Len(q) <= Len(h)
    BY <1>2, <2>1
  <2>3. h \in Names /\ q \in Names /\ InOrEq(p, h) /\ InOrEq(p, q)
    BY <1>1
  <2>4. \A i \in 1..Len(q) : q[i] = h[i]
    <3>1. \A i \in 1..Len(q) : q[i] = p[i]
      BY <2>3, Starts
    <3>2. \A i \in 1..Len(h) : h[i] = p[i]
      BY <2>3, Starts
    <3>3. \A i \in 1..Len(q) : i \in 1..Len(h)
      BY <1>2, <2>2
    <3> QED
      BY <3>1, <3>2, <3>3
  <2> QED
    BY <2>2, <2>3, <2>4, Starts
<1>7. Deepest(h)
  BY <1>5, <1>6
<1>8. Home(p) = CHOOSE s : Deepest(s)
  BY DEF Home
<1> HIDE DEF Deepest
<1>9. Deepest(Home(p))
  BY <1>7, <1>8
<1> QED
  BY <1>1, <1>9 DEF Deepest

(* A repository above a path with no other one in it is its home. *)
LEMMA HomeIsDeepest ==
    ASSUME subrepos \subseteq Node, NEW p \in Names, NEW s \in subrepos \cup {Root}, InOrEq(p, s),
           \A q \in subrepos : InOrEq(p, q) => ~In(q, s)
    PROVE  Home(p) = s
<1>1. s \in Names /\ Home(p) \in Names
  BY HomeIs, RootIsPath DEF Path
<1>2. Home(p) \in subrepos \cup {Root} /\ InOrEq(p, Home(p)) /\ InOrEq(Home(p), s)
  BY HomeIs
<1>3. CASE Home(p) = Root
  BY <1>1, <1>2, <1>3, PathOrder, RootIsPath
<1>4. CASE Home(p) \in subrepos
  BY <1>1, <1>2, <1>4, PathOrder
<1> QED
  BY <1>2, <1>3, <1>4

(* The repository of a path is one above it ... *)
LEMMA RepoIs ==
    ASSUME subrepos \subseteq Node, NEW p \in Names
    PROVE  /\ RepoOf(p) \in subrepos \cup {Root} /\ RepoOf(p) \in Names /\ InOrEq(p, RepoOf(p))
           /\ mode.traverse => ~Ignored(RepoOf(p), p) /\ RepoOf(p) = Home(p)
           /\ ~mode.traverse => RepoOf(p) = Root
<1>1. CASE mode.traverse
  <2>1. RepoOf(p) = Home(p)
    BY <1>1 DEF RepoOf
  <2>2. ASSUME NEW s \in subrepos, In(s, RepoOf(p)), InOrEq(p, s) PROVE FALSE
    <3>1. s \in Names /\ Home(p) \in Names /\ InOrEq(Home(p), s)
      BY <2>2, HomeIs, RootIsPath DEF Path
    <3> QED
      BY <2>1, <2>2, <3>1, PathOrder
  <2> QED
    BY <1>1, <2>1, <2>2, HomeIs DEF Ignored
<1>2. CASE ~mode.traverse
  BY <1>2, RootIsPath, PathOrder DEF RepoOf
<1> QED
  BY <1>1, <1>2

(* ... and below another repository only when it is entered. *)
LEMMA RepoDeeper ==
    ASSUME subrepos \subseteq Node, NEW p \in Names, NEW g \in Names, InOrEq(p, g),
           RepoOf(p) # RepoOf(g)
    PROVE  /\ mode.traverse /\ RepoOf(p) \in subrepos
           /\ In(RepoOf(p), RepoOf(g)) /\ Ignored(RepoOf(g), p)
<1> DEFINE r == RepoOf(p)
           t == RepoOf(g)
<1>1. mode.traverse
  BY RepoIs
<1>2. r = Home(p) /\ r \in subrepos \cup {Root} /\ r \in Names /\ InOrEq(p, r)
  BY <1>1, RepoIs
<1>3. t \in subrepos \cup {Root} /\ t \in Names /\ InOrEq(g, t)
  BY RepoIs
<1> HIDE DEF r, t
<1>4. InOrEq(p, t)
  BY <1>3, PathOrder
<1>5. InOrEq(r, t)
  BY <1>2, <1>3, <1>4, HomeIs
<1>6. In(r, t)
  BY <1>2, <1>3, <1>5, PathOrder DEF r, t
<1>7. r # Root
  BY <1>3, <1>2, <1>6, RootIsPath, PathOrder
<1> QED
  BY <1>1, <1>2, <1>6, <1>7 DEF r, t, Ignored

(* What is below an ignored directory is ignored. *)
LEMMA IgnoredBelow ==
    ASSUME subrepos \subseteq Node, NEW r, NEW p \in Names, NEW q \in Names,
           InOrEq(p, q), Ignored(r, q)
    PROVE  Ignored(r, p)
BY RootIsPath, PathOrder DEF Ignored, Path

(* A directory that is not ignored and holds one that is: a repository. *)
LEMMA IgnoredChild ==
    ASSUME subrepos \subseteq Node, NEW r, NEW d \in Names, NEW n \in Name,
           ~Ignored(r, d), Ignored(r, Append(d, n))
    PROVE  Append(d, n) \in subrepos /\ In(Append(d, n), r)
<1>1. PICK s \in subrepos : In(s, r) /\ InOrEq(Append(d, n), s)
  BY DEF Ignored
<1>2. s \in Names
  BY RootIsPath DEF Path
<1>3. s = Append(d, n) \/ InOrEq(d, s)
  BY <1>1, <1>2, ChildIsIn
<1> QED
  BY <1>1, <1>3 DEF Ignored

-----------------------------------------------------------------------------
(* The workspace and the outputs.                                          *)

WsTypes ==
    /\ ws \in [Node -> {"none", "file", "dir", "link"}]
    /\ \A o \in outs : o \in Out /\ In(o.path, o.repo)
    /\ subrepos \subseteq Node
    /\ mode \in [git : BOOLEAN, traverse : BOOLEAN]
    /\ edits \in 0..MaxEdits

(* What is there is in directories, and so is a repository. *)
Layout ==
    /\ \A p \in Node : ws[p] # "none" => \A q \in Node : In(p, q) => ws[q] = "dir"
    /\ \A s \in subrepos : ws[s] = "dir"

(* The entries of a directory are files below it. *)
Flat(o) ==
    /\ \A e \in o.entries : In(e, o.path) /\ o.dir
    /\ \A e, f \in o.entries : ~In(e, f)

(* An output and its entries are out of another repository. *)
Clear(o, s) == \A p \in {o.path} \cup o.entries : ~InOrEq(p, s)

Outputs ==
    /\ IsFiniteSet(outs)
    /\ \A o \in outs : Flat(o)
    /\ \A o, q \in outs : o # q /\ o.repo = q.repo => ~InOrEq(o.path, q.path)
    /\ \A o \in outs : \A s \in subrepos : In(s, o.repo) => Clear(o, s)

WsOK == WsTypes /\ Layout /\ Outputs

(* What the invariant says of an output. *)
LEMMA OutIs ==
    ASSUME WsOK, NEW o \in outs
    PROVE  /\ o \in Out /\ o.path \in Node /\ o.repo \in Names /\ o.path \in Names
           /\ o.entries \subseteq Node /\ o.dir \in BOOLEAN
           /\ InOrEq(o.path, o.repo) /\ o.path # o.repo
<1>1. o \in Out /\ In(o.path, o.repo)
  BY DEF WsOK, WsTypes
<1>2. o.path \in Node /\ o.repo \in Path /\ o.entries \subseteq Node /\ o.dir \in BOOLEAN
  BY <1>1 DEF Out
<1>3. o.path \in Names /\ o.repo \in Names
  BY <1>2, RootIsPath DEF Path
<1> QED
  BY <1>1, <1>2, <1>3, PathOrder

(* The empty workspace is well formed. *)
LEMMA InitWsOK == Init => WsOK
<1> SUFFICES ASSUME Init PROVE WsOK
  OBVIOUS
<1>1. WsTypes
  BY OverlayAssumption DEF Init, WsTypes
<1>2. Layout
  BY DEF Init, Layout
<1>3. Outputs
  BY FS_EmptySet DEF Init, Outputs
<1> QED
  BY <1>1, <1>2, <1>3 DEF WsOK

(* A step that leaves the workspace alone keeps it well formed. *)
LEMMA SameWsOK ==
    ASSUME WsOK, UNCHANGED <<ws, outs, subrepos, mode, edits>>
    PROVE  WsOK'
<1>1. WsTypes'
  BY DEF WsOK, WsTypes
<1>2. Layout'
  BY DEF WsOK, Layout
<1>3. Outputs'
  BY DEF WsOK, Outputs
<1> QED
  BY <1>1, <1>2, <1>3 DEF WsOK

(* What every edit does to the mode and to the counter of edits. *)
LEMMA EditTypes ==
    ASSUME WsTypes, Edit
    PROVE  mode' \in [git : BOOLEAN, traverse : BOOLEAN] /\ edits' \in 0..MaxEdits
BY OverlayAssumption DEF WsTypes, Edit

(* A file or a link that a user puts somewhere. *)
LEMMA PutWsOK ==
    ASSUME WsOK, NEW p \in Node, NEW kind \in {"file", "link"}, Put(p, kind)
    PROVE  WsOK'
<1>1. /\ ws[p] \in {"none", "file"}
      /\ \A q \in Above(p) : ws[q] \in {"none", "dir"}
      /\ ws' = [q \in Node |-> IF q = p THEN kind ELSE IF q \in Above(p) THEN "dir" ELSE ws[q]]
      /\ outs' = outs /\ subrepos' = subrepos /\ Edit
  BY DEF Put
<1>2. WsTypes /\ Layout /\ Outputs
  BY DEF WsOK
<1>3. WsTypes'
  <2>1. ws' \in [Node -> {"none", "file", "dir", "link"}]
    BY <1>1, <1>2 DEF WsTypes
  <2> QED
    BY <1>1, <1>2, <2>1, EditTypes DEF WsTypes
<1>4. \A q \in Node : q \in Names
  BY RootIsPath DEF Path
<1>5. ASSUME NEW x \in Node, ws'[x] # "none", NEW q \in Node, In(x, q) PROVE ws'[q] = "dir"
  <2>1. p \in Names /\ x \in Names /\ q \in Names
    BY <1>4
  <2>2. CASE q \in Above(p)
    <3>1. q # p
      BY <2>1, <2>2, PathOrder DEF Above
    <3> QED
      BY <1>1, <2>2, <3>1
  <2>3. CASE q \notin Above(p)
    <3>1. ~In(p, q)
      BY <2>3 DEF Above
    <3>2. x # p
      BY <1>5, <3>1
    <3>3. x \notin Above(p)
      BY <1>5, <2>1, <3>1, PathOrder DEF Above
    <3>4. ws'[x] = ws[x]
      BY <1>1, <3>2, <3>3
    <3>5. ws[q] = "dir"
      BY <1>2, <1>5, <3>4 DEF Layout
    <3>6. q # p
      BY <1>1, <3>5
    <3> QED
      BY <1>1, <2>3, <3>5, <3>6
  <2> QED
    BY <2>2, <2>3
<1>6. ASSUME NEW s \in subrepos' PROVE ws'[s] = "dir"
  <2>1. s \in Node /\ ws[s] = "dir"
    BY <1>1, <1>2, <1>6 DEF Layout, WsTypes
  <2>2. s # p
    BY <1>1, <2>1
  <2> QED
    BY <1>1, <2>1, <2>2
<1>7. Layout'
  BY <1>5, <1>6 DEF Layout
<1>8. Outputs'
  BY <1>1, <1>2 DEF Outputs
<1> QED
  BY <1>3, <1>7, <1>8 DEF WsOK

(* Without a path and all that is in it, what is there is still in          *)
(* directories.                                                            *)
LEMMA GoneLayout ==
    ASSUME WsOK, NEW p \in Node
    PROVE  /\ Gone(ws, p) \in [Node -> {"none", "file", "dir", "link"}]
           /\ \A x \in Node : Gone(ws, p)[x] # "none" =>
                 \A q \in Node : In(x, q) => Gone(ws, p)[q] = "dir"
           /\ \A x \in Node : ~InOrEq(x, p) => Gone(ws, p)[x] = ws[x]
<1> DEFINE w == Gone(ws, p)
<1>1. w = [q \in Node |-> IF InOrEq(q, p) THEN "none" ELSE ws[q]]
  BY DEF Gone
<1>2. ws \in [Node -> {"none", "file", "dir", "link"}] /\ Layout
  BY DEF WsOK, WsTypes
<1> HIDE DEF w
<1>3. w \in [Node -> {"none", "file", "dir", "link"}]
  BY <1>1, <1>2
<1>4. ASSUME NEW x \in Node, w[x] # "none", NEW q \in Node, In(x, q) PROVE w[q] = "dir"
  <2>1. p \in Names /\ x \in Names /\ q \in Names
    BY RootIsPath DEF Path
  <2>2. ~InOrEq(x, p) /\ ws[x] # "none"
    BY <1>1, <1>4
  <2>3. ~InOrEq(q, p)
    BY <1>4, <2>1, <2>2, PathOrder
  <2>4. ws[q] = "dir"
    BY <1>2, <1>4, <2>2 DEF Layout
  <2> QED
    BY <1>1, <2>3, <2>4
<1>5. \A x \in Node : ~InOrEq(x, p) => w[x] = ws[x]
  BY <1>1
<1> QED
  BY <1>3, <1>4, <1>5 DEF w

(* A path that a user removes, and all that is in it. *)
LEMMA RemoveWsOK ==
    ASSUME WsOK, NEW p \in Node, RemovePath(p)
    PROVE  WsOK'
<1>1. /\ ws' = Gone(ws, p) /\ Edit
      /\ subrepos' = {s \in subrepos : ~InOrEq(s, p)}
      /\ outs' = {o \in outs : ~InOrEq(o.repo, p)}
  BY DEF RemovePath
<1>2. WsTypes /\ Layout /\ Outputs
  BY DEF WsOK
<1>3. WsTypes'
  BY <1>1, <1>2, GoneLayout, EditTypes DEF WsTypes
<1>4. Layout'
  <2>1. \A s \in subrepos' : ws'[s] = "dir"
    BY <1>1, <1>2, GoneLayout DEF Layout, WsTypes
  <2> QED
    BY <1>1, <2>1, GoneLayout DEF Layout
<1>5. Outputs'
  <2>1. IsFiniteSet(outs')
    BY <1>1, <1>2, FS_Subset DEF Outputs
  <2> QED
    BY <1>1, <1>2, <2>1 DEF Outputs
<1> QED
  BY <1>3, <1>4, <1>5 DEF WsOK

(* dvc init --subdir: no output of a repository above has a path in the new*)
(* one.                                                                    *)
LEMMA InitSubrepoWsOK ==
    ASSUME WsOK, NEW d \in Node, InitSubrepo(d)
    PROVE  WsOK'
<1>1. /\ ws[d] = "dir" /\ Edit /\ ws' = ws /\ outs' = outs
      /\ \A o \in outs : ~InOrEq(o.path, d) /\ ~InOrEq(d, o.path)
      /\ subrepos' = subrepos \cup {d}
  BY DEF InitSubrepo
<1>2. WsTypes /\ Layout /\ Outputs
  BY DEF WsOK
<1>3. WsTypes'
  BY <1>1, <1>2, EditTypes DEF WsTypes
<1>4. Layout'
  BY <1>1, <1>2 DEF Layout
<1>5. ASSUME NEW o \in outs PROVE Clear(o, d)
  <2>1. ASSUME NEW e \in o.entries, InOrEq(e, d) PROVE FALSE
    <3>1. InOrEq(e, o.path) /\ e \in Node /\ o.path \in Node
      <4>1. In(e, o.path) /\ o \in Out
        BY <1>2 DEF Outputs, Flat, WsTypes
      <4>2. e \in Node /\ o.path \in Node
        BY <4>1 DEF Out
      <4> QED
        BY <4>1, <4>2, PathOrder, RootIsPath DEF Path
    <3>2. e \in Names /\ d \in Names /\ o.path \in Names
      BY <3>1, RootIsPath DEF Path
    <3> QED
      BY <1>1, <2>1, <3>1, <3>2, PathOrder
  <2> QED
    BY <1>1, <2>1 DEF Clear
<1>6. Outputs'
  BY <1>1, <1>2, <1>5 DEF Outputs
<1> QED
  BY <1>3, <1>4, <1>6 DEF WsOK

(* dvc add: Stages.check_graph refuses an output that overlaps another. *)
LEMMA AddOutWsOK ==
    ASSUME WsOK, NEW p \in Node, AddOut(p)
    PROVE  WsOK'
<1> DEFINE r == Home(p)
           es == {q \in Node : In(q, p) /\ ws[q] = "file" /\ Home(q) = r}
           n == [repo |-> r, path |-> p, dir |-> ws[p] = "dir", entries |-> es]
<1>1. /\ Edit /\ ws[p] \in {"file", "dir"} /\ p \notin subrepos
      /\ \A o \in outs : o.repo = r => ~InOrEq(o.path, p) /\ ~InOrEq(p, o.path)
      /\ outs' = outs \cup {n}
      /\ ws' = IF mode.git THEN Gone(ws, p) ELSE ws
      /\ subrepos' = IF mode.git THEN {s \in subrepos : ~In(s, p)} ELSE subrepos
  BY DEF AddOut, Outs
<1>2. WsTypes /\ Layout /\ Outputs
  BY DEF WsOK
<1>3. subrepos \subseteq Node /\ p \in Names
  BY <1>2, RootIsPath DEF WsTypes, Path
<1>4. /\ r \in subrepos \cup {Root} /\ r \in Names /\ InOrEq(p, r)
      /\ \A s \in subrepos \cup {Root} : InOrEq(p, s) => InOrEq(r, s)
  BY <1>3, HomeIs
<1>5. \A q \in es : q \in Node /\ q \in Names /\ In(q, p) /\ ws[q] = "file" /\ Home(q) = r
  BY RootIsPath DEF Path
<1>6. n.repo = r /\ n.path = p /\ n.dir = (ws[p] = "dir") /\ n.entries = es
  OBVIOUS
<1>7. n \in Out
  <2>1. r \in Path /\ es \subseteq Node /\ (ws[p] = "dir") \in BOOLEAN
    BY <1>3, <1>4 DEF Path
  <2> HIDE DEF r, es
  <2> QED
    BY <2>1 DEF Out
<1> HIDE DEF r, es, n
<1>8. In(n.path, n.repo)
  <2>1. p # r
    BY <1>1, <1>4, RootIsPath
  <2> QED
    BY <1>3, <1>4, <1>6, <2>1, PathOrder
<1>9. WsTypes'
  <2>1. ws' \in [Node -> {"none", "file", "dir", "link"}]
    BY <1>1, <1>2, GoneLayout DEF WsTypes
  <2>2. \A o \in outs' : o \in Out /\ In(o.path, o.repo)
    BY <1>1, <1>2, <1>7, <1>8 DEF WsTypes
  <2>3. subrepos' \subseteq Node
    BY <1>1, <1>3
  <2> QED
    BY <1>1, <1>2, <2>1, <2>2, <2>3, EditTypes DEF WsTypes
<1>10. Layout'
  <2>1. CASE mode.git
    <3>1. \A s \in subrepos' : s \in subrepos /\ s \in Node /\ ~InOrEq(s, p)
      BY <1>1, <1>3, <2>1, PathOrder, RootIsPath DEF Path
    <3>2. \A s \in subrepos' : ws'[s] = "dir"
      BY <1>1, <1>2, <2>1, <3>1, GoneLayout DEF Layout
    <3> QED
      BY <1>1, <2>1, <3>2, GoneLayout DEF Layout
  <2>2. CASE ~mode.git
    BY <1>1, <1>2, <2>2 DEF Layout
  <2> QED
    BY <2>1, <2>2
<1>11. Flat(n)
  <2>1. ASSUME NEW e \in es PROVE In(e, p) /\ ws[p] = "dir"
    BY <1>2, <1>5 DEF Layout
  <2>2. ASSUME NEW e \in es, NEW f \in es PROVE ~In(e, f)
    BY <1>2, <1>5 DEF Layout
  <2> QED
    BY <1>6, <2>1, <2>2 DEF Flat
<1>12. \A o, q \in outs' : o # q /\ o.repo = q.repo => ~InOrEq(o.path, q.path)
  BY <1>1, <1>2, <1>6 DEF Outputs
<1>13. ASSUME NEW s \in subrepos, In(s, r) PROVE Clear(n, s)
  <2>1. s \in Names
    BY <1>3, RootIsPath DEF Path
  <2>2. ~InOrEq(p, s)
    BY <1>4, <1>13, <2>1, PathOrder
  <2>3. ASSUME NEW e \in es PROVE ~InOrEq(e, s)
    <3>1. e \in Names /\ Home(e) = r
      BY <1>5
    <3>2. InOrEq(e, s) => InOrEq(r, s)
      BY <1>3, <3>1, HomeIs
    <3> QED
      BY <1>4, <1>13, <2>1, <3>2, PathOrder
  <2> QED
    BY <1>6, <2>2, <2>3 DEF Clear
<1>14. IsFiniteSet(outs')
  BY <1>1, <1>2, FS_AddElement DEF Outputs
<1>15. \A s \in subrepos' : s \in subrepos
  BY <1>1
<1>16. \A o \in outs' : Flat(o)
  BY <1>1, <1>2, <1>11 DEF Outputs
<1>17. \A o \in outs' : \A s \in subrepos' : In(s, o.repo) => Clear(o, s)
  BY <1>1, <1>2, <1>6, <1>13, <1>15 DEF Outputs
<1>18. Outputs'
  BY <1>12, <1>14, <1>16, <1>17 DEF Outputs
<1> QED
  BY <1>9, <1>10, <1>18 DEF WsOK

-----------------------------------------------------------------------------
(* Loops, and what they keep of a sequence.                                *)

(* What holds at first, and after a turn when it has held before, holds    *)
(* after each turn.                                                        *)
LEMMA Turns ==
    ASSUME NEW n \in Nat, NEW P, 0 \in P, \A i \in 1..n : i - 1 \in P => i \in P
    PROVE  \A i \in 0..n : i \in P
<1> DEFINE Bad == {i \in 0..n : i \notin P}
<1> SUFFICES ASSUME Bad # {} PROVE FALSE
  OBVIOUS
<1>1. PICK i \in Bad : \A j \in Bad : i <= j
  <2>1. Bad \in SUBSET Nat
    OBVIOUS
  <2> HIDE DEF Bad
  <2> QED
    BY <2>1, LeastExists
<1>2. i \in 1..n /\ i - 1 \notin Bad
  BY <1>1
<1> QED
  BY <1>1, <1>2

(* A loop of n turns has a function of what it has come to. *)
IsLoop(g, A, n, base, f) ==
    /\ g \in [0..n -> A]
    /\ g[0] = base
    /\ \A i \in 1..n : g[i] = f[<<g[i - 1], i>>]

(* A loop over the numbers to n is a function: there is one. *)
LEMMA LoopExists ==
    ASSUME NEW A, NEW n \in Nat, NEW base \in A, NEW f \in [A \X (1..n) -> A]
    PROVE  \E g : IsLoop(g, A, n, base, f)
<1> DEFINE Turn(g, i) == IF i = 0 THEN base ELSE f[<<g[i - 1], i>>]
           Runs(g, k) == g \in [0..k -> A] /\ \A i \in 0..k : g[i] = Turn(g, i)
           P == {k \in 0..n : \E g : Runs(g, k)}
<1>1. 0 \in P
  <2> DEFINE g == [i \in 0..0 |-> base]
  <2>1. g \in [0..0 -> A] /\ g[0] = base /\ \A i \in 0..0 : i = 0
    OBVIOUS
  <2>2. \A i \in 0..0 : g[i] = Turn(g, i)
    BY <2>1
  <2>3. Runs(g, 0)
    BY <2>1, <2>2
  <2> HIDE DEF Runs
  <2> QED
    BY <2>3
<1>2. ASSUME NEW k \in 1..n, k - 1 \in P PROVE k \in P
  <2>1. PICK g : Runs(g, k - 1)
    BY <1>2
  <2>2. k - 1 \in 0..(k - 1) /\ g[k - 1] \in A
    BY <2>1
  <2> DEFINE last == f[<<g[k - 1], k>>]
             h == [i \in 0..k |-> IF i = k THEN last ELSE g[i]]
  <2>3. last \in A
    BY <2>2
  <2>4. h \in [0..k -> A]
    BY <2>1, <2>3
  <2>5. ASSUME NEW i \in 0..k PROVE h[i] = Turn(h, i)
    <3>1. CASE i = k
      <4>1. i # 0 /\ h[i - 1] = g[k - 1] /\ h[i] = last
        BY <3>1
      <4> QED
        BY <4>1, <3>1
    <3>2. CASE i # k
      <4>1. i \in 0..(k - 1) /\ h[i] = g[i] /\ (i # 0 => h[i - 1] = g[i - 1])
        BY <3>2
      <4>2. g[i] = Turn(g, i)
        BY <2>1, <4>1
      <4> QED
        BY <4>1, <4>2
    <3> QED
      BY <3>1, <3>2
  <2>6. Runs(h, k)
    BY <2>4, <2>5
  <2> HIDE DEF Runs
  <2> QED
    BY <2>6
<1>3. n \in P
  <2> HIDE DEF P
  <2> QED
    BY <1>1, <1>2, Turns
<1>4. PICK g : Runs(g, n)
  BY <1>3
<1>5. g[0] = base
  <2>1. 0 \in 0..n
    OBVIOUS
  <2> QED
    BY <1>4, <2>1
<1>6. ASSUME NEW i \in 1..n PROVE g[i] = f[<<g[i - 1], i>>]
  <2>1. i \in 0..n /\ i # 0
    OBVIOUS
  <2> QED
    BY <1>4, <2>1
<1> QED
  BY <1>4, <1>5, <1>6 DEF IsLoop

(* What a sequence keeps: its elements in a set, each at the place to which *)
(* an increasing function takes the place it had.                           *)
Picks(k, seq, n, S) ==
    \E m \in [1..Len(k) -> 1..n] :
        /\ \A i \in 1..Len(k) : k[i] = seq[m[i]]
        /\ \A i, j \in 1..Len(k) : i < j => m[i] < m[j]
        /\ \A q \in 1..n : seq[q] \in S <=> \E i \in 1..Len(k) : m[i] = q

(* What a loop has picked after one more element. *)
LEMMA PicksNext ==
    ASSUME NEW T, NEW seq \in Seq(T), NEW S, NEW n \in 1..Len(seq),
           NEW k \in Seq(T), Picks(k, seq, n - 1, S)
    PROVE  IF seq[n] \in S THEN Append(k, seq[n]) \in Seq(T) /\ Picks(Append(k, seq[n]), seq, n, S)
           ELSE Picks(k, seq, n, S)
<1>1. PICK m \in [1..Len(k) -> 1..(n - 1)] :
         /\ \A i \in 1..Len(k) : k[i] = seq[m[i]]
         /\ \A i, j \in 1..Len(k) : i < j => m[i] < m[j]
         /\ \A q \in 1..(n - 1) : seq[q] \in S <=> \E i \in 1..Len(k) : m[i] = q
  BY DEF Picks
<1>2. Len(k) \in Nat /\ Len(seq) \in Nat /\ n \in Nat
  BY LenProperties
<1>3. CASE seq[n] \in S
  <2> DEFINE a == Append(k, seq[n])
             l == [i \in 1..(Len(k) + 1) |-> IF i = Len(k) + 1 THEN n ELSE m[i]]
  <2>1. seq[n] \in T
    BY <1>2, ElementOfSeq
  <2>2. /\ a \in Seq(T) /\ Len(a) = Len(k) + 1 /\ a[Len(k) + 1] = seq[n]
        /\ \A i \in 1..Len(k) : a[i] = k[i]
    BY <2>1, AppendProperties
  <2> HIDE DEF a
  <2>3. l \in [1..Len(a) -> 1..n]
    BY <1>2, <2>2
  <2>4. l[Len(k) + 1] = n /\ \A i \in 1..Len(k) : l[i] = m[i]
    BY <1>2
  <2> HIDE DEF l
  <2>5. \A i \in 1..Len(a) : a[i] = seq[l[i]]
    BY <1>1, <1>2, <2>2, <2>4
  <2>6. ASSUME NEW i \in 1..Len(a), NEW j \in 1..Len(a), i < j PROVE l[i] < l[j]
    <3>4. i \in Nat /\ i > 0 /\ j \in Nat /\ j <= Len(k) + 1
      BY <1>2, <2>2
    <3>5. i \in 1..Len(k)
      BY <1>2, <2>6, <3>4
    <3>1. l[i] = m[i] /\ m[i] < n
      BY <1>2, <2>4, <3>5
    <3>2. CASE j = Len(k) + 1
      <4>1. l[j] = n
        BY <2>4, <3>2
      <4> QED
        BY <3>1, <4>1
    <3>3. CASE j # Len(k) + 1
      <4>1. j \in 1..Len(k)
        BY <1>2, <2>2, <3>3
      <4> QED
        BY <1>1, <2>4, <2>6, <3>5, <4>1
    <3> QED
      BY <3>2, <3>3
  <2>7. ASSUME NEW q \in 1..n PROVE seq[q] \in S <=> \E i \in 1..Len(a) : l[i] = q
    <3>1. CASE q = n
      BY <1>2, <1>3, <2>2, <2>4, <3>1
    <3>2. CASE q # n
      <4>1. q \in 1..(n - 1)
        BY <1>2, <3>2
      <4>2. seq[q] \in S <=> \E i \in 1..Len(k) : m[i] = q
        BY <1>1, <4>1
      <4>3. \A i \in 1..Len(a) : l[i] = q <=> i \in 1..Len(k) /\ m[i] = q
        BY <1>2, <2>2, <2>4, <3>2
      <4>4. \A i \in 1..Len(k) : i \in 1..Len(a)
        BY <1>2, <2>2
      <4> QED
        BY <4>2, <4>3, <4>4
    <3> QED
      BY <3>1, <3>2
  <2>8. Picks(a, seq, n, S)
    BY <2>3, <2>5, <2>6, <2>7 DEF Picks
  <2> QED
    BY <1>3, <2>2, <2>8 DEF a
<1>4. CASE seq[n] \notin S
  <2>1. m \in [1..Len(k) -> 1..n]
    BY <1>2
  <2>2. \A q \in 1..n : seq[q] \in S <=> \E i \in 1..Len(k) : m[i] = q
    BY <1>1, <1>2, <1>4
  <2> QED
    BY <1>1, <1>4, <2>1, <2>2 DEF Picks
<1> QED
  BY <1>3, <1>4

(* Follow keeps, in their order, the names of a set. *)
LEMMA FollowPicks ==
    ASSUME NEW T, NEW seq \in Seq(T), NEW S
    PROVE  Follow(seq, S) \in Seq(T) /\ Picks(Follow(seq, S), seq, Len(seq), S)
<1> DEFINE n == Len(seq)
           A == Seq(T)
           Turn(g, i) == IF i = 0 THEN <<>>
                         ELSE IF seq[i] \in S THEN Append(g[i - 1], seq[i]) ELSE g[i - 1]
           Runs(g) == g = [i \in 0..n |-> Turn(g, i)]
           kept == CHOOSE g : Runs(g)
           f == [x \in A \X (1..n) |->
                    IF seq[x[2]] \in S THEN Append(x[1], seq[x[2]]) ELSE x[1]]
<1>1. n \in Nat /\ \A i \in 1..n : seq[i] \in T
  BY LenProperties, ElementOfSeq
<1>2. f \in [A \X (1..n) -> A]
  BY <1>1, AppendProperties
<1>3. <<>> \in A
  OBVIOUS
<1>8. Follow(seq, S) = kept[n]
  BY DEF Follow
<1> HIDE DEF n
<1>4. PICK g : IsLoop(g, A, n, <<>>, f)
  <2> HIDE DEF f, A
  <2> QED
    BY <1>1, <1>2, <1>3, LoopExists
<1>5. \A i \in 0..n : g[i] = Turn(g, i)
  <2> SUFFICES ASSUME NEW i \in 0..n PROVE g[i] = Turn(g, i)
    OBVIOUS
  <2>1. CASE i = 0
    BY <1>4, <2>1 DEF IsLoop
  <2>2. CASE i # 0
    <3>1. i \in 1..n /\ i - 1 \in 0..n /\ g[i - 1] \in A
      BY <1>1, <1>4, <2>2 DEF IsLoop
    <3>2. f[<<g[i - 1], i>>] = IF seq[i] \in S THEN Append(g[i - 1], seq[i]) ELSE g[i - 1]
      BY <3>1
    <3> QED
      BY <1>4, <2>2, <3>1, <3>2 DEF IsLoop
  <2> QED
    BY <2>1, <2>2
<1>6. Runs(g)
  <2>1. g \in [0..n -> A]
    BY <1>4 DEF IsLoop
  <2> HIDE DEF Turn
  <2> QED
    BY <1>5, <2>1
<1>7. Runs(kept)
  <2> HIDE DEF Runs
  <2> QED
    BY <1>6
<1> HIDE DEF kept
<1>9. \A i \in 0..n : kept[i] = Turn(kept, i)
  <2> HIDE DEF Turn
  <2> QED
    BY <1>7
<1> HIDE DEF Runs, A
<1> DEFINE P == {i \in 0..n : kept[i] \in Seq(T) /\ Picks(kept[i], seq, i, S)}
<1>10. 0 \in P
  <2>1. kept[0] = <<>>
    BY <1>1, <1>9
  <2>2. Picks(<<>>, seq, 0, S)
    <3>1. Len(<<>>) = 0 /\ ~\E i \in 1..0 : TRUE
      BY EmptySeq
    <3>2. [i \in 1..0 |-> 1] \in [1..0 -> 1..0]
      BY <3>1
    <3> QED
      BY <3>1, <3>2 DEF Picks
  <2>3. <<>> \in Seq(T)
    OBVIOUS
  <2>4. 0 \in 0..n
    BY <1>1
  <2> QED
    BY <2>1, <2>2, <2>3, <2>4
<1>11. ASSUME NEW i \in 1..n, i - 1 \in P PROVE i \in P
  <2>1. kept[i] = IF seq[i] \in S THEN Append(kept[i - 1], seq[i]) ELSE kept[i - 1]
    BY <1>1, <1>9
  <2>2. kept[i - 1] \in Seq(T) /\ Picks(kept[i - 1], seq, i - 1, S)
    BY <1>11
  <2>3. kept[i] \in Seq(T) /\ Picks(kept[i], seq, i, S)
    BY <2>1, <2>2, PicksNext DEF n
  <2> QED
    BY <2>3
<1>12. n \in P
  <2> HIDE DEF P
  <2>1. \A i \in 0..n : i \in P
    BY <1>1, <1>10, <1>11, Turns
  <2> QED
    BY <1>1, <2>1
<1> QED
  BY <1>8, <1>12 DEF n

-----------------------------------------------------------------------------
(* The orders of names.                                                    *)

(* Each name of a set is in the sequence, at one place.                    *)
EachOnce(s, S) ==
    /\ s \in Seq(S)
    /\ \A i, j \in 1..Len(s) : s[i] = s[j] => i = j
    /\ \A x \in S : \E i \in 1..Len(s) : s[i] = x

(* An order of a set has each of its members once. *)
LEMMA OrdersAreOnce ==
    ASSUME NEW S, IsFiniteSet(S), NEW s \in Orders(S)
    PROVE  EachOnce(s, S)
<1> DEFINE n == Cardinality(S)
<1>1. n \in Nat
  BY FS_CardinalityType
<1>2. s \in [1..n -> S] /\ \A i, j \in 1..n : i # j => s[i] # s[j]
  BY DEF Orders, SetToSeqs
<1>3. IsFiniteSet(1..n) /\ Cardinality(1..n) = n
  BY <1>1, FS_Interval
<1>4. s \in Injection(1..n, S)
  BY <1>2 DEF Injection, IsInjective
<1>5. Cardinality(1..n) = Cardinality(S)
  BY <1>3
<1> HIDE DEF n
<1>6. s \in Surjection(1..n, S)
  BY <1>4, <1>5, FS_Injection
<1>7. s \in Seq(S) /\ Len(s) = n
  BY <1>1, <1>2
<1>8. \A x \in S : \E i \in 1..n : s[i] = x
  BY <1>6 DEF Surjection
<1> QED
  BY <1>2, <1>7, <1>8 DEF EachOnce

(* An order of one set, and then of another one apart from it. *)
LEMMA BothOnce ==
    ASSUME NEW S, NEW T, S \cap T = {}, NEW s, NEW t, EachOnce(s, S), EachOnce(t, T)
    PROVE  EachOnce(s \o t, S \cup T)
<1> DEFINE U == S \cup T
           c == s \o t
           n == Len(s)
           k == Len(t)
<1>1. s \in Seq(U) /\ t \in Seq(U)
  <2>1. s \in Seq(S) /\ t \in Seq(T) /\ S \subseteq U /\ T \subseteq U
    BY DEF EachOnce
  <2> HIDE DEF U
  <2> QED
    BY <2>1, SeqMonotonic
<1>2. n \in Nat /\ k \in Nat
  BY <1>1, LenProperties
<1>3. (\A i \in 1..n : s[i] \in S) /\ (\A i \in 1..k : t[i] \in T)
  BY ElementOfSeq DEF EachOnce
<1>4. c \in Seq(U) /\ Len(c) = n + k
      /\ \A i \in 1..(n + k) : c[i] = IF i <= n THEN s[i] ELSE t[i - n]
  <2> HIDE DEF U
  <2> QED
    BY <1>1, ConcatProperties
<1>5. /\ \A i, j \in 1..n : s[i] = s[j] => i = j
      /\ \A i, j \in 1..k : t[i] = t[j] => i = j
      /\ \A x \in S : \E i \in 1..n : s[i] = x
      /\ \A x \in T : \E i \in 1..k : t[i] = x
  BY DEF EachOnce
<1> HIDE DEF c, n, k
<1>6. ASSUME NEW i \in 1..(n + k), NEW j \in 1..(n + k), c[i] = c[j] PROVE i = j
  <2>1. CASE i <= n /\ j <= n
    <3>1. i \in 1..n /\ j \in 1..n /\ c[i] = s[i] /\ c[j] = s[j]
      BY <1>2, <1>4, <2>1
    <3> QED
      BY <1>5, <1>6, <3>1
  <2>2. CASE i > n /\ j > n
    <3>1. i - n \in 1..k /\ j - n \in 1..k /\ c[i] = t[i - n] /\ c[j] = t[j - n]
      BY <1>2, <1>4, <2>2
    <3>2. i - n = j - n
      BY <1>5, <1>6, <3>1
    <3> QED
      BY <1>2, <3>2
  <2>3. ASSUME NEW x \in 1..(n + k), NEW y \in 1..(n + k), x <= n, y > n PROVE c[x] # c[y]
    <3>1. x \in 1..n /\ y - n \in 1..k /\ c[x] = s[x] /\ c[y] = t[y - n]
      BY <1>2, <1>4, <2>3
    <3> QED
      BY <1>3, <3>1
  <2>4. (i <= n \/ i > n) /\ (j <= n \/ j > n)
    BY <1>2
  <2> QED
    BY <1>6, <2>1, <2>2, <2>3, <2>4
<1>7. ASSUME NEW x \in U PROVE \E i \in 1..(n + k) : c[i] = x
  <2>1. CASE x \in S
    <3>1. PICK i \in 1..n : s[i] = x
      BY <1>5, <2>1
    <3>2. i \in 1..(n + k) /\ i <= n
      BY <1>2
    <3> QED
      BY <1>4, <3>1, <3>2
  <2>2. CASE x \in T
    <3>1. PICK i \in 1..k : t[i] = x
      BY <1>5, <2>2
    <3>2. i + n \in 1..(n + k) /\ ~(i + n <= n) /\ (i + n) - n = i
      BY <1>2
    <3> QED
      BY <1>4, <3>1, <3>2
  <2> QED
    BY <2>1, <2>2
<1>8. EachOnce(c, U)
  <2> HIDE DEF U
  <2> QED
    BY <1>4, <1>6, <1>7 DEF EachOnce
<1> QED
  BY <1>8 DEF c

(* The names of both trees, merged, are each there once (RepoTree._walk). *)
LEMMA MergedAreOnce ==
    ASSUME NEW D, NEW R, IsFiniteSet(D), IsFiniteSet(R), NEW names \in Merged(D, R)
    PROVE  EachOnce(names, D \cup R)
<1>1. PICK a \in Orders(D \cap R), b \in Orders(D \ R), c \in Orders(R \ D) : names = a \o b \o c
  BY DEF Merged
<1>2. IsFiniteSet(D \cap R) /\ IsFiniteSet(D \ R) /\ IsFiniteSet(R \ D)
  BY FS_Subset, FS_Intersection, FS_Difference
<1>3. EachOnce(a, D \cap R) /\ EachOnce(b, D \ R) /\ EachOnce(c, R \ D)
  BY <1>2, OrdersAreOnce
<1>4. EachOnce(a \o b, (D \cap R) \cup (D \ R))
  <2>1. (D \cap R) \cap (D \ R) = {}
    OBVIOUS
  <2> QED
    BY <1>3, <2>1, BothOnce
<1>5. (D \cap R) \cup (D \ R) = D /\ D \cap (R \ D) = {} /\ D \cup (R \ D) = D \cup R
  OBVIOUS
<1>6. EachOnce(a \o b, D)
  BY <1>4, <1>5
<1>7. EachOnce((a \o b) \o c, D \cup (R \ D))
  BY <1>3, <1>5, <1>6, BothOnce
<1> QED
  BY <1>1, <1>5, <1>7

-----------------------------------------------------------------------------
(* Generators and turns.                                                   *)

(* What a generator has left is what the turns in T are for, in their       *)
(* order.                                                                  *)
Lined(gen, todo, T) ==
    \E m \in [1..Len(gen) -> 1..Len(todo)] :
        /\ \A i \in 1..Len(gen) : gen[i] = todo[m[i]].dir
        /\ \A i, j \in 1..Len(gen) : i < j => m[i] < m[j]
        /\ \A q \in 1..Len(todo) : todo[q] \in T <=> \E i \in 1..Len(gen) : m[i] = q

(* When no turn is left, a generator that is lined up has nothing left. *)
LEMMA LinedAtEnd ==
    ASSUME NEW A, NEW gen \in Seq(A), NEW T, Lined(gen, <<>>, T)
    PROVE  gen = <<>>
<1>1. PICK m \in [1..Len(gen) -> 1..Len(<<>>)] : TRUE
  BY DEF Lined
<1>2. Len(<<>>) = 0 /\ Len(gen) \in Nat
  BY EmptySeq, LenProperties
<1>3. 1 \notin 1..Len(gen)
  <2> SUFFICES ASSUME 1 \in 1..Len(gen) PROVE FALSE
    OBVIOUS
  <2>1. m[1] \in 1..0
    BY <1>1, <1>2
  <2> QED
    BY <2>1
<1> QED
  BY <1>2, <1>3, EmptySeq

(* A generator with nothing left is lined up with turns that are not its   *)
(* own.                                                                    *)
LEMMA NoneLined ==
    ASSUME NEW X, NEW todo \in Seq(X), NEW T, \A q \in 1..Len(todo) : todo[q] \notin T
    PROVE  Lined(<<>>, todo, T)
<1>1. Len(<<>>) = 0 /\ Len(todo) \in Nat
  BY EmptySeq, LenProperties
<1>2. [i \in 1..0 |-> 1] \in [1..0 -> 1..Len(todo)] /\ ~\E i \in 1..0 : TRUE
  OBVIOUS
<1> QED
  BY <1>1, <1>2 DEF Lined

(* The next turn, when it is of a generator, is of the directory it is at. *)
LEMMA LinedHead ==
    ASSUME NEW A, NEW gen \in Seq(A), NEW X, NEW todo \in Seq(X), todo # <<>>,
           NEW T, Lined(gen, todo, T)
    PROVE  IF Head(todo) \in T
           THEN gen # <<>> /\ Head(gen) = Head(todo).dir /\ Lined(Tail(gen), Tail(todo), T)
           ELSE Lined(gen, Tail(todo), T)
<1> DEFINE n == Len(gen)
           k == Len(todo)
           rest == Tail(todo)
<1>1. n \in Nat /\ k \in Nat \ {0} /\ Head(todo) = todo[1]
  BY LenProperties, EmptySeq
<1>2. Len(rest) = k - 1 /\ \A i \in 1..(k - 1) : rest[i] = todo[i + 1]
  BY HeadTailProperties
<1>3. PICK m \in [1..n -> 1..k] :
        /\ \A i \in 1..n : gen[i] = todo[m[i]].dir
        /\ \A i, j \in 1..n : i < j => m[i] < m[j]
        /\ \A q \in 1..k : todo[q] \in T <=> \E i \in 1..n : m[i] = q
  BY DEF Lined
<1>4. CASE Head(todo) \in T
  <2>1. PICK i \in 1..n : m[i] = 1
    BY <1>1, <1>3, <1>4
  <2>2. 1 \in 1..n
    BY <1>1
  <2>3. m[1] = 1
    <3>1. 1 < i => m[1] < m[i]
      BY <1>3, <2>2
    <3>2. m[1] \in 1..k
      BY <1>3, <2>2
    <3> QED
      BY <2>1, <3>1, <3>2
  <2>4. gen # <<>>
    BY <2>2, EmptySeq DEF n
  <2>5. Head(gen) = Head(todo).dir
    BY <1>1, <1>3, <2>2, <2>3, <2>4
  <2> DEFINE tail == Tail(gen)
             l == [j \in 1..(n - 1) |-> m[j + 1] - 1]
  <2>6. Len(tail) = n - 1 /\ \A j \in 1..(n - 1) : tail[j] = gen[j + 1]
    BY <2>4, HeadTailProperties
  <2> HIDE DEF tail, rest, n, k
  <2>7. \A j \in 1..(n - 1) : j + 1 \in 1..n /\ m[j + 1] > 1 /\ m[j + 1] \in 1..k
    <3> SUFFICES ASSUME NEW j \in 1..(n - 1)
                 PROVE  j + 1 \in 1..n /\ m[j + 1] > 1 /\ m[j + 1] \in 1..k
      OBVIOUS
    <3>1. j + 1 \in 1..n /\ 1 < j + 1
      BY <1>1
    <3> QED
      BY <1>3, <2>2, <2>3, <3>1
  <2>8. l \in [1..(n - 1) -> 1..(k - 1)]
    <3>1. \A j \in 1..(n - 1) : m[j + 1] - 1 \in 1..(k - 1)
      BY <1>1, <2>7
    <3> QED
      BY <3>1
  <2>9. \A j \in 1..(n - 1) : l[j] = m[j + 1] - 1
    OBVIOUS
  <2> HIDE DEF l
  <2>10. \A j \in 1..(n - 1) : tail[j] = rest[l[j]].dir
    <3> SUFFICES ASSUME NEW j \in 1..(n - 1) PROVE tail[j] = rest[l[j]].dir
      OBVIOUS
    <3>1. l[j] \in 1..(k - 1) /\ l[j] + 1 = m[j + 1]
      BY <2>7, <2>8, <2>9
    <3>2. rest[l[j]] = todo[m[j + 1]]
      BY <1>2, <3>1
    <3> QED
      BY <1>3, <2>6, <2>7, <3>2
  <2>11. \A x, y \in 1..(n - 1) : x < y => l[x] < l[y]
    <3> SUFFICES ASSUME NEW x \in 1..(n - 1), NEW y \in 1..(n - 1), x < y PROVE l[x] < l[y]
      OBVIOUS
    <3>1. x + 1 \in 1..n /\ y + 1 \in 1..n /\ x + 1 < y + 1
      BY <1>1
    <3>2. m[x + 1] < m[y + 1]
      BY <1>3, <3>1
    <3> QED
      BY <1>1, <2>7, <2>9, <3>2
  <2>12. ASSUME NEW q \in 1..(k - 1)
         PROVE  rest[q] \in T <=> \E j \in 1..(n - 1) : l[j] = q
    <3>1. q + 1 \in 1..k /\ q + 1 # 1 /\ rest[q] = todo[q + 1]
      BY <1>1, <1>2
    <3>2. rest[q] \in T <=> \E j \in 1..n : m[j] = q + 1
      BY <1>3, <3>1
    <3>3. ASSUME NEW j \in 1..n, m[j] = q + 1 PROVE \E x \in 1..(n - 1) : l[x] = q
      <4>1. j # 1
        BY <2>3, <3>1, <3>3
      <4>2. j - 1 \in 1..(n - 1) /\ (j - 1) + 1 = j
        BY <1>1, <4>1
      <4>3. l[j - 1] = q
        BY <2>9, <3>3, <4>2
      <4> QED
        BY <4>2, <4>3
    <3>4. ASSUME NEW x \in 1..(n - 1), l[x] = q PROVE \E j \in 1..n : m[j] = q + 1
      <4>1. x + 1 \in 1..n /\ m[x + 1] = q + 1
        BY <2>7, <2>9, <3>4
      <4> QED
        BY <4>1
    <3> QED
      BY <3>2, <3>3, <3>4
  <2>13. Lined(tail, rest, T)
    <3>1. l \in [1..Len(tail) -> 1..Len(rest)]
      BY <1>2, <2>6, <2>8
    <3>2. \A x \in 1..Len(tail) : tail[x] = rest[l[x]].dir
      BY <2>6, <2>10
    <3>3. \A x, y \in 1..Len(tail) : x < y => l[x] < l[y]
      BY <2>6, <2>11
    <3>4. \A q \in 1..Len(rest) : rest[q] \in T <=> \E x \in 1..Len(tail) : l[x] = q
      BY <1>2, <2>6, <2>12
    <3> QED
      BY <3>1, <3>2, <3>3, <3>4 DEF Lined
  <2> QED
    BY <1>4, <2>4, <2>5, <2>13 DEF tail, rest
<1>5. CASE Head(todo) \notin T
  <2> DEFINE l == [j \in 1..n |-> m[j] - 1]
  <2> HIDE DEF n, k, rest
  <2>1. 1 \in 1..k
    BY <1>1
  <2>2. \A j \in 1..n : m[j] \in 1..k /\ m[j] # 1
    BY <1>1, <1>3, <1>5, <2>1
  <2>3. l \in [1..n -> 1..(k - 1)]
    <3>1. \A j \in 1..n : m[j] - 1 \in 1..(k - 1)
      BY <1>1, <2>2
    <3> QED
      BY <3>1
  <2>4. \A j \in 1..n : l[j] = m[j] - 1
    OBVIOUS
  <2> HIDE DEF l
  <2>5. \A j \in 1..n : gen[j] = rest[l[j]].dir
    <3> SUFFICES ASSUME NEW j \in 1..n PROVE gen[j] = rest[l[j]].dir
      OBVIOUS
    <3>1. l[j] \in 1..(k - 1) /\ l[j] + 1 = m[j]
      BY <2>2, <2>3, <2>4
    <3>2. rest[l[j]] = todo[m[j]]
      BY <1>2, <3>1
    <3> QED
      BY <1>3, <3>2
  <2>6. \A x, y \in 1..n : x < y => l[x] < l[y]
    <3> SUFFICES ASSUME NEW x \in 1..n, NEW y \in 1..n, x < y PROVE l[x] < l[y]
      OBVIOUS
    <3>1. m[x] < m[y] /\ l[x] = m[x] - 1 /\ l[y] = m[y] - 1
      BY <1>3, <2>4
    <3> QED
      BY <2>2, <3>1
  <2>7. ASSUME NEW q \in 1..(k - 1)
        PROVE  rest[q] \in T <=> \E j \in 1..n : l[j] = q
    <3>1. q + 1 \in 1..k /\ rest[q] = todo[q + 1]
      BY <1>1, <1>2
    <3>2. rest[q] \in T <=> \E j \in 1..n : m[j] = q + 1
      BY <1>3, <3>1
    <3>3. \A j \in 1..n : m[j] = q + 1 <=> l[j] = q
      BY <2>2, <2>4
    <3> QED
      BY <3>2, <3>3
  <2>8. Lined(gen, rest, T)
    <3>1. l \in [1..Len(gen) -> 1..Len(rest)]
      BY <1>2, <2>3 DEF n
    <3>2. \A i \in 1..Len(gen) : gen[i] = rest[l[i]].dir
      BY <2>5 DEF n
    <3>3. \A i, j \in 1..Len(gen) : i < j => l[i] < l[j]
      BY <2>6 DEF n
    <3>4. \A q \in 1..Len(rest) : rest[q] \in T <=> \E i \in 1..Len(gen) : l[i] = q
      BY <1>2, <2>7 DEF n
    <3> QED
      BY <3>1, <3>2, <3>3, <3>4 DEF Lined
  <2> QED
    BY <1>5, <2>8 DEF rest
<1> QED
  BY <1>4, <1>5

(* Two parts that are lined up, one after the other. *)
LEMMA LinedBoth ==
    ASSUME NEW A, NEW a \in Seq(A), NEW b \in Seq(A), NEW X, NEW x \in Seq(X), NEW y \in Seq(X),
           NEW T, Lined(a, x, T), Lined(b, y, T)
    PROVE  Lined(a \o b, x \o y, T)
<1> DEFINE na == Len(a)
           nb == Len(b)
           kx == Len(x)
           ky == Len(y)
           c == a \o b
           z == x \o y
<1>1. na \in Nat /\ nb \in Nat /\ kx \in Nat /\ ky \in Nat
  BY LenProperties
<1>2. Len(c) = na + nb /\ \A i \in 1..(na + nb) : c[i] = IF i <= na THEN a[i] ELSE b[i - na]
  BY ConcatProperties
<1>3. Len(z) = kx + ky /\ \A i \in 1..(kx + ky) : z[i] = IF i <= kx THEN x[i] ELSE y[i - kx]
  BY ConcatProperties
<1>4. PICK m \in [1..na -> 1..kx] :
        /\ \A i \in 1..na : a[i] = x[m[i]].dir
        /\ \A i, j \in 1..na : i < j => m[i] < m[j]
        /\ \A q \in 1..kx : x[q] \in T <=> \E i \in 1..na : m[i] = q
  BY DEF Lined
<1>5. PICK l \in [1..nb -> 1..ky] :
        /\ \A i \in 1..nb : b[i] = y[l[i]].dir
        /\ \A i, j \in 1..nb : i < j => l[i] < l[j]
        /\ \A q \in 1..ky : y[q] \in T <=> \E i \in 1..nb : l[i] = q
  BY DEF Lined
<1> HIDE DEF na, nb, kx, ky, c, z
<1> DEFINE f == [i \in 1..(na + nb) |-> IF i <= na THEN m[i] ELSE l[i - na] + kx]
           k == kx + ky
           n == na + nb
<1>6. ASSUME NEW i \in 1..n
      PROVE  \/ i \in 1..na /\ i <= na /\ f[i] = m[i] /\ m[i] \in 1..kx
             \/ i > na /\ i - na \in 1..nb /\ f[i] = l[i - na] + kx /\ l[i - na] \in 1..ky
  <2>1. CASE i <= na
    BY <1>1, <1>4, <2>1
  <2>2. CASE ~(i <= na)
    <3>1. i > na /\ i - na \in 1..nb
      BY <1>1, <2>2
    <3> QED
      BY <1>5, <2>2, <3>1
  <2> QED
    BY <2>1, <2>2
<1>7. /\ \A i \in 1..na : i \in 1..n /\ f[i] = m[i]
      /\ \A i \in 1..nb : i + na \in 1..n /\ f[i + na] = l[i] + kx
  <2>1. \A i \in 1..na : i \in 1..n /\ i <= na
    BY <1>1
  <2>2. \A i \in 1..nb : i + na \in 1..n /\ ~(i + na <= na) /\ (i + na) - na = i
    BY <1>1
  <2> QED
    BY <2>1, <2>2
<1> HIDE DEF f
<1>8. f \in [1..n -> 1..k]
  <2>1. \A i \in 1..n : f[i] \in 1..k
    <3> SUFFICES ASSUME NEW i \in 1..n PROVE f[i] \in 1..k
      OBVIOUS
    <3>1. CASE i \in 1..na /\ f[i] = m[i] /\ m[i] \in 1..kx
      BY <1>1, <3>1
    <3>2. CASE i - na \in 1..nb /\ f[i] = l[i - na] + kx /\ l[i - na] \in 1..ky
      BY <1>1, <3>2
    <3> QED
      BY <1>6, <3>1, <3>2
  <2> QED
    BY <2>1 DEF f
<1>9. \A i \in 1..n : c[i] = z[f[i]].dir
  <2> SUFFICES ASSUME NEW i \in 1..n PROVE c[i] = z[f[i]].dir
    OBVIOUS
  <2>1. CASE i \in 1..na /\ i <= na /\ f[i] = m[i] /\ m[i] \in 1..kx
    <3>1. c[i] = a[i]
      BY <1>2, <2>1
    <3>2. f[i] \in 1..k /\ f[i] <= kx
      BY <1>1, <2>1
    <3>3. z[f[i]] = x[m[i]]
      BY <1>3, <2>1, <3>2
    <3> QED
      BY <1>4, <2>1, <3>1, <3>3
  <2>2. CASE i > na /\ i - na \in 1..nb /\ f[i] = l[i - na] + kx /\ l[i - na] \in 1..ky
    <3> DEFINE j == i - na
    <3>1. c[i] = b[j]
      BY <1>1, <1>2, <2>2
    <3>2. f[i] \in 1..k /\ ~(f[i] <= kx) /\ f[i] - kx = l[j]
      BY <1>1, <2>2
    <3>3. z[f[i]] = y[l[j]]
      BY <1>3, <3>2
    <3> QED
      BY <1>5, <2>2, <3>1, <3>3
  <2> QED
    BY <1>6, <2>1, <2>2
<1>10. \A i, j \in 1..n : i < j => f[i] < f[j]
  <2> SUFFICES ASSUME NEW i \in 1..n, NEW j \in 1..n, i < j PROVE f[i] < f[j]
    OBVIOUS
  <2>1. CASE i \in 1..na /\ j \in 1..na
    BY <1>4, <1>7, <2>1
  <2>2. CASE i \in 1..na /\ j \notin 1..na
    <3>1. f[i] \in 1..kx
      BY <1>4, <1>7, <2>2
    <3>2. j - na \in 1..nb /\ f[j] = l[j - na] + kx /\ l[j - na] \in 1..ky
      BY <1>6, <2>2
    <3> DEFINE u == l[j - na]
    <3>3. f[j] = u + kx /\ u \in 1..ky
      BY <3>2
    <3> HIDE DEF u
    <3> QED
      BY <1>1, <3>1, <3>3
  <2>3. CASE i \notin 1..na
    <3>1. j \notin 1..na
      BY <1>1, <2>3
    <3>2. /\ i - na \in 1..nb /\ f[i] = l[i - na] + kx /\ l[i - na] \in 1..ky
          /\ j - na \in 1..nb /\ f[j] = l[j - na] + kx /\ l[j - na] \in 1..ky
      BY <1>6, <2>3, <3>1
    <3>3. i - na < j - na
      BY <1>1
    <3> DEFINE u == l[i - na]
               v == l[j - na]
    <3>4. u < v
      BY <1>5, <3>2, <3>3
    <3>5. f[i] = u + kx /\ f[j] = v + kx /\ u \in 1..ky /\ v \in 1..ky
      BY <3>2
    <3> HIDE DEF u, v
    <3> QED
      BY <1>1, <3>4, <3>5
  <2> QED
    BY <2>1, <2>2, <2>3
<1>11. ASSUME NEW q \in 1..k PROVE z[q] \in T <=> \E i \in 1..n : f[i] = q
  <2>1. CASE q <= kx
    <3>1. q \in 1..kx /\ z[q] = x[q]
      BY <1>1, <1>3, <2>1
    <3>2. z[q] \in T <=> \E i \in 1..na : m[i] = q
      BY <1>4, <3>1
    <3>3. ASSUME NEW i \in 1..n, f[i] = q PROVE i \in 1..na /\ m[i] = q
      <4>1. CASE i \in 1..na /\ f[i] = m[i]
        BY <3>3, <4>1
      <4>2. CASE i - na \in 1..nb /\ f[i] = l[i - na] + kx /\ l[i - na] \in 1..ky
        BY <1>1, <2>1, <3>3, <4>2
      <4> QED
        BY <1>6, <4>1, <4>2
    <3> QED
      BY <1>7, <3>2, <3>3
  <2>2. CASE ~(q <= kx)
    <3>1. q - kx \in 1..ky /\ z[q] = y[q - kx]
      BY <1>1, <1>3, <2>2
    <3>2. z[q] \in T <=> \E i \in 1..nb : l[i] = q - kx
      BY <1>5, <3>1
    <3>3. ASSUME NEW i \in 1..n, f[i] = q PROVE \E j \in 1..nb : l[j] = q - kx
      <4>1. CASE i \in 1..na /\ f[i] = m[i] /\ m[i] \in 1..kx
        BY <1>1, <2>2, <3>3, <4>1
      <4>2. CASE i - na \in 1..nb /\ f[i] = l[i - na] + kx /\ l[i - na] \in 1..ky
        <5>1. l[i - na] = q - kx
          BY <1>1, <3>3, <4>2
        <5> QED
          BY <4>2, <5>1
      <4> QED
        BY <1>6, <4>1, <4>2
    <3>4. ASSUME NEW j \in 1..nb, l[j] = q - kx PROVE \E i \in 1..n : f[i] = q
      <4>1. j + na \in 1..n /\ f[j + na] = l[j] + kx
        BY <1>7
      <4>2. f[j + na] = q
        BY <1>1, <3>4, <4>1
      <4> QED
        BY <4>1, <4>2
    <3> QED
      BY <3>2, <3>3, <3>4
  <2> QED
    BY <2>1, <2>2
<1>12. Lined(c, z, T)
  <2>1. f \in [1..Len(c) -> 1..Len(z)]
    BY <1>2, <1>3, <1>8
  <2>2. \A i \in 1..Len(c) : c[i] = z[f[i]].dir
    BY <1>2, <1>9
  <2>3. \A i, j \in 1..Len(c) : i < j => f[i] < f[j]
    BY <1>2, <1>10
  <2>4. \A q \in 1..Len(z) : z[q] \in T <=> \E i \in 1..Len(c) : f[i] = q
    BY <1>2, <1>3, <1>11
  <2> QED
    BY <2>1, <2>2, <2>3, <2>4 DEF Lined
<1> QED
  BY <1>12 DEF c, z

(* The directories that a generator is told to go on with. *)
LEMMA FullIs ==
    ASSUME NEW d \in Names, NEW names \in Seq(Name)
    PROVE  /\ Full(d, names) \in Seq(Names) /\ Len(Full(d, names)) = Len(names)
           /\ \A i \in 1..Len(names) : Full(d, names)[i] = Append(d, names[i])
<1> DEFINE n == Len(names)
<1>1. n \in Nat /\ DOMAIN names = 1..n /\ \A i \in 1..n : names[i] \in Name
  BY LenProperties, ElementOfSeq
<1>2. Full(d, names) = [i \in 1..n |-> Append(d, names[i])]
  BY <1>1 DEF Full
<1>3. \A i \in 1..n : Append(d, names[i]) \in Names
  BY <1>1, ChildIsIn
<1> HIDE DEF n
<1>4. [i \in 1..n |-> Append(d, names[i])] \in Seq(Names)
  BY <1>1, <1>3, IsASeq
<1>5. Len([i \in 1..n |-> Append(d, names[i])]) = n
  BY <1>1
<1> QED
  BY <1>2, <1>4, <1>5 DEF n

(* The directories that a generator goes on with are those of its turns. *)
LEMMA FollowedAreLined ==
    ASSUME NEW d \in Names, NEW names \in Seq(Name), NEW S, NEW T, NEW todo, Len(todo) = Len(names),
           \A i \in 1..Len(names) : todo[i].dir = Append(d, names[i])
                                    /\ (todo[i] \in T <=> names[i] \in S)
    PROVE  /\ Follow(names, S) \in Seq(Name)
           /\ Lined(Full(d, Follow(names, S)), todo, T)
<1> DEFINE k == Follow(names, S)
           g == Full(d, k)
<1>1. k \in Seq(Name) /\ Picks(k, names, Len(names), S)
  BY FollowPicks
<1> HIDE DEF k
<1>2. PICK m \in [1..Len(k) -> 1..Len(names)] :
        /\ \A i \in 1..Len(k) : k[i] = names[m[i]]
        /\ \A i, j \in 1..Len(k) : i < j => m[i] < m[j]
        /\ \A q \in 1..Len(names) : names[q] \in S <=> \E i \in 1..Len(k) : m[i] = q
  BY <1>1 DEF Picks
<1>3. Len(g) = Len(k) /\ \A i \in 1..Len(k) : g[i] = Append(d, k[i])
  BY <1>1, FullIs
<1> HIDE DEF g
<1>4. \A i \in 1..Len(g) : g[i] = todo[m[i]].dir
  BY <1>2, <1>3
<1>5. \A q \in 1..Len(todo) : todo[q] \in T <=> \E i \in 1..Len(g) : m[i] = q
  BY <1>2, <1>3
<1>6. m \in [1..Len(g) -> 1..Len(todo)] /\ \A i, j \in 1..Len(g) : i < j => m[i] < m[j]
  BY <1>2, <1>3
<1>7. Lined(g, todo, T)
  BY <1>4, <1>5, <1>6 DEF Lined
<1> QED
  BY <1>1, <1>7 DEF k, g

-----------------------------------------------------------------------------
(* Type correctness.                                                       *)

GenType == [repo : Seq(Names), dvc : Seq(Names)]
TaskType(G) == [kind : {"repo", "dvc", "both", "subrepo"}, gen : G, dir : Names]
WalkFields == {"pc", "top", "gens", "todo", "listed"}

WalkTypes ==
    /\ DOMAIN walk = WalkFields
    /\ walk.pc \in {"idle", "walking", "done", "failed"}
    /\ walk.top \in Path
    /\ \A g \in DOMAIN walk.gens : g \in Names /\ walk.gens[g] \in GenType
    /\ walk.todo \in Seq(TaskType(DOMAIN walk.gens))
    /\ walk.listed \subseteq Names

(* The parts of the type invariant. *)
LEMMA TypesFollow == WsTypes /\ WalkTypes => TypeOK
BY DEF WsTypes, WalkTypes, TypeOK, GenType, TaskType, Names

(* A turn: its generator, its own turns and what it lists. *)
Moved(gen, new, L) ==
    /\ DOMAIN walk' = WalkFields
    /\ walk'.pc = walk.pc /\ walk'.top = walk.top
    /\ DOMAIN walk'.gens = DOMAIN walk.gens
    /\ walk'.gens[Current.gen] = gen
    /\ \A g \in DOMAIN walk.gens : g # Current.gen => walk'.gens[g] = walk.gens[g]
    /\ walk'.todo = new \o Tail(walk.todo)
    /\ walk'.listed = walk.listed \cup L

(* The turn that is next, and its generators. *)
LEMMA CurrentIs ==
    ASSUME WalkTypes, walk.todo # <<>>
    PROVE  /\ Current \in TaskType(DOMAIN walk.gens)
           /\ Current.gen \in DOMAIN walk.gens /\ Current.gen \in Names /\ Current.dir \in Names
           /\ Current.kind \in {"repo", "dvc", "both", "subrepo"}
           /\ Current = Task(Current.kind, Current.gen, Current.dir)
           /\ Gen \in GenType /\ Gen.repo \in Seq(Names) /\ Gen.dvc \in Seq(Names)
           /\ Tail(walk.todo) \in Seq(TaskType(DOMAIN walk.gens))
<1> DEFINE X == TaskType(DOMAIN walk.gens)
<1>1. walk.todo \in Seq(X)
  BY DEF WalkTypes
<1>2. Head(walk.todo) \in X /\ Tail(walk.todo) \in Seq(X)
  <2> HIDE DEF X
  <2> QED
    BY <1>1, HeadTailProperties
<1>3. Current \in X
  BY <1>2 DEF Current
<1>4. /\ Current.gen \in DOMAIN walk.gens /\ Current.dir \in Names
      /\ Current.kind \in {"repo", "dvc", "both", "subrepo"}
      /\ Current = Task(Current.kind, Current.gen, Current.dir)
  BY <1>3 DEF TaskType, Task
<1>5. Gen \in GenType /\ Current.gen \in Names
  BY <1>4 DEF Gen, WalkTypes
<1>6. Gen.repo \in Seq(Names) /\ Gen.dvc \in Seq(Names)
  BY <1>5 DEF GenType
<1> QED
  BY <1>2, <1>3, <1>4, <1>5, <1>6

(* A turn that goes on with nothing. *)
LEMMA StopMoves ==
    ASSUME WalkTypes, walk.todo # <<>>, NEW gen, Stop(gen)
    PROVE  Moved(gen, <<>>, {})
<1>1. walk' = [walk EXCEPT !.gens[Current.gen] = gen, !.todo = Tail(walk.todo)]
  BY DEF Stop
<1>2. DOMAIN walk = WalkFields /\ Current.gen \in DOMAIN walk.gens
  BY CurrentIs DEF WalkTypes
<1> DEFINE k == Current.gen
           rest == Tail(walk.todo)
<1> HIDE DEF k, rest
<1>3. walk' = [walk EXCEPT !.gens[k] = gen, !.todo = rest]
  BY <1>1 DEF k, rest
<1>4. /\ DOMAIN walk' = WalkFields /\ walk'.pc = walk.pc /\ walk'.top = walk.top
      /\ walk'.gens = [walk.gens EXCEPT ![k] = gen] /\ walk'.todo = rest
      /\ walk'.listed = walk.listed
  BY <1>2, <1>3 DEF WalkFields
<1>5. <<>> \o rest = rest
  BY CurrentIs, ConcatEmptySeq DEF rest
<1> QED
  BY <1>2, <1>4, <1>5 DEF Moved, k, rest

(* What a step does for an order of the names. *)
KindIn(d, D, R, n) ==
    IF n \in SubreposOf(d, R \ D) THEN "subrepo" ELSE IF n \in D \cap R THEN "both"
    ELSE IF n \in D THEN "dvc" ELSE "repo"
NewTurns(d, D, R, names) ==
    [i \in DOMAIN names |-> Task(KindIn(d, D, R, names[i]), Current.gen, Append(d, names[i]))]
Linked(d, R) == {n \in R : At(Append(d, n)) = "link"}
Listing(d, files) == {Append(d, n) : n \in files}

(* A turn of RepoTree._walk with one or both generators. *)
LEMMA StepMoves ==
    ASSUME WalkTypes, walk.todo # <<>>, NEW rd, NEW dd, NEW D, NEW R, NEW files, NEW dvcLeft,
           Step(rd, dd, D, R, files, dvcLeft)
    PROVE  \E names \in Merged(D, R) :
              Moved([repo |-> Full(rd, Follow(names, (R \ SubreposOf(rd, R \ D)) \ Linked(rd, R)))
                                 \o Tail(Gen.repo),
                     dvc |-> Full(dd, Follow(names, D)) \o dvcLeft],
                    NewTurns(rd, D, R, names), Listing(rd, files))
<1> DEFINE gen(names) == [repo |-> Full(rd, Follow(names, (R \ SubreposOf(rd, R \ D)) \ Linked(rd, R)))
                                      \o Tail(Gen.repo),
                          dvc |-> Full(dd, Follow(names, D)) \o dvcLeft]
           new(names) == NewTurns(rd, D, R, names)
           L == Listing(rd, files)
           k == Current.gen
<1>1. PICK names \in Merged(D, R) :
         walk' = [walk EXCEPT !.gens[k] = gen(names), !.todo = new(names) \o Tail(@),
                              !.listed = @ \cup L]
  BY DEF Step, NewTurns, KindIn, Linked, Listing
<1>2. DOMAIN walk = WalkFields /\ k \in DOMAIN walk.gens
  BY CurrentIs DEF WalkTypes
<1> DEFINE g == gen(names)
           n == new(names)
<1>3. walk' = [walk EXCEPT !.gens[k] = g, !.todo = n \o Tail(@), !.listed = @ \cup L]
  BY <1>1
<1> HIDE DEF g, n, L, k
<1>4. /\ DOMAIN walk' = WalkFields /\ walk'.pc = walk.pc /\ walk'.top = walk.top
      /\ walk'.gens = [walk.gens EXCEPT ![k] = g] /\ walk'.todo = n \o Tail(walk.todo)
      /\ walk'.listed = walk.listed \cup L
  BY <1>2, <1>3 DEF WalkFields
<1>5. Moved(g, n, L)
  BY <1>2, <1>4 DEF Moved, k
<1> QED
  BY <1>5 DEF g, n, L

DvcTurns(d, names) == [i \in DOMAIN names |-> Task("dvc", Current.gen, Append(d, names[i]))]

(* A turn of RepoTree._dvc_walk. *)
LEMMA DvcMoves ==
    ASSUME WalkTypes, walk.todo # <<>>, NEW names, NEW dd, NEW files,
           walk' = [walk EXCEPT
                       !.gens[Current.gen].dvc = Full(dd, names) \o Tail(@),
                       !.todo = [i \in DOMAIN names |->
                                    Task("dvc", Current.gen, Append(dd, names[i]))] \o Tail(@),
                       !.listed = @ \cup {Append(dd, n) : n \in files}]
    PROVE  Moved([repo |-> Gen.repo, dvc |-> Full(dd, names) \o Tail(Gen.dvc)],
                 DvcTurns(dd, names), Listing(dd, files))
<1> DEFINE k == Current.gen
           f == Full(dd, names)
           n == DvcTurns(dd, names)
           L == Listing(dd, files)
<1>1. walk' = [walk EXCEPT !.gens[k].dvc = f \o Tail(@), !.todo = n \o Tail(@),
                           !.listed = @ \cup L]
  BY DEF DvcTurns, Listing
<1>2. DOMAIN walk = WalkFields /\ k \in DOMAIN walk.gens /\ walk.gens[k] \in GenType
  BY CurrentIs DEF WalkTypes, Gen
<1> HIDE DEF k, f, n, L
<1>3. /\ DOMAIN walk' = WalkFields /\ walk'.pc = walk.pc /\ walk'.top = walk.top
      /\ walk'.gens = [walk.gens EXCEPT ![k].dvc = f \o Tail(@)]
      /\ walk'.todo = n \o Tail(walk.todo)
      /\ walk'.listed = walk.listed \cup L
  BY <1>1, <1>2 DEF WalkFields
<1>4. /\ DOMAIN walk'.gens = DOMAIN walk.gens
      /\ \A g \in DOMAIN walk.gens : g # k => walk'.gens[g] = walk.gens[g]
  BY <1>2, <1>3
<1>5. walk'.gens[k] = [repo |-> walk.gens[k].repo, dvc |-> f \o Tail(walk.gens[k].dvc)]
  BY <1>2, <1>3 DEF GenType
<1> QED
  BY <1>3, <1>4, <1>5 DEF Moved, k, f, n, L, Gen

(* The workspace has finitely many names. *)
LEMMA NamesAreFinite == IsFiniteSet(Name)
<1> DEFINE f == [p \in Node |-> Last(p)]
<1>1. Name = {Last(p) : p \in Node}
  BY DEF Name
<1>2. \A p \in Node : f[p] = Last(p)
  OBVIOUS
<1>3. f \in [Node -> Name]
  BY <1>1
<1>4. \A n \in Name : \E p \in Node : f[p] = n
  BY <1>1, <1>2
<1> HIDE DEF f
<1>5. f \in Surjection(Node, Name)
  BY <1>3, <1>4 DEF Surjection
<1> QED
  BY <1>5, OverlayAssumption, FS_Surjection

(* The names of a directory come in some order. *)
LEMMA OrderIsSeq ==
    ASSUME NEW D \in SUBSET Name, NEW R \in SUBSET Name
    PROVE  /\ \A names \in Merged(D, R) : EachOnce(names, D \cup R) /\ names \in Seq(Name)
           /\ \A names \in Orders(D) : EachOnce(names, D) /\ names \in Seq(Name)
<1>1. IsFiniteSet(D) /\ IsFiniteSet(R)
  BY NamesAreFinite, FS_Subset
<1>2. ASSUME NEW names, NEW S \in SUBSET Name, EachOnce(names, S) PROVE names \in Seq(Name)
  <2>1. names \in Seq(S) /\ S \subseteq Name
    BY <1>2 DEF EachOnce
  <2> QED
    BY <2>1, SeqMonotonic
<1>3. \A names \in Merged(D, R) : EachOnce(names, D \cup R)
  BY <1>1, MergedAreOnce
<1>4. \A names \in Orders(D) : EachOnce(names, D)
  BY <1>1, OrdersAreOnce
<1>5. D \cup R \in SUBSET Name
  OBVIOUS
<1> QED
  BY <1>2, <1>3, <1>4, <1>5

(* The turns that a directory adds: one for each of its names. *)
LEMMA NewTurnsAre ==
    ASSUME NEW d \in Names, NEW names \in Seq(Name), Current.gen \in DOMAIN walk.gens,
           NEW new, NEW D, NEW R,
           \/ new = NewTurns(d, D, R, names)
           \/ new = DvcTurns(d, names)
    PROVE  /\ new \in Seq(TaskType(DOMAIN walk.gens)) /\ Len(new) = Len(names)
           /\ \A i \in 1..Len(names) :
                 new[i].gen = Current.gen /\ new[i].dir = Append(d, names[i])
           /\ new = NewTurns(d, D, R, names) =>
                 \A i \in 1..Len(names) : new[i].kind = KindIn(d, D, R, names[i])
           /\ new = DvcTurns(d, names) => \A i \in 1..Len(names) : new[i].kind = "dvc"
<1> DEFINE X == TaskType(DOMAIN walk.gens)
           n == Len(names)
           e(i) == Task(KindIn(d, D, R, names[i]), Current.gen, Append(d, names[i]))
           h(i) == Task("dvc", Current.gen, Append(d, names[i]))
<1>1. n \in Nat /\ DOMAIN names = 1..n /\ \A i \in 1..n : names[i] \in Name
  BY LenProperties, ElementOfSeq
<1>2. \A i \in 1..n : Append(d, names[i]) \in Names
  BY <1>1, ChildIsIn
<1>3. \A i \in 1..n : KindIn(d, D, R, names[i]) \in {"repo", "dvc", "both", "subrepo"}
  BY DEF KindIn
<1>4. \A i \in 1..n : e(i) \in X /\ h(i) \in X
  BY <1>2, <1>3 DEF Task, TaskType
<1>5. NewTurns(d, D, R, names) = [i \in 1..n |-> e(i)]
  BY <1>1 DEF NewTurns
<1>6. DvcTurns(d, names) = [i \in 1..n |-> h(i)]
  BY <1>1 DEF DvcTurns
<1>7. /\ \A i \in 1..n : e(i).gen = Current.gen /\ e(i).dir = Append(d, names[i])
                         /\ e(i).kind = KindIn(d, D, R, names[i])
      /\ \A i \in 1..n : h(i).gen = Current.gen /\ h(i).dir = Append(d, names[i])
                         /\ h(i).kind = "dvc"
  BY DEF Task
<1> HIDE DEF n, e, h, X
<1>8. [i \in 1..n |-> e(i)] \in Seq(X) /\ [i \in 1..n |-> h(i)] \in Seq(X)
  BY <1>1, <1>4, IsASeq
<1>9. Len([i \in 1..n |-> e(i)]) = n /\ Len([i \in 1..n |-> h(i)]) = n
  BY <1>1
<1>10. new \in Seq(X) /\ Len(new) = n
  BY <1>5, <1>6, <1>8, <1>9
<1>11. CASE new = NewTurns(d, D, R, names)
  <2>1. \A i \in 1..n : new[i] = e(i)
    BY <1>5, <1>11
  <2>2. CASE new = DvcTurns(d, names)
    <3>1. \A i \in 1..n : new[i] = h(i)
      BY <1>6, <2>2
    <3> QED
      BY <1>7, <1>10, <2>1, <3>1 DEF X, n
  <2> QED
    BY <1>7, <1>10, <2>1, <2>2 DEF X, n
<1>12. CASE new = DvcTurns(d, names) /\ new # NewTurns(d, D, R, names)
  <2>1. \A i \in 1..n : new[i] = h(i)
    BY <1>6, <1>12
  <2> QED
    BY <1>7, <1>10, <1>12, <2>1 DEF X, n
<1> QED
  BY <1>11, <1>12

(* A turn keeps the types of a walk, when its parts have theirs. *)
LEMMA MovedTypes ==
    ASSUME WalkTypes, walk.todo # <<>>, NEW gen \in GenType,
           NEW new \in Seq(TaskType(DOMAIN walk.gens)), NEW L \in SUBSET Names, Moved(gen, new, L)
    PROVE  WalkTypes'
<1> DEFINE X == TaskType(DOMAIN walk.gens)
<1>1. Tail(walk.todo) \in Seq(X) /\ new \in Seq(X)
  BY CurrentIs
<1>2. new \o Tail(walk.todo) \in Seq(X)
  <2> HIDE DEF X
  <2> QED
    BY <1>1, ConcatProperties
<1>3. walk'.todo \in Seq(TaskType(DOMAIN walk'.gens))
  BY <1>2 DEF Moved
<1>4. \A g \in DOMAIN walk'.gens : g \in Names /\ walk'.gens[g] \in GenType
  BY DEF Moved, WalkTypes
<1>5. walk'.listed \subseteq Names
  BY DEF Moved, WalkTypes
<1>6. DOMAIN walk' = WalkFields /\ walk'.pc = walk.pc /\ walk'.top = walk.top
  BY DEF Moved
<1> QED
  BY <1>3, <1>4, <1>5, <1>6 DEF WalkTypes

(* What is listed are paths. *)
LEMMA ListingIs ==
    ASSUME NEW d \in Names, NEW files \in SUBSET Name
    PROVE  Listing(d, files) \in SUBSET Names
BY ChildIsIn DEF Listing

(* What the two trees of a repository list are names. *)
LEMMA TreesGiveNames ==
    ASSUME NEW r, NEW d
    PROVE  /\ TreeFiles(r, d) \in SUBSET Name /\ TreeDirs(r, d) \in SUBSET Name
           /\ DvcFiles(r, d) \in SUBSET Name /\ DvcDirs(r, d) \in SUBSET Name
BY DEF TreeFiles, TreeDirs, DvcFiles, DvcDirs

(* A turn that stops keeps the types. *)
LEMMA StopTypes ==
    ASSUME WalkTypes, walk.todo # <<>>, NEW gen \in GenType, Stop(gen)
    PROVE  WalkTypes'
<1>1. Moved(gen, <<>>, {})
  BY StopMoves
<1>2. <<>> \in Seq(TaskType(DOMAIN walk.gens))
  BY EmptySeq
<1> QED
  BY <1>1, <1>2, MovedTypes

(* A turn that goes on keeps the types. *)
LEMMA StepTypes ==
    ASSUME WalkTypes, walk.todo # <<>>, NEW rd \in Names, NEW dd \in Names,
           NEW D \in SUBSET Name, NEW R \in SUBSET Name, NEW files \in SUBSET Name,
           NEW dvcLeft \in Seq(Names), Gen.repo # <<>>, Step(rd, dd, D, R, files, dvcLeft)
    PROVE  WalkTypes'
<1> DEFINE keep == (R \ SubreposOf(rd, R \ D)) \ Linked(rd, R)
<1>1. PICK names \in Merged(D, R) :
         Moved([repo |-> Full(rd, Follow(names, keep)) \o Tail(Gen.repo),
                dvc |-> Full(dd, Follow(names, D)) \o dvcLeft],
               NewTurns(rd, D, R, names), Listing(rd, files))
  BY StepMoves
<1>2. names \in Seq(Name)
  BY OrderIsSeq
<1> HIDE DEF keep
<1> DEFINE u == Full(rd, Follow(names, keep))
           v == Full(dd, Follow(names, D))
<1>3. u \in Seq(Names) /\ v \in Seq(Names)
  BY <1>2, FollowPicks, FullIs
<1>4. Tail(Gen.repo) \in Seq(Names)
  BY CurrentIs, HeadTailProperties
<1> HIDE DEF u, v
<1>5. u \o Tail(Gen.repo) \in Seq(Names) /\ v \o dvcLeft \in Seq(Names)
  BY <1>3, <1>4, ConcatProperties
<1>6. [repo |-> u \o Tail(Gen.repo), dvc |-> v \o dvcLeft] \in GenType
  BY <1>5 DEF GenType
<1>7. NewTurns(rd, D, R, names) \in Seq(TaskType(DOMAIN walk.gens))
  BY <1>2, CurrentIs, NewTurnsAre
<1>8. Listing(rd, files) \in SUBSET Names
  BY ListingIs
<1>9. Moved([repo |-> u \o Tail(Gen.repo), dvc |-> v \o dvcLeft],
            NewTurns(rd, D, R, names), Listing(rd, files))
  BY <1>1 DEF u, v
<1> QED
  BY <1>6, <1>7, <1>8, <1>9, MovedTypes

(* RepoTree._walk keeps the types, with both generators ... *)
LEMMA WalkBothTypes == WalkTypes /\ WalkBoth => WalkTypes'
<1> SUFFICES ASSUME WalkTypes, WalkBoth PROVE WalkTypes'
  OBVIOUS
<1> DEFINE r == RepoOf(Current.gen)
           dd == Head(Gen.dvc)
           rd == Head(Gen.repo)
<1>1. /\ walk.todo # <<>>
      /\ IF Gen.dvc = <<>> THEN Stop(Gen)
         ELSE IF Gen.repo = <<>> THEN Stop([Gen EXCEPT !.dvc = Tail(@)])
              ELSE Step(rd, dd, DvcDirs(r, dd), TreeDirs(r, rd),
                        DvcFiles(r, dd) \cup TreeFiles(r, rd), Tail(Gen.dvc))
  BY DEF WalkBoth, Walking
<1>2. Gen \in GenType /\ Gen.repo \in Seq(Names) /\ Gen.dvc \in Seq(Names)
  BY <1>1, CurrentIs
<1> HIDE DEF r, dd, rd
<1>3. CASE Gen.dvc = <<>>
  BY <1>1, <1>2, <1>3, StopTypes
<1>4. CASE Gen.dvc # <<>> /\ Gen.repo = <<>>
  <2>1. Tail(Gen.dvc) \in Seq(Names)
    BY <1>2, <1>4, HeadTailProperties
  <2>2. [Gen EXCEPT !.dvc = Tail(@)] \in GenType
    BY <1>2, <2>1 DEF GenType
  <2> QED
    BY <1>1, <1>4, <2>2, StopTypes
<1>5. CASE Gen.dvc # <<>> /\ Gen.repo # <<>>
  <2>1. dd \in Names /\ rd \in Names /\ Tail(Gen.dvc) \in Seq(Names)
    BY <1>2, <1>5, HeadTailProperties DEF dd, rd
  <2>2. /\ DvcDirs(r, dd) \in SUBSET Name /\ TreeDirs(r, rd) \in SUBSET Name
        /\ DvcFiles(r, dd) \cup TreeFiles(r, rd) \in SUBSET Name
    BY TreesGiveNames
  <2>3. Step(rd, dd, DvcDirs(r, dd), TreeDirs(r, rd),
             DvcFiles(r, dd) \cup TreeFiles(r, rd), Tail(Gen.dvc))
    BY <1>1, <1>5
  <2> QED
    BY <1>1, <1>5, <2>1, <2>2, <2>3, StepTypes
<1> QED
  BY <1>3, <1>4, <1>5

(* ... with the one of the workspace ... *)
LEMMA WalkRepoTypes == WalkTypes /\ WalkRepo => WalkTypes'
<1> SUFFICES ASSUME WalkTypes, WalkRepo PROVE WalkTypes'
  OBVIOUS
<1> DEFINE r == RepoOf(Current.gen)
           rd == Head(Gen.repo)
<1>1. /\ walk.todo # <<>>
      /\ IF Gen.repo = <<>> THEN Stop(Gen)
         ELSE Step(rd, Root, {}, TreeDirs(r, rd), TreeFiles(r, rd), Gen.dvc)
  BY DEF WalkRepo, Walking
<1>2. Gen \in GenType /\ Gen.repo \in Seq(Names) /\ Gen.dvc \in Seq(Names)
  BY <1>1, CurrentIs
<1> HIDE DEF r, rd
<1>3. CASE Gen.repo = <<>>
  BY <1>1, <1>2, <1>3, StopTypes
<1>4. CASE Gen.repo # <<>>
  <2>1. rd \in Names /\ Root \in Names
    BY <1>2, <1>4, HeadTailProperties, RootIsPath DEF rd
  <2>2. TreeDirs(r, rd) \in SUBSET Name /\ TreeFiles(r, rd) \in SUBSET Name /\ {} \in SUBSET Name
    BY TreesGiveNames
  <2>3. Step(rd, Root, {}, TreeDirs(r, rd), TreeFiles(r, rd), Gen.dvc)
    BY <1>1, <1>4
  <2> QED
    BY <1>1, <1>2, <1>4, <2>1, <2>2, <2>3, StepTypes
<1> QED
  BY <1>3, <1>4

(* ... and with the one of the outputs (RepoTree._dvc_walk). *)
LEMMA WalkDvcTypes == WalkTypes /\ WalkDvc => WalkTypes'
<1> SUFFICES ASSUME WalkTypes, WalkDvc PROVE WalkTypes'
  OBVIOUS
<1> DEFINE r == RepoOf(Current.gen)
           dd == Head(Gen.dvc)
<1>1. walk.todo # <<>>
  BY DEF WalkDvc, Walking
<1>2. Gen \in GenType /\ Gen.repo \in Seq(Names) /\ Gen.dvc \in Seq(Names)
  BY <1>1, CurrentIs
<1>3. CASE Gen.dvc = <<>>
  <2>1. Stop(Gen)
    BY <1>3 DEF WalkDvc
  <2> QED
    BY <1>1, <1>2, <2>1, StopTypes
<1>4. CASE Gen.dvc # <<>>
  <2>1. PICK names \in Orders(DvcDirs(r, dd)) :
           walk' = [walk EXCEPT
                       !.gens[Current.gen].dvc = Full(dd, names) \o Tail(@),
                       !.todo = [i \in DOMAIN names |->
                                    Task("dvc", Current.gen, Append(dd, names[i]))] \o Tail(@),
                       !.listed = @ \cup {Append(dd, n) : n \in DvcFiles(r, dd)}]
    BY <1>4 DEF WalkDvc
  <2> HIDE DEF r, dd
  <2>2. dd \in Names /\ Tail(Gen.dvc) \in Seq(Names)
    BY <1>2, <1>4, HeadTailProperties DEF dd
  <2>3. DvcDirs(r, dd) \in SUBSET Name /\ DvcFiles(r, dd) \in SUBSET Name
    BY TreesGiveNames
  <2>4. names \in Seq(Name)
    BY <2>3, OrderIsSeq
  <2>5. Moved([repo |-> Gen.repo, dvc |-> Full(dd, names) \o Tail(Gen.dvc)],
              DvcTurns(dd, names), Listing(dd, DvcFiles(r, dd)))
    BY <1>1, <2>1, DvcMoves
  <2>6. Full(dd, names) \o Tail(Gen.dvc) \in Seq(Names)
    BY <2>2, <2>4, FullIs, ConcatProperties
  <2>7. [repo |-> Gen.repo, dvc |-> Full(dd, names) \o Tail(Gen.dvc)] \in GenType
    BY <1>2, <2>6 DEF GenType
  <2>8. DvcTurns(dd, names) \in Seq(TaskType(DOMAIN walk.gens))
    BY <1>1, <2>2, <2>4, CurrentIs, NewTurnsAre
  <2>9. Listing(dd, DvcFiles(r, dd)) \in SUBSET Names
    BY <2>2, <2>3, ListingIs
  <2> QED
    BY <1>1, <2>5, <2>7, <2>8, <2>9, MovedTypes
<1> QED
  BY <1>3, <1>4

(* What entering a repository changes: its two generators, and its turn. *)
LEMMA SubrepoMoves ==
    ASSUME WalkTypes, EnterSubrepo
    PROVE  /\ DOMAIN walk' = WalkFields /\ walk'.pc = walk.pc /\ walk'.top = walk.top
           /\ DOMAIN walk'.gens = DOMAIN walk.gens \cup {Current.dir}
           /\ walk'.gens[Current.dir] = Generators(RepoOf(Current.dir), Current.dir)
           /\ \A g \in DOMAIN walk.gens : g # Current.dir => walk'.gens[g] = walk.gens[g]
           /\ walk'.todo = <<Task("both", Current.dir, Current.dir)>> \o Tail(walk.todo)
           /\ walk'.listed = walk.listed
<1> DEFINE d == Current.dir
           gens == [g \in DOMAIN walk.gens \cup {d} |->
                       IF g = d THEN Generators(RepoOf(g), g) ELSE walk.gens[g]]
           todo == <<Task("both", d, d)>> \o Tail(walk.todo)
<1>1. walk' = [walk EXCEPT !.gens = gens, !.todo = todo]
  BY DEF EnterSubrepo
<1>2. DOMAIN walk = WalkFields
  BY DEF WalkTypes
<1>3. /\ DOMAIN gens = DOMAIN walk.gens \cup {d} /\ gens[d] = Generators(RepoOf(d), d)
      /\ \A g \in DOMAIN walk.gens : g # d => gens[g] = walk.gens[g]
  OBVIOUS
<1> HIDE DEF gens, todo
<1>4. /\ DOMAIN walk' = WalkFields /\ walk'.pc = walk.pc /\ walk'.top = walk.top
      /\ walk'.gens = gens /\ walk'.todo = todo /\ walk'.listed = walk.listed
  BY <1>1, <1>2 DEF WalkFields
<1> QED
  BY <1>3, <1>4 DEF todo

(* The two generators of a directory. *)
LEMMA GeneratorsType ==
    ASSUME NEW r, NEW d \in Names
    PROVE  Generators(r, d) \in GenType
<1> DEFINE a == IF TreeExists(r, d) THEN <<d>> ELSE <<>>
           b == IF OutsBy(r, d) # {} /\ MetaIsDir(r, d) THEN <<d>> ELSE <<>>
<1>1. a \in Seq(Names) /\ b \in Seq(Names)
  OBVIOUS
<1>2. Generators(r, d) = [repo |-> a, dvc |-> b]
  BY DEF Generators
<1> HIDE DEF a, b
<1> QED
  BY <1>1, <1>2 DEF GenType

(* Entering a repository keeps the types. *)
LEMMA EnterTypes == WalkTypes /\ EnterSubrepo => WalkTypes'
<1> SUFFICES ASSUME WalkTypes, EnterSubrepo PROVE WalkTypes'
  OBVIOUS
<1>1. walk.todo # <<>>
  BY DEF EnterSubrepo, Walking
<1> DEFINE d == Current.dir
           G == DOMAIN walk.gens
           H == G \cup {d}
           one == Task("both", d, d)
<1>2. d \in Names /\ Tail(walk.todo) \in Seq(TaskType(G))
  BY <1>1, CurrentIs
<1>3. /\ DOMAIN walk' = WalkFields /\ walk'.pc = walk.pc /\ walk'.top = walk.top
      /\ DOMAIN walk'.gens = H
      /\ walk'.gens[d] = Generators(RepoOf(d), d)
      /\ \A g \in G : g # d => walk'.gens[g] = walk.gens[g]
      /\ walk'.todo = <<one>> \o Tail(walk.todo)
      /\ walk'.listed = walk.listed
  BY SubrepoMoves
<1>4. TaskType(G) \subseteq TaskType(H) /\ one \in TaskType(H)
  BY <1>2 DEF TaskType, Task
<1>5. Tail(walk.todo) \in Seq(TaskType(H)) /\ <<one>> \in Seq(TaskType(H))
  <2> HIDE DEF G, H, one
  <2> QED
    BY <1>2, <1>4, SeqMonotonic
<1>6. walk'.todo \in Seq(TaskType(DOMAIN walk'.gens))
  <2> HIDE DEF G, H, one
  <2> QED
    BY <1>3, <1>5, ConcatProperties
<1>7. \A g \in DOMAIN walk'.gens : g \in Names /\ walk'.gens[g] \in GenType
  BY <1>2, <1>3, GeneratorsType DEF WalkTypes
<1> QED
  BY <1>3, <1>6, <1>7 DEF WalkTypes

(* So does the end of a walk. *)
LEMMA EndTypes == WalkTypes /\ WalkEnds => WalkTypes' /\ walk'.pc = "done"
<1> SUFFICES ASSUME WalkTypes, WalkEnds PROVE WalkTypes' /\ walk'.pc = "done"
  OBVIOUS
<1>1. walk' = [walk EXCEPT !.pc = "done"] /\ DOMAIN walk = WalkFields
  BY DEF WalkEnds, WalkTypes
<1>2. /\ DOMAIN walk' = WalkFields /\ walk'.pc = "done" /\ walk'.top = walk.top
      /\ walk'.gens = walk.gens /\ walk'.todo = walk.todo /\ walk'.listed = walk.listed
  BY <1>1 DEF WalkFields
<1> QED
  BY <1>2 DEF WalkTypes

(* The beginning of a walk. *)
StartKind(top) ==
    IF ~TreeExists(RepoOf(top), top) THEN "dvc"
    ELSE IF IsDvc(RepoOf(top), top) \/ OutsBy(RepoOf(top), top) = {} THEN "repo" ELSE "both"

(* What a walk begins with. *)
LEMMA StartMoves ==
    ASSUME NEW top, Start(top)
    PROVE  /\ DOMAIN walk' = WalkFields /\ walk'.pc = "walking" /\ walk'.top = top
           /\ DOMAIN walk'.gens = {top}
           /\ walk'.gens[top].repo = Generators(RepoOf(top), top).repo
           /\ walk'.gens[top].dvc = IF StartKind(top) = "repo" THEN <<>>
                                    ELSE Generators(RepoOf(top), top).dvc
           /\ walk'.gens[top] = [repo |-> walk'.gens[top].repo, dvc |-> walk'.gens[top].dvc]
           /\ walk'.todo = <<Task(StartKind(top), top, top)>> /\ walk'.listed = {}
<1> DEFINE r == RepoOf(top)
           kind == StartKind(top)
           gen == Generators(r, top)
           one == [gen EXCEPT !.dvc = IF kind = "repo" THEN <<>> ELSE @]
           todo == <<Task(kind, top, top)>>
           gens == [g \in {top} |-> one]
<1>1. walk' = [pc |-> "walking", top |-> top, gens |-> gens, todo |-> todo, listed |-> {}]
  BY DEF Start, StartKind
<1>2. DOMAIN gens = {top} /\ gens[top] = one
  OBVIOUS
<1>3. gen = [repo |-> gen.repo, dvc |-> gen.dvc]
  BY DEF Generators
<1> HIDE DEF gen
<1>4. one = [repo |-> gen.repo, dvc |-> IF kind = "repo" THEN <<>> ELSE gen.dvc]
  <2> HIDE DEF kind
  <2> QED
    BY <1>3
<1> HIDE DEF one, gens, todo, kind
<1>5. /\ DOMAIN walk' = WalkFields /\ walk'.pc = "walking" /\ walk'.top = top
      /\ walk'.gens = gens /\ walk'.todo = todo /\ walk'.listed = {}
  BY <1>1 DEF WalkFields
<1>6. walk'.gens[top] = one /\ DOMAIN walk'.gens = {top}
  BY <1>2, <1>5
<1>7. one.repo = gen.repo /\ one.dvc = (IF kind = "repo" THEN <<>> ELSE gen.dvc)
      /\ one = [repo |-> one.repo, dvc |-> one.dvc]
  BY <1>4
<1> QED
  BY <1>5, <1>6, <1>7 DEF gen, todo, kind

(* A walk begins with the types it keeps. *)
LEMMA StartTypes ==
    ASSUME WsTypes, NEW top \in Path, Start(top)
    PROVE  WalkTypes'
<1>1. top \in Names
  BY RootIsPath
<1> DEFINE gen == Generators(RepoOf(top), top)
           one == Task(StartKind(top), top, top)
<1>2. gen \in GenType
  BY <1>1, GeneratorsType
<1>3. gen.repo \in Seq(Names) /\ gen.dvc \in Seq(Names) /\ <<>> \in Seq(Names)
  BY <1>2, EmptySeq DEF GenType
<1>4. one \in TaskType({top})
  BY <1>1 DEF Task, TaskType, StartKind
<1>5. /\ DOMAIN walk' = WalkFields /\ walk'.pc = "walking" /\ walk'.top = top
      /\ DOMAIN walk'.gens = {top} /\ walk'.todo = <<one>> /\ walk'.listed = {}
      /\ walk'.gens[top] = [repo |-> walk'.gens[top].repo, dvc |-> walk'.gens[top].dvc]
      /\ walk'.gens[top].repo = gen.repo
      /\ walk'.gens[top].dvc = <<>> \/ walk'.gens[top].dvc = gen.dvc
  BY StartMoves
<1> HIDE DEF gen, one
<1>6. walk'.gens[top] \in GenType
  BY <1>3, <1>5 DEF GenType
<1>7. walk'.todo \in Seq(TaskType(DOMAIN walk'.gens))
  BY <1>4, <1>5
<1> QED
  BY <1>1, <1>5, <1>6, <1>7 DEF WalkTypes

(* There is no walk at first. *)
LEMMA InitWalkTypes == Init => WalkTypes
<1> SUFFICES ASSUME Init PROVE WalkTypes
  OBVIOUS
<1>1. walk = [pc |-> "idle", top |-> Root, gens |-> <<>>, todo |-> <<>>, listed |-> {}]
  BY DEF Init, Idle
<1>2. /\ DOMAIN walk = WalkFields /\ walk.pc = "idle" /\ walk.top = Root
      /\ walk.gens = <<>> /\ walk.todo = <<>> /\ walk.listed = {}
  BY <1>1 DEF WalkFields
<1>3. DOMAIN <<>> = {}
  OBVIOUS
<1> QED
  BY <1>2, <1>3, RootIsPath, EmptySeq DEF WalkTypes

-----------------------------------------------------------------------------
(* What the two trees of a repository show of a path.                      *)

(* Two outputs of a repository are apart. *)
LEMMA OutsDiffer ==
    ASSUME WsOK, NEW o \in outs, NEW q \in outs, o.repo = q.repo,
           InOrEq(o.path, q.path) \/ InOrEq(q.path, o.path)
    PROVE  o = q
BY DEF WsOK, Outputs

(* An output is the only one at its path and at its entries. *)
LEMMA OnlyOut ==
    ASSUME WsOK, NEW r, NEW o \in Outs(r), NEW p \in {o.path} \cup o.entries
    PROVE  /\ OutsBy(r, p) = {o} /\ {q \in Outs(r) : InOrEq(p, q.path)} = {o}
           /\ p \in Node /\ InOrEq(p, o.path)
<1>1. o \in outs /\ o.repo = r
  BY DEF Outs
<1>2. p \in Node /\ p \in Names /\ o.path \in Names
  BY <1>1, OutIs, RootIsPath DEF Path
<1>3. InOrEq(p, o.path)
  <2>1. CASE p = o.path
    BY <1>2, <2>1, PathOrder
  <2>2. CASE p \in o.entries
    BY <1>1, <1>2, <2>2, PathOrder DEF WsOK, Outputs, Flat
  <2> QED
    BY <2>1, <2>2
<1>4. ASSUME NEW q \in Outs(r), InOrEq(p, q.path) \/ In(q.path, p) PROVE q = o
  <2>1. q \in outs /\ q.repo = o.repo /\ q.path \in Names
    BY <1>1, OutIs DEF Outs
  <2>2. CASE InOrEq(p, q.path)
    <3>1. InOrEq(o.path, q.path) \/ InOrEq(q.path, o.path)
      BY <1>2, <1>3, <2>1, <2>2, PathOrder
    <3> QED
      BY <1>1, <2>1, <3>1, OutsDiffer
  <2>3. CASE In(q.path, p)
    <3>1. InOrEq(q.path, o.path)
      BY <1>2, <1>3, <2>1, <2>3, PathOrder
    <3> QED
      BY <1>1, <2>1, <3>1, OutsDiffer
  <2> QED
    BY <1>4, <2>2, <2>3
<1>5. OutsBy(r, p) = {o}
  BY <1>3, <1>4 DEF OutsBy
<1>6. {q \in Outs(r) : InOrEq(p, q.path)} = {o}
  BY <1>3, <1>4
<1> QED
  BY <1>2, <1>3, <1>5, <1>6

(* The keys of a DvcTree: the outputs, and the entries of those it has     *)
(* loaded.                                                                 *)
LEMMA KeyIs ==
    ASSUME WsOK, NEW r, NEW d, NEW k
    PROVE  k \in Keys(r, d) <=>
              \E o \in Outs(r) : k = o.path \/ (o.dir /\ InOrEq(d, o.path) /\ k \in o.entries)
<1>1. ASSUME k \in Keys(r, d)
      PROVE  \E o \in Outs(r) : k = o.path \/ (o.dir /\ InOrEq(d, o.path) /\ k \in o.entries)
  <2>1. CASE k \in {o.path : o \in Outs(r)}
    BY <2>1
  <2>2. CASE k \in UNION {o.entries : o \in {q \in Outs(r) : q.dir /\ InOrEq(d, q.path)}}
    BY <2>2
  <2> QED
    BY <1>1, <2>1, <2>2 DEF Keys
<1>2. ASSUME NEW o \in Outs(r), k = o.path PROVE k \in Keys(r, d)
  BY <1>2 DEF Keys
<1>3. ASSUME NEW o \in Outs(r), o.dir, InOrEq(d, o.path), k \in o.entries PROVE k \in Keys(r, d)
  BY <1>3 DEF Keys
<1> QED
  BY <1>1, <1>2, <1>3

(* A key is a path, and none of a repository below. *)
LEMMA KeyIsNode ==
    ASSUME WsOK, NEW r, NEW d, NEW k \in Keys(r, d)
    PROVE  /\ k \in Node
           /\ \A s \in subrepos : In(s, r) => ~InOrEq(k, s)
<1>1. PICK o \in Outs(r) : k \in {o.path} \cup o.entries
  BY KeyIs
<1>2. o \in outs /\ o.repo = r
  BY DEF Outs
<1>3. k \in Node
  BY <1>1, OnlyOut
<1>4. \A s \in subrepos : In(s, r) => Clear(o, s)
  BY <1>2 DEF WsOK, Outputs
<1> QED
  BY <1>1, <1>3, <1>4 DEF Clear

(* What an output has there or below is not ignored. *)
LEMMA DvcNotIgnored ==
    ASSUME WsOK, NEW r, NEW d \in Names, NEW n \in Name, ~Ignored(r, d),
           NEW k \in Keys(r, d), InOrEq(k, Append(d, n))
    PROVE  ~Ignored(r, Append(d, n)) /\ Append(d, n) \in Node
<1>1. subrepos \subseteq Node
  BY DEF WsOK, WsTypes
<1>2. ~Ignored(r, Append(d, n))
  <2>1. SUFFICES ASSUME Ignored(r, Append(d, n)) PROVE FALSE
    OBVIOUS
  <2>2. Append(d, n) \in subrepos /\ In(Append(d, n), r)
    BY <1>1, <2>1, IgnoredChild
  <2> QED
    BY <2>2, KeyIsNode
<1>3. k \in Node
  BY KeyIsNode
<1> QED
  BY <1>2, <1>3, AboveIsNode

(* A name that a DvcTree lists is one on the way to a key. *)
LEMMA DvcNameIs ==
    ASSUME WsOK, NEW r, NEW d \in Names, NEW n, n \in DvcDirs(r, d) \cup DvcFiles(r, d)
    PROVE  n \in Name /\ \E k \in Keys(r, d) : InOrEq(k, Append(d, n))
<1>1. n \in Name
  BY DEF DvcDirs, DvcFiles
<1>2. Append(d, n) \in Names
  BY <1>1, ChildIsIn
<1>3. \A k \in Keys(r, d) : k \in Names
  BY KeyIsNode, RootIsPath DEF Path
<1>4. CASE n \in DvcDirs(r, d)
  <2>1. PICK k \in Keys(r, d) : In(k, Append(d, n)) \/ k = Append(d, n)
    BY <1>4 DEF DvcDirs
  <2>2. InOrEq(k, Append(d, n))
    BY <1>2, <1>3, <2>1, PathOrder
  <2> QED
    BY <1>1, <2>2
<1>5. CASE n \in DvcFiles(r, d)
  <2>1. Append(d, n) \in Keys(r, d)
    BY <1>5 DEF DvcFiles
  <2>2. InOrEq(Append(d, n), Append(d, n))
    BY <1>2, PathOrder
  <2> QED
    BY <1>1, <2>1, <2>2
<1> QED
  BY <1>4, <1>5

(* What is at a path below the root. *)
LEMMA WsAt ==
    ASSUME NEW p \in Node
    PROVE  At(p) = ws[p]
BY RootIsPath DEF At

(* What is in the place of outputs, in a workspace in which nothing has     *)
(* replaced them.                                                          *)
LEMMA NothingReplaced ==
    ASSUME WsOK, Regular, NEW o \in outs, NEW p \in {o.path} \cup o.entries
    PROVE  /\ p \in o.entries \/ ~o.dir => ws[p] \in {"none", "file"}
           /\ o.dir => ws[o.path] \in {"none", "dir"}
           /\ \A q \in Node : In(p, q) => ws[q] \in {"none", "dir"}
<1>1. \A x \in {o.path} \cup o.entries : \A q \in Node :
         InOrEq(x, q) =>
            At(q) \in {"none", IF q \in o.entries \/ (q = o.path /\ ~o.dir) THEN "file" ELSE "dir"}
  BY DEF Regular, Replaced
<1>2. /\ o.path \in Node /\ o.path \in Names /\ o.entries \subseteq Node
      /\ p \in Node /\ p \in Names
  BY OutIs, RootIsPath DEF Path
<1>3. Flat(o)
  BY DEF WsOK, Outputs
<1>4. o.path \notin o.entries
  BY <1>2, <1>3, PathOrder DEF Flat
<1>5. InOrEq(p, p) /\ InOrEq(o.path, o.path)
  BY <1>2, PathOrder
<1>6. p \in o.entries \/ ~o.dir => ws[p] \in {"none", "file"}
  <2>1. CASE p \in o.entries
    BY <1>1, <1>2, <1>5, <2>1, WsAt
  <2>2. CASE p = o.path /\ ~o.dir
    BY <1>1, <1>2, <1>5, <2>2, WsAt
  <2> QED
    BY <2>1, <2>2
<1>7. o.dir => ws[o.path] \in {"none", "dir"}
  BY <1>1, <1>2, <1>4, <1>5, WsAt
<1>8. ASSUME NEW q \in Node, In(p, q) PROVE ws[q] \in {"none", "dir"}
  <2>1. q \in Names /\ InOrEq(p, q) /\ p # q
    BY <1>2, <1>8, RootIsPath, PathOrder DEF Path
  <2>2. q \notin o.entries
    <3>1. SUFFICES ASSUME q \in o.entries PROVE FALSE
      OBVIOUS
    <3>2. In(q, o.path)
      BY <1>3, <3>1 DEF Flat
    <3>3. p # o.path
      BY <1>2, <2>1, <3>2, PathOrder
    <3> QED
      BY <1>3, <1>8, <3>1, <3>3 DEF Flat
  <2>3. q = o.path => o.dir
    BY <1>3, <2>1 DEF Flat
  <2> QED
    BY <1>1, <2>1, <2>2, <2>3, WsAt
<1> QED
  BY <1>6, <1>7, <1>8

(* A missing file of an output. *)
LEMMA MissingFileIs ==
    ASSUME WsOK, NEW p \in Node, IsFile(p), ~TreeExists(RepoOf(p), p)
    PROVE  \E o \in Outs(RepoOf(p)) :
              OutsBy(RepoOf(p), p) = {o} /\ (IF o.dir THEN p \in o.entries ELSE p = o.path)
<1>1. OfMissingOut(RepoOf(p), p) /\ ~MetaIsDir(RepoOf(p), p)
  BY DEF IsFile
<1>2. PICK o \in Outs(RepoOf(p)) : OutsBy(RepoOf(p), p) = {o}
  BY <1>1 DEF OfMissingOut
<1>3. IF o.dir THEN p \in o.entries ELSE p = o.path
  BY <1>1, <1>2 DEF MetaIsDir, CheckIsDir
<1> QED
  BY <1>2, <1>3

(* What an output has and the workspace has not is a file of the           *)
(* repository.                                                             *)
LEMMA OutIsFile ==
    ASSUME WsOK, NEW p \in Node, NEW o \in Outs(RepoOf(p)),
           IF o.dir THEN p \in o.entries ELSE p = o.path,
           ~TreeExists(RepoOf(p), p), ~TreeExists(RepoOf(p), o.path)
    PROVE  IsFile(p)
<1> DEFINE r == RepoOf(p)
<1>1. p \in {o.path} \cup o.entries
  OBVIOUS
<1>2. OutsBy(r, p) = {o} /\ InOrEq(p, o.path)
  BY <1>1, OnlyOut
<1>3. o \in outs
  BY DEF Outs
<1>4. ~In(o.path, p)
  BY <1>2, <1>3, OutIs, PathOrder, RootIsPath DEF Path
<1>5. Cardinality(OutsBy(r, p)) = 1
  BY <1>2, FS_Singleton
<1>6. ~ContainsOutputs(r, p)
  <2>1. ~(Cardinality(OutsBy(r, p)) > 1)
    BY <1>5
  <2> QED
    BY <1>2, <1>4, <2>1 DEF ContainsOutputs
<1>7. ~CheckIsDir(r, p)
  BY <1>2 DEF CheckIsDir
<1>8. OfMissingOut(r, p)
  BY <1>2 DEF OfMissingOut
<1> QED
  BY <1>6, <1>7, <1>8 DEF IsFile, MetaIsDir

(* What is listed of a path: what WalkSound says of it. *)
Sound(top, p) ==
    /\ In(p, top) /\ Opens(p)
    /\ \/ IsFile(p) \/ At(p) = "link"
       \/ \E o \in Outs(RepoOf(p)) : p \in o.entries /\ At(o.path) = "dir"

(* What is not ignored below a directory is in the same repository. *)
LEMMA SameRepo ==
    ASSUME WsOK, NEW g \in Names, NEW p \in Names, InOrEq(p, g), ~Ignored(RepoOf(g), p)
    PROVE  RepoOf(p) = RepoOf(g)
<1>1. subrepos \subseteq Node
  BY DEF WsOK, WsTypes
<1> QED
  BY <1>1, RepoDeeper

(* A file that the workspace's tree lists is one that the view opens. *)
LEMMA TreeFilesAreSound ==
    ASSUME WsOK, NEW top \in Names, NEW g \in Names, NEW d \in Names, InOrEq(d, g),
           InOrEq(d, top), NEW n \in TreeFiles(RepoOf(g), d)
    PROVE  Append(d, n) \in Node /\ Sound(top, Append(d, n))
<1> DEFINE p == Append(d, n)
<1>1. n \in Name /\ p \in Node /\ Kind(p) = "file" /\ ~Ignored(RepoOf(g), p)
  BY DEF TreeFiles
<1>2. p \in Names /\ In(p, d)
  BY <1>1, ChildIsIn
<1>3. InOrEq(p, g) /\ In(p, top)
  BY <1>2, PathOrder
<1>4. RepoOf(p) = RepoOf(g)
  BY <1>1, <1>2, <1>3, SameRepo
<1>5. Opens(p)
  BY <1>1 DEF Opens
<1>6. At(p) \in {"link", "file"}
  BY <1>1 DEF Kind
<1>7. At(p) = "file" => IsFile(p)
  BY <1>1, <1>4 DEF IsFile, TreeExists
<1> HIDE DEF p
<1>8. Sound(top, p)
  BY <1>3, <1>5, <1>6, <1>7 DEF Sound
<1> QED
  BY <1>1, <1>8 DEF p

(* And so is one that the outputs' tree lists. *)
LEMMA DvcFilesAreSound ==
    ASSUME WsOK, Regular, NEW top \in Names, NEW g \in Names, NEW d \in Names, InOrEq(d, g),
           InOrEq(d, top), ~Ignored(RepoOf(g), d), NEW n \in DvcFiles(RepoOf(g), d)
    PROVE  Append(d, n) \in Node /\ Sound(top, Append(d, n))
<1> DEFINE p == Append(d, n)
           r == RepoOf(g)
<1>1. n \in Name /\ p \in Keys(r, d) /\ n \notin DvcDirs(r, d)
  BY DEF DvcFiles
<1>2. p \in Names /\ In(p, d)
  BY <1>1, ChildIsIn
<1>3. InOrEq(p, g) /\ In(p, top) /\ InOrEq(p, p)
  BY <1>2, PathOrder
<1>4. p \in Node /\ ~Ignored(r, p)
  BY <1>1, <1>3, DvcNotIgnored
<1>5. RepoOf(p) = r
  BY <1>2, <1>3, <1>4, SameRepo
<1>6. PICK o \in Outs(r) : p = o.path \/ (o.dir /\ InOrEq(d, o.path) /\ p \in o.entries)
  <2> HIDE DEF p, r
  <2> QED
    BY <1>1, KeyIs
<1>7. p = o.path => ~o.dir
  BY <1>1, <1>6 DEF DvcDirs
<1>8. IF o.dir THEN p \in o.entries ELSE p = o.path
  BY <1>6, <1>7
<1>9. o \in outs /\ p \in {o.path} \cup o.entries
  BY <1>6 DEF Outs
<1> HIDE DEF p, r
<1>10. /\ ws[p] \in {"none", "file"}
       /\ o.dir => ws[o.path] \in {"none", "dir"}
       /\ \A q \in Node : In(p, q) => ws[q] \in {"none", "dir"}
  BY <1>8, <1>9, NothingReplaced
<1>11. o.path \in Node /\ At(p) = ws[p] /\ At(o.path) = ws[o.path]
  BY <1>4, <1>9, WsAt, OutIs
<1>12. CASE ws[p] = "file"
  <2>1. Opens(p)
    BY <1>11, <1>12 DEF Opens, Kind
  <2>2. IsFile(p)
    BY <1>4, <1>5, <1>11, <1>12 DEF IsFile, TreeExists
  <2> QED
    BY <1>3, <1>4, <2>1, <2>2 DEF Sound, p
<1>13. CASE ws[p] = "none"
  <2>1. DvcOpens(r, p)
    BY <1>6, <1>8, <1>9, OnlyOut DEF DvcOpens
  <2>2. \A q \in Node : In(p, q) => At(q) # "file"
    BY <1>10, WsAt
  <2>3. Opens(p)
    BY <1>5, <1>11, <1>13, <2>1, <2>2 DEF Opens
  <2>4. ~TreeExists(r, p)
    BY <1>11, <1>13 DEF TreeExists
  <2>5. CASE ~TreeExists(r, o.path)
    <3>1. IsFile(p)
      BY <1>4, <1>5, <1>6, <1>8, <2>4, <2>5, OutIsFile
    <3> QED
      BY <1>3, <1>4, <2>3, <3>1 DEF Sound, p
  <2>6. CASE TreeExists(r, o.path)
    <3>1. ws[o.path] # "none"
      BY <1>11, <2>6 DEF TreeExists
    <3>2. o.dir
      BY <1>8, <1>13, <3>1
    <3>3. p \in o.entries /\ At(o.path) = "dir"
      BY <1>8, <1>10, <1>11, <3>1, <3>2
    <3> QED
      BY <1>3, <1>4, <1>5, <1>6, <2>3, <3>3 DEF Sound, p
  <2> QED
    BY <2>5, <2>6
<1> QED
  BY <1>10, <1>12, <1>13

(* A file below a directory, in a name of it. *)
Toward(p, d, n) ==
    /\ In(p, d) /\ n \in Name /\ Append(d, n) \in Node /\ InOrEq(p, Append(d, n))

(* The name of a directory that leads to a file below it. *)
LEMMA TowardIs ==
    ASSUME NEW p \in Node, NEW d \in Names, NEW n, Toward(p, d, n)
    PROVE  /\ n \in Name /\ p \in Names /\ Append(d, n) \in Names /\ Append(d, n) \in Node
           /\ InOrEq(p, Append(d, n)) /\ InOrEq(p, d)
           /\ p # Append(d, n) => In(p, Append(d, n))
           /\ \A x \in Names : InOrEq(p, x) =>
                 x = Append(d, n) \/ InOrEq(d, x) \/ In(x, Append(d, n))
<1> DEFINE c == Append(d, n)
<1>1. n \in Name /\ p \in Names /\ c \in Names /\ c \in Node /\ InOrEq(p, c) /\ In(p, d)
  BY ChildIsIn, RootIsPath DEF Toward, Path
<1> HIDE DEF c
<1>2. InOrEq(p, d) /\ (p # c => In(p, c))
  BY <1>1, PathOrder
<1>3. ASSUME NEW x \in Names, InOrEq(p, x) PROVE x = c \/ InOrEq(d, x) \/ In(x, c)
  <2>1. InOrEq(x, c) \/ InOrEq(c, x)
    BY <1>1, <1>3, PathOrder
  <2>2. InOrEq(c, x) => x = c \/ InOrEq(d, x)
    BY <1>1, ChildIsIn DEF c
  <2>3. InOrEq(x, c) => x = c \/ In(x, c)
    BY <1>1, PathOrder
  <2> QED
    BY <2>1, <2>2, <2>3
<1> QED
  BY <1>1, <1>2, <1>3 DEF c

(* A file in a repository below: its repository is a directory.            *)
LEMMA FoundInRepo ==
    ASSUME WsOK, NEW g \in Names, NEW d \in Names, InOrEq(d, g), ~Ignored(RepoOf(g), d),
           NEW p \in Node, NEW n, Toward(p, d, n), IsFile(p), RepoOf(p) # RepoOf(g)
    PROVE  p # Append(d, n) /\ n \in TreeDirs(RepoOf(g), d)
<1> DEFINE c == Append(d, n)
           r == RepoOf(g)
           s == RepoOf(p)
<1>1. /\ n \in Name /\ p \in Names /\ c \in Names /\ c \in Node /\ InOrEq(p, c) /\ InOrEq(p, d)
      /\ \A x \in Names : InOrEq(p, x) => x = c \/ InOrEq(d, x) \/ In(x, c)
  BY TowardIs
<1>2. subrepos \subseteq Node
  BY DEF WsOK, WsTypes
<1>3. InOrEq(p, g)
  BY <1>1, PathOrder
<1>4. mode.traverse /\ s \in subrepos /\ In(s, r)
  BY <1>1, <1>2, <1>3, RepoDeeper
<1>5. s \in Names /\ InOrEq(p, s) /\ ~Ignored(s, p)
  BY <1>1, <1>2, <1>4, RepoIs
<1>6. ~InOrEq(d, s)
  BY <1>4 DEF Ignored
<1>7. s = c \/ In(s, c)
  BY <1>1, <1>5, <1>6
<1>8. ws[s] = "dir" /\ s \in Node
  BY <1>2, <1>4 DEF WsOK, Layout
<1>9. ws[c] = "dir"
  <2>1. ws[s] # "none"
    BY <1>8
  <2> QED
    BY <1>1, <1>7, <1>8, <2>1 DEF WsOK, Layout
<1>10. p # c
  <2>1. SUFFICES ASSUME p = c PROVE FALSE
    OBVIOUS
  <2>2. At(p) = "dir"
    BY <1>9, <2>1, WsAt
  <2>3. TreeExists(s, p)
    BY <1>5, <2>2 DEF TreeExists
  <2> QED
    BY <2>2, <2>3 DEF IsFile
<1>11. Ignored(r, c) => c \in subrepos
  <2> HIDE DEF r
  <2> QED
    BY <1>1, <1>2, IgnoredChild DEF r
<1>12. Kind(c) = "dir"
  BY <1>1, <1>9, WsAt DEF Kind
<1>13. n \in TreeDirs(r, d)
  BY <1>1, <1>4, <1>11, <1>12 DEF TreeDirs
<1> QED
  BY <1>10, <1>13

(* A file of the workspace. *)
LEMMA FoundInTree ==
    ASSUME WsOK, NEW g \in Names, NEW d \in Names, InOrEq(d, g), ~Ignored(RepoOf(g), d),
           NEW p \in Node, NEW n, Toward(p, d, n), IsFile(p), TreeExists(RepoOf(p), p)
    PROVE  IF p = Append(d, n) THEN n \in TreeFiles(RepoOf(g), d)
           ELSE n \in TreeDirs(RepoOf(g), d)
<1> DEFINE c == Append(d, n)
           r == RepoOf(g)
<1>1. CASE RepoOf(p) # r
  BY <1>1, FoundInRepo
<1>2. CASE RepoOf(p) = r
  <2>1. /\ n \in Name /\ p \in Names /\ c \in Names /\ c \in Node /\ InOrEq(p, c)
        /\ p # c => In(p, c)
    BY TowardIs
  <2>2. At(p) = "file" /\ ws[p] = "file" /\ ~Ignored(r, p)
    BY <1>2, WsAt DEF IsFile, TreeExists
  <2>3. subrepos \subseteq Node
    BY DEF WsOK, WsTypes
  <2>4. ~Ignored(r, c)
    BY <2>1, <2>2, <2>3, IgnoredBelow
  <2>5. CASE p = c
    BY <2>1, <2>2, <2>4, <2>5 DEF TreeFiles, Kind
  <2>6. CASE p # c
    <3>1. ws[c] = "dir"
      BY <2>1, <2>2, <2>6 DEF WsOK, Layout
    <3>2. Kind(c) = "dir"
      BY <2>1, <3>1, WsAt DEF Kind
    <3> QED
      BY <2>1, <2>4, <2>6, <3>2 DEF TreeDirs
  <2> QED
    BY <2>5, <2>6
<1> QED
  BY <1>1, <1>2

(* A missing file of an output is no directory of DvcTree._walk. *)
LEMMA FileIsNoDvcDir ==
    ASSUME WsOK, NEW r, NEW d \in Names, NEW n, NEW o \in Outs(r),
           IF o.dir THEN Append(d, n) \in o.entries ELSE Append(d, n) = o.path
    PROVE  n \notin DvcDirs(r, d)
<1> DEFINE p == Append(d, n)
<1>1. SUFFICES ASSUME n \in DvcDirs(r, d) PROVE FALSE
  OBVIOUS
<1>2. PICK k \in Keys(r, d) : In(k, p) \/ (k = p /\ \E q \in Outs(r) : q.path = k /\ q.dir)
  BY <1>1 DEF DvcDirs
<1> HIDE DEF p
<1>3. p \in {o.path} \cup o.entries /\ o \in outs
  BY DEF p, Outs
<1>4. OutsBy(r, p) = {o} /\ p \in Node /\ InOrEq(p, o.path)
  BY <1>3, OnlyOut
<1>5. p \in Names /\ o.path \in Names /\ Flat(o)
  BY <1>3, <1>4, OutIs, RootIsPath DEF Path, WsOK, Outputs
<1>6. ~(o.dir /\ p = o.path)
  BY <1>5, PathOrder DEF p, Flat
<1>7. ASSUME NEW q \in Outs(r), q.path = p, q.dir PROVE FALSE
  <2>1. InOrEq(p, q.path)
    BY <1>5, <1>7, PathOrder
  <2>2. q = o
    BY <1>4, <2>1 DEF OutsBy
  <2> QED
    BY <1>6, <1>7, <2>2
<1>8. ASSUME In(k, p) PROVE FALSE
  <2>1. PICK q \in Outs(r) : k \in {q.path} \cup q.entries
    BY KeyIs
  <2>2. q \in outs /\ k \in Node /\ InOrEq(k, q.path)
    BY <2>1, OnlyOut DEF Outs
  <2>3. k \in Names /\ q.path \in Names /\ Flat(q)
    BY <2>2, OutIs, RootIsPath DEF Path, WsOK, Outputs
  <2>4. InOrEq(k, p)
    BY <1>5, <1>8, <2>3, PathOrder
  <2>5. InOrEq(p, q.path) \/ In(q.path, p)
    BY <1>5, <2>2, <2>3, <2>4, PathOrder
  <2>6. q = o
    BY <1>4, <2>1, <2>5 DEF OutsBy
  <2>7. k # o.path
    BY <1>4, <1>5, <1>8, <2>4, PathOrder
  <2>8. k \in o.entries /\ o.dir
    BY <2>1, <2>3, <2>6, <2>7 DEF Flat
  <2>9. p \in o.entries
    BY <2>8 DEF p
  <2> QED
    BY <1>5, <1>8, <2>8, <2>9 DEF Flat
<1> QED
  BY <1>2, <1>7, <1>8

(* A file of an output that is not in the workspace.                       *)
LEMMA FoundInOuts ==
    ASSUME WsOK, NEW r, NEW d \in Names, NEW p \in Node, NEW n, Toward(p, d, n),
           IsFile(p), RepoOf(p) = r, ~TreeExists(r, p)
    PROVE  IF p = Append(d, n) THEN n \in DvcFiles(r, d) ELSE n \in DvcDirs(r, d)
<1> DEFINE c == Append(d, n)
<1>1. /\ n \in Name /\ p \in Names /\ c \in Names /\ c \in Node /\ InOrEq(p, c)
      /\ p # c => In(p, c)
      /\ \A x \in Names : InOrEq(p, x) => x = c \/ InOrEq(d, x) \/ In(x, c)
  BY TowardIs
<1>2. PICK o \in Outs(r) : OutsBy(r, p) = {o} /\ IF o.dir THEN p \in o.entries ELSE p = o.path
  BY MissingFileIs
<1>3. p \in {o.path} \cup o.entries /\ o \in outs
  BY <1>2 DEF Outs
<1>4. InOrEq(p, o.path) /\ o.path \in Names
  BY <1>3, OnlyOut, OutIs
<1>5. o.path \in Keys(r, d)
  BY KeyIs
<1>6. CASE InOrEq(d, o.path) \/ ~o.dir
  <2>1. p \in Keys(r, d)
    BY <1>2, <1>6, KeyIs
  <2>2. CASE p = c
    <3>1. n \notin DvcDirs(r, d)
      BY <1>2, <2>2, FileIsNoDvcDir
    <3> QED
      BY <1>1, <2>1, <2>2, <3>1 DEF DvcFiles
  <2>3. CASE p # c
    <3>1. In(p, c)
      BY <1>1, <2>3
    <3>2. n \in DvcDirs(r, d)
      BY <1>1, <2>1, <3>1 DEF DvcDirs
    <3> QED
      BY <2>3, <3>2
  <2> QED
    BY <2>2, <2>3
<1>7. CASE o.dir /\ ~InOrEq(d, o.path)
  <2>1. o.path = c \/ In(o.path, c)
    BY <1>1, <1>4, <1>7
  <2>2. p # c
    <3>1. In(p, o.path)
      BY <1>2, <1>3, <1>7 DEF WsOK, Outputs, Flat
    <3>2. p # o.path
      BY <1>1, <1>4, <3>1, PathOrder
    <3> HIDE DEF c
    <3>3. InOrEq(o.path, c)
      <4> DEFINE x == o.path
      <4>1. x \in Names /\ c \in Names /\ (x = c \/ In(x, c))
        BY <1>1, <1>4, <2>1
      <4> HIDE DEF x
      <4>2. InOrEq(x, c)
        BY <4>1, PathOrder
      <4> QED
        BY <4>2 DEF x
    <3> QED
      BY <1>1, <1>4, <3>2, <3>3, PathOrder
  <2>3. n \in DvcDirs(r, d)
    BY <1>1, <1>5, <1>7, <2>1 DEF DvcDirs
  <2> QED
    BY <2>2, <2>3
<1> QED
  BY <1>6, <1>7

-----------------------------------------------------------------------------
(* The invariant of a walk.                                                *)

(* A repository without outputs, of which the walk only enters the name.   *)
Bare(top, g) == g # top /\ OutsBy(g, g) = {}

Of(g, kinds) == [kind : kinds, gen : {g}, dir : Seq(Name)]

(* No directory is left to do twice, or with one that is in it.            *)
Apart(todo) == \A i, j \in DOMAIN todo : i # j => ~InOrEq(todo[i].dir, todo[j].dir)

(* There is something in the outputs for their generator to come to.       *)
Keyed(top, t) ==
    t.kind \in {"dvc", "both"} =>
        IF t.dir = t.gen THEN Bare(top, t.gen) \/ OutsBy(RepoOf(t.gen), t.gen) # {}
        ELSE HasKey(RepoOf(t.gen), t.dir)

Rooted(top, t) ==
    /\ InOrEq(t.dir, t.gen)
    /\ Keyed(top, t)
    /\ IF t.kind = "subrepo" THEN mode.traverse /\ t.dir \in subrepos /\ In(t.dir, top)
       ELSE ~Ignored(RepoOf(t.gen), t.dir)

(* A generator will come to the directories that are left to do with it, in *)
(* their order.                                                            *)
Matched(top, g, gen, todo) ==
    IF Bare(top, g)
    THEN gen.dvc = <<>> /\ \A i \in DOMAIN todo : todo[i].gen = g => todo[i] = Task("both", g, g)
    ELSE /\ Lined(gen.repo, todo, Of(g, {"repo", "both"}))
         /\ Lined(gen.dvc, todo, Of(g, {"dvc", "both"}))

Entered(top, g) == g = top \/ (mode.traverse /\ g \in subrepos /\ In(g, top))

Skipped(top, p) ==
    \E s \in subrepos : mode.traverse /\ InOrEq(p, s) /\ In(s, top) /\ OutsBy(s, s) = {}

Due(top, p) == In(p, top) /\ IsFile(p) /\ ~Skipped(top, p)

(* The turn of a directory comes to the file, as far as its kind goes.     *)
Suits(t, p) ==
    \/ t.kind \in {"subrepo", "both"}
    \/ t.kind = "repo" /\ (TreeExists(RepoOf(p), p) \/ RepoOf(p) # RepoOf(t.gen))
    \/ t.kind = "dvc" /\ ~TreeExists(RepoOf(p), p) /\ RepoOf(p) = RepoOf(t.gen)

Reaches(todo, p) == \E i \in DOMAIN todo : In(p, todo[i].dir) /\ Suits(todo[i], p)

Going(top, gens, todo, listed) ==
    /\ Apart(todo)
    /\ \A i \in DOMAIN todo : Rooted(top, todo[i])
    /\ \A g \in DOMAIN gens : Entered(top, g) /\ Matched(top, g, gens[g], todo)
    /\ \A p \in listed : p \in Node /\ Sound(top, p)
    /\ \A p \in Node : Due(top, p) => p \in listed \/ Reaches(todo, p)

WalkGoes == Regular /\ walk.pc # "idle" => Going(walk.top, walk.gens, walk.todo, walk.listed)
DoneIsEmpty == walk.pc = "done" => walk.todo = <<>>

FailsThere ==
    Regular /\ walk.pc = "failed" => \E o \in Outs(RepoOf(walk.top)) : NotInOutput(o, walk.top)

Inv == WsOK /\ WalkTypes /\ WalkGoes /\ DoneIsEmpty /\ FailsThere

-----------------------------------------------------------------------------
(* A walk leaves what it looks at alone.                                   *)
Looks == <<ws, outs, subrepos, mode>>

(* What a walk looks at is the same after a turn of it ... *)
LEMMA SameTrees ==
    ASSUME UNCHANGED Looks
    PROVE  /\ mode' = mode /\ subrepos' = subrepos
           /\ \A p : At(p)' = At(p) /\ Kind(p)' = Kind(p) /\ RepoOf(p)' = RepoOf(p)
           /\ \A r, p : Ignored(r, p)' <=> Ignored(r, p)
           /\ \A r, p : TreeExists(r, p)' <=> TreeExists(r, p)
           /\ \A r : Outs(r)' = Outs(r)
           /\ \A r, p : OutsBy(r, p)' = OutsBy(r, p)
           /\ Regular' <=> Regular
<1> USE DEF Looks
<1>1. \A p : At(p)' = At(p)
  BY DEF At, Root
<1>2. \A p : Kind(p)' = Kind(p)
  BY <1>1 DEF Kind
<1>3. \A p : RepoOf(p)' = RepoOf(p)
  BY DEF RepoOf, Home, InOrEq, IsPrefix
<1>4. \A r, p : Ignored(r, p)' <=> Ignored(r, p)
  BY DEF Ignored, In, InOrEq
<1>5. \A r, p : TreeExists(r, p)' <=> TreeExists(r, p)
  BY <1>1, <1>4 DEF TreeExists
<1>6. \A r : Outs(r)' = Outs(r)
  BY DEF Outs
<1>7. \A r, p : OutsBy(r, p)' = OutsBy(r, p)
  BY <1>6 DEF OutsBy, InOrEq, In
<1>8. Replaced' <=> Replaced
  BY <1>1 DEF Replaced, InOrEq
<1>9. Regular' <=> Regular
  BY <1>8 DEF Regular
<1>10. mode' = mode /\ subrepos' = subrepos
  OBVIOUS
<1> HIDE DEF Looks
<1> QED
  BY <1>1, <1>2, <1>3, <1>4, <1>5, <1>6, <1>7, <1>9, <1>10

(* ... and so are the files that the view has ... *)
LEMMA SameFiles ==
    ASSUME UNCHANGED Looks
    PROVE  /\ \A p : IsFile(p)' <=> IsFile(p)
           /\ \A p : Opens(p)' <=> Opens(p)
           /\ \A top, p : Sound(top, p)' <=> Sound(top, p)
<1>1. \A r, p : OfMissingOut(r, p)' <=> OfMissingOut(r, p)
  BY SameTrees DEF OfMissingOut
<1>2. \A r, p : ContainsOutputs(r, p)' <=> ContainsOutputs(r, p)
  BY SameTrees DEF ContainsOutputs, In
<1>3. \A r, p : CheckIsDir(r, p)' <=> CheckIsDir(r, p)
  BY SameTrees DEF CheckIsDir
<1>4. \A r, p : MetaIsDir(r, p)' <=> MetaIsDir(r, p)
  BY <1>2, <1>3 DEF MetaIsDir
<1>5. \A p : IsFile(p)' <=> IsFile(p)
  BY <1>1, <1>4, SameTrees DEF IsFile
<1>6. \A r, p : DvcOpens(r, p)' <=> DvcOpens(r, p)
  BY SameTrees DEF DvcOpens, InOrEq
<1>7. \A p : Opens(p)' <=> Opens(p)
  BY <1>6, SameTrees DEF Opens, In
<1>8. \A top, p : Sound(top, p)' <=> Sound(top, p)
  BY <1>5, <1>7, SameTrees DEF Sound, In
<1> QED
  BY <1>5, <1>7, <1>8

(* ... and what the invariant says of a walk. *)
LEMMA SameGoing ==
    ASSUME UNCHANGED Looks
    PROVE  \A top, gens, todo, listed :
              Going(top, gens, todo, listed)' <=> Going(top, gens, todo, listed)
<1>1. \A top, t : Rooted(top, t)' <=> Rooted(top, t)
  <2>1. \A r, d : Keys(r, d)' = Keys(r, d)
    BY SameTrees DEF Keys, InOrEq
  <2>2. \A top, t : Keyed(top, t)' <=> Keyed(top, t)
    BY <2>1, SameTrees DEF Keyed, Bare, HasKey, InOrEq
  <2> QED
    BY <2>2, SameTrees DEF Rooted, In, InOrEq
<1>2. \A top, g : Entered(top, g)' <=> Entered(top, g)
  BY SameTrees DEF Entered, In
<1>3. \A top, g : Bare(top, g)' <=> Bare(top, g)
  BY SameTrees DEF Bare
<1>4. \A top, g, gen, todo : Matched(top, g, gen, todo)' <=> Matched(top, g, gen, todo)
  <2> SUFFICES ASSUME NEW top, NEW g, NEW gen, NEW todo
               PROVE  Matched(top, g, gen, todo)' <=> Matched(top, g, gen, todo)
    OBVIOUS
  <2>1. \A x, T : Lined(x, todo, T)' <=> Lined(x, todo, T)
    BY DEF Lined
  <2>2. \A kinds : Of(g, kinds)' = Of(g, kinds)
    BY DEF Of
  <2> QED
    BY <1>3, <2>1, <2>2 DEF Matched, Task
<1>5. \A top, p : Skipped(top, p)' <=> Skipped(top, p)
  BY SameTrees DEF Skipped, In, InOrEq
<1>6. \A top, p : Due(top, p)' <=> Due(top, p)
  BY <1>5, SameFiles DEF Due, In
<1>7. \A t, p : Suits(t, p)' <=> Suits(t, p)
  BY SameTrees DEF Suits
<1>8. \A todo, p : Reaches(todo, p)' <=> Reaches(todo, p)
  BY <1>7 DEF Reaches, In
<1>9. \A todo : Apart(todo)' <=> Apart(todo)
  BY DEF Apart, InOrEq
<1> SUFFICES ASSUME NEW top, NEW gens, NEW todo, NEW listed
             PROVE  Going(top, gens, todo, listed)' <=> Going(top, gens, todo, listed)
  OBVIOUS
<1>10. (\A i \in DOMAIN todo : Rooted(top, todo[i]))'
          <=> \A i \in DOMAIN todo : Rooted(top, todo[i])
  BY <1>1
<1>11. (\A g \in DOMAIN gens : Entered(top, g) /\ Matched(top, g, gens[g], todo))'
       <=> \A g \in DOMAIN gens : Entered(top, g) /\ Matched(top, g, gens[g], todo)
  BY <1>2, <1>4
<1>12. (\A p \in listed : p \in Node /\ Sound(top, p))'
       <=> \A p \in listed : p \in Node /\ Sound(top, p)
  BY SameFiles
<1>13. (\A p \in Node : Due(top, p) => p \in listed \/ Reaches(todo, p))'
       <=> \A p \in Node : Due(top, p) => p \in listed \/ Reaches(todo, p)
  BY <1>6, <1>8
<1>14. Apart(todo)' <=> Apart(todo)
  BY <1>9
<1>15. Going(top, gens, todo, listed) => Going(top, gens, todo, listed)'
  <2> SUFFICES ASSUME Going(top, gens, todo, listed) PROVE Going(top, gens, todo, listed)'
    OBVIOUS
  <2>1. Apart(todo)'
    BY <1>14 DEF Going
  <2>2. (\A i \in DOMAIN todo : Rooted(top, todo[i]))'
    BY <1>10 DEF Going
  <2>3. (\A g \in DOMAIN gens : Entered(top, g) /\ Matched(top, g, gens[g], todo))'
    BY <1>11 DEF Going
  <2>4. (\A p \in listed : p \in Node /\ Sound(top, p))'
    BY <1>12 DEF Going
  <2>5. (\A p \in Node : Due(top, p) => p \in listed \/ Reaches(todo, p))'
    BY <1>13 DEF Going
  <2> QED
    BY <2>1, <2>2, <2>3, <2>4, <2>5 DEF Going
<1>16. Going(top, gens, todo, listed)' => Going(top, gens, todo, listed)
  <2> SUFFICES ASSUME Going(top, gens, todo, listed)' PROVE Going(top, gens, todo, listed)
    OBVIOUS
  <2>1. Apart(todo)
    BY <1>14 DEF Going
  <2>2. \A i \in DOMAIN todo : Rooted(top, todo[i])
    BY <1>10 DEF Going
  <2>3. \A g \in DOMAIN gens : Entered(top, g) /\ Matched(top, g, gens[g], todo)
    BY <1>11 DEF Going
  <2>4. \A p \in listed : p \in Node /\ Sound(top, p)
    BY <1>12 DEF Going
  <2>5. \A p \in Node : Due(top, p) => p \in listed \/ Reaches(todo, p)
    BY <1>13 DEF Going
  <2> QED
    BY <2>1, <2>2, <2>3, <2>4, <2>5 DEF Going
<1> QED
  BY <1>15, <1>16

(* What is left to do after a turn: its own turns, then the rest.          *)
LEMMA AfterTurn ==
    ASSUME NEW X, NEW new \in Seq(X), NEW todo \in Seq(X), todo # <<>>
    PROVE  /\ new \o Tail(todo) \in Seq(X)
           /\ \A i \in DOMAIN (new \o Tail(todo)) :
                 \/ i \in DOMAIN new /\ (new \o Tail(todo))[i] = new[i]
                 \/ /\ i \notin DOMAIN new
                    /\ i - Len(new) + 1 \in DOMAIN todo /\ i - Len(new) + 1 # 1
                    /\ (new \o Tail(todo))[i] = todo[i - Len(new) + 1]
           /\ \A i \in DOMAIN new : \E k \in DOMAIN (new \o Tail(todo)) :
                 (new \o Tail(todo))[k] = new[i]
           /\ \A j \in DOMAIN todo : j # 1 => \E k \in DOMAIN (new \o Tail(todo)) :
                 (new \o Tail(todo))[k] = todo[j]
           /\ 1 \in DOMAIN todo /\ Head(todo) = todo[1]
<1> DEFINE z == new \o Tail(todo)
           a == Len(new)
           b == Len(todo)
<1>1. /\ Tail(todo) \in Seq(X) /\ Len(Tail(todo)) = Len(todo) - 1
      /\ \A i \in 1..Len(Tail(todo)) : Tail(todo)[i] = todo[i + 1]
      /\ Head(todo) = todo[1]
  BY HeadTailProperties
<1>2. z \in Seq(X) /\ Len(z) = Len(new) + Len(Tail(todo))
      /\ \A i \in 1..Len(z) : z[i] = IF i <= Len(new) THEN new[i] ELSE Tail(todo)[i - Len(new)]
  BY <1>1, ConcatProperties
<1>3. a \in Nat /\ b \in Nat /\ DOMAIN new = 1..a /\ DOMAIN todo = 1..b
  BY LenProperties
<1>4. b # 0
  BY EmptySeq
<1>5. Len(z) = a + b - 1 /\ DOMAIN z = 1..Len(z)
  BY <1>1, <1>2, <1>3, LenProperties
<1>6. \A i \in 1..(a + b - 1) : z[i] = IF i <= a THEN new[i] ELSE Tail(todo)[i - a]
  BY <1>2, <1>5
<1>7. \A i \in 1..(b - 1) : Tail(todo)[i] = todo[i + 1]
  BY <1>1
<1> HIDE DEF z, a, b
<1>8. DOMAIN z = 1..(a + b - 1)
  BY <1>5
<1>9. ASSUME NEW i \in DOMAIN z
      PROVE  \/ i \in DOMAIN new /\ z[i] = new[i]
             \/ /\ i \notin DOMAIN new /\ i - a + 1 \in DOMAIN todo /\ i - a + 1 # 1
                /\ z[i] = todo[i - a + 1]
  <2>1. i \in 1..(a + b - 1)
    BY <1>8
  <2>2. CASE i <= a
    BY <1>3, <1>6, <2>1, <2>2
  <2>3. CASE ~(i <= a)
    <3>1. i - a \in 1..(b - 1) /\ i - a + 1 \in 1..b /\ i - a + 1 # 1 /\ i \notin 1..a
      BY <1>3, <2>1, <2>3
    <3>2. z[i] = Tail(todo)[i - a]
      BY <1>6, <2>1, <2>3
    <3>3. Tail(todo)[i - a] = todo[i - a + 1]
      BY <1>7, <3>1
    <3> QED
      BY <1>3, <3>1, <3>2, <3>3
  <2> QED
    BY <2>2, <2>3
<1>10. ASSUME NEW i \in DOMAIN new PROVE \E k \in DOMAIN z : z[k] = new[i]
  <2>1. i \in 1..(a + b - 1) /\ i <= a
    BY <1>3, <1>4 DEF b
  <2> QED
    BY <1>6, <1>8, <2>1
<1>11. ASSUME NEW j \in DOMAIN todo, j # 1 PROVE \E k \in DOMAIN z : z[k] = todo[j]
  <2> DEFINE k == a + j - 1
  <2>1. k \in 1..(a + b - 1) /\ ~(k <= a) /\ k - a = j - 1 /\ j - 1 \in 1..(b - 1) /\ j - 1 + 1 = j
    BY <1>3, <1>11
  <2> HIDE DEF k
  <2>2. z[k] = Tail(todo)[j - 1]
    BY <1>6, <2>1
  <2>3. Tail(todo)[j - 1] = todo[j]
    BY <1>7, <2>1
  <2> QED
    BY <1>8, <2>1, <2>2, <2>3
<1>12. 1 \in DOMAIN todo
  BY <1>3, <1>4 DEF b
<1>13. /\ z \in Seq(X)
       /\ \A i \in DOMAIN z :
            \/ i \in DOMAIN new /\ z[i] = new[i]
            \/ /\ i \notin DOMAIN new /\ i - a + 1 \in DOMAIN todo /\ i - a + 1 # 1
               /\ z[i] = todo[i - a + 1]
       /\ \A i \in DOMAIN new : \E k \in DOMAIN z : z[k] = new[i]
       /\ \A j \in DOMAIN todo : j # 1 => \E k \in DOMAIN z : z[k] = todo[j]
  BY <1>2, <1>9, <1>10, <1>11
<1> QED
  BY <1>1, <1>12, <1>13 DEF z, a

(* The turns that a turn adds: of names of its directory, each once, or of *)
(* the same directory.                                                     *)
Fans(t, new) ==
    /\ \A i \in DOMAIN new : new[i].dir \in Names /\ InOrEq(new[i].dir, t.dir)
    /\ \A i, j \in DOMAIN new : i # j => ~InOrEq(new[i].dir, new[j].dir)

(* New turns in the place of their directory stay apart from the others. *)
LEMMA TurnApart ==
    ASSUME NEW X, NEW new \in Seq(X), NEW todo \in Seq(X), todo # <<>>,
           \A i \in DOMAIN todo : todo[i].dir \in Names,
           Apart(todo), Fans(Head(todo), new)
    PROVE  Apart(new \o Tail(todo))
<1> DEFINE z == new \o Tail(todo)
           a == Len(new)
           t == Head(todo)
<1>1. /\ \A i \in DOMAIN z :
            \/ i \in DOMAIN new /\ z[i] = new[i]
            \/ /\ i \notin DOMAIN new /\ i - a + 1 \in DOMAIN todo /\ i - a + 1 # 1
               /\ z[i] = todo[i - a + 1]
      /\ 1 \in DOMAIN todo /\ t = todo[1]
  BY AfterTurn
<1>2. a \in Nat /\ DOMAIN todo \subseteq Nat /\ DOMAIN z \subseteq Nat
  <2>1. z \in Seq(X)
    BY AfterTurn
  <2> HIDE DEF z
  <2> QED
    BY <2>1, LenProperties
<1> HIDE DEF z, a, t
<1>3. ASSUME NEW i \in DOMAIN new, NEW j \in DOMAIN todo, j # 1
      PROVE  ~InOrEq(new[i].dir, todo[j].dir) /\ ~InOrEq(todo[j].dir, new[i].dir)
  <2>1. /\ new[i].dir \in Names /\ todo[j].dir \in Names /\ t.dir \in Names
        /\ InOrEq(new[i].dir, t.dir)
    BY <1>1 DEF Fans, t
  <2>2. ~InOrEq(t.dir, todo[j].dir) /\ ~InOrEq(todo[j].dir, t.dir)
    BY <1>1, <1>3 DEF Apart
  <2> QED
    BY <2>1, <2>2, PathOrder
<1>4. SUFFICES ASSUME NEW i \in DOMAIN z, NEW j \in DOMAIN z, i # j
               PROVE  ~InOrEq(z[i].dir, z[j].dir)
  BY DEF Apart, z
<1>5. CASE i \in DOMAIN new /\ z[i] = new[i] /\ j \in DOMAIN new /\ z[j] = new[j]
  BY <1>4, <1>5 DEF Fans
<1>6. CASE /\ i \in DOMAIN new /\ z[i] = new[i]
           /\ j - a + 1 \in DOMAIN todo /\ j - a + 1 # 1 /\ z[j] = todo[j - a + 1]
  BY <1>3, <1>6
<1>7. CASE /\ j \in DOMAIN new /\ z[j] = new[j]
           /\ i - a + 1 \in DOMAIN todo /\ i - a + 1 # 1 /\ z[i] = todo[i - a + 1]
  BY <1>3, <1>7
<1>8. CASE /\ i - a + 1 \in DOMAIN todo /\ z[i] = todo[i - a + 1]
           /\ j - a + 1 \in DOMAIN todo /\ z[j] = todo[j - a + 1]
  <2>1. i - a + 1 # j - a + 1
    BY <1>2, <1>4
  <2> QED
    BY <1>8, <2>1 DEF Apart
<1> QED
  BY <1>1, <1>5, <1>6, <1>7, <1>8

(* A generator that has taken its turn, if it had one, and has new ones.   *)
LEMMA LinedTurn ==
    ASSUME NEW X, NEW new \in Seq(X), NEW todo \in Seq(X), todo # <<>>,
           NEW gen \in Seq(Names), NEW a \in Seq(Names), NEW T,
           Lined(gen, todo, T), Lined(a, new, T)
    PROVE  Lined(a \o (IF Head(todo) \in T THEN Tail(gen) ELSE gen), new \o Tail(todo), T)
<1> DEFINE rest == IF Head(todo) \in T THEN Tail(gen) ELSE gen
<1>1. Lined(rest, Tail(todo), T) /\ (Head(todo) \in T => gen # <<>>)
  BY LinedHead
<1>2. rest \in Seq(Names) /\ Tail(todo) \in Seq(X)
  BY <1>1, HeadTailProperties
<1> HIDE DEF rest
<1>3. Lined(a \o rest, new \o Tail(todo), T)
  BY <1>1, <1>2, LinedBoth
<1> QED
  BY <1>3 DEF rest

Todos == Seq(TaskType(Names))

(* A turn keeps the invariant, when its generators and its new turns do. *)
LEMMA TurnGoes ==
    ASSUME NEW top, NEW gens, NEW next, NEW listed, NEW L,
           NEW todo \in Todos, todo # <<>>, NEW new \in Todos,
           Going(top, gens, todo, listed),
           Fans(Head(todo), new), \A i \in DOMAIN new : Rooted(top, new[i]),
           \A h \in DOMAIN next : Entered(top, h) /\ Matched(top, h, next[h], new \o Tail(todo)),
           \A p \in L : p \in Node /\ Sound(top, p),
           \A p \in Node : Due(top, p) /\ In(p, Head(todo).dir) /\ Suits(Head(todo), p) =>
                              p \in L \/ Reaches(new, p)
    PROVE  Going(top, next, new \o Tail(todo), listed \cup L)
<1> DEFINE z == new \o Tail(todo)
           a == Len(new)
<1>1. /\ \A i \in DOMAIN z :
            \/ i \in DOMAIN new /\ z[i] = new[i]
            \/ i - a + 1 \in DOMAIN todo /\ z[i] = todo[i - a + 1]
      /\ \A i \in DOMAIN new : \E k \in DOMAIN z : z[k] = new[i]
      /\ \A j \in DOMAIN todo : j # 1 => \E k \in DOMAIN z : z[k] = todo[j]
      /\ Head(todo) = todo[1]
  <2> DEFINE X == TaskType(Names)
  <2>1. new \in Seq(X) /\ todo \in Seq(X)
    BY DEF Todos
  <2> HIDE DEF X
  <2>2. /\ \A i \in DOMAIN z :
              \/ i \in DOMAIN new /\ z[i] = new[i]
              \/ /\ i \notin DOMAIN new /\ i - a + 1 \in DOMAIN todo /\ i - a + 1 # 1
                 /\ z[i] = todo[i - a + 1]
        /\ Head(todo) = todo[1]
    BY <2>1, AfterTurn
  <2>3. \A i \in DOMAIN new : \E k \in DOMAIN z : z[k] = new[i]
    BY <2>1, AfterTurn
  <2>4. \A j \in DOMAIN todo : j # 1 => \E k \in DOMAIN z : z[k] = todo[j]
    BY <2>1, AfterTurn
  <2> HIDE DEF z, a
  <2> QED
    BY <2>2, <2>3, <2>4
<1>2. \A i \in DOMAIN todo : todo[i].dir \in Names
  <2>1. \A i \in DOMAIN todo : todo[i] \in TaskType(Names)
    BY ElementOfSeq DEF Todos
  <2> QED
    BY <2>1 DEF TaskType
<1>3. Apart(todo)
  BY DEF Going
<1>4. Apart(z)
  BY <1>2, <1>3, TurnApart DEF Todos
<1> HIDE DEF z, a
<1>5. \A i \in DOMAIN z : Rooted(top, z[i])
  BY <1>1 DEF Going
<1>6. \A p \in listed \cup L : p \in Node /\ Sound(top, p)
  BY DEF Going
<1>7. ASSUME NEW p \in Node, Due(top, p) PROVE p \in listed \cup L \/ Reaches(z, p)
  <2>1. CASE p \in listed
    BY <2>1
  <2>2. CASE Reaches(todo, p)
    <3>1. PICK j \in DOMAIN todo : In(p, todo[j].dir) /\ Suits(todo[j], p)
      BY <2>2 DEF Reaches
    <3>2. CASE j = 1
      <4>1. p \in L \/ Reaches(new, p)
        BY <1>1, <1>7, <3>1, <3>2
      <4> QED
        BY <1>1, <4>1 DEF Reaches
    <3>3. CASE j # 1
      BY <1>1, <3>1, <3>3 DEF Reaches
    <3> QED
      BY <3>2, <3>3
  <2> QED
    BY <1>7, <2>1, <2>2 DEF Going
<1> QED
  BY <1>4, <1>5, <1>6, <1>7 DEF Going, z

(* The generators of other repositories have no turn. *)
LEMMA OthersMatched ==
    ASSUME NEW top, NEW todo \in Todos, todo # <<>>, NEW new \in Todos,
           NEW h, NEW gen \in GenType, Matched(top, h, gen, todo),
           h # Head(todo).gen \/ Head(todo).kind = "subrepo",
           \A i \in DOMAIN new : new[i].gen # h
    PROVE  Matched(top, h, gen, new \o Tail(todo))
<1>1. CASE Bare(top, h)
  <2> DEFINE z == new \o Tail(todo)
             a == Len(new)
  <2>1. \A i \in DOMAIN z :
            \/ i \in DOMAIN new /\ z[i] = new[i]
            \/ i - a + 1 \in DOMAIN todo /\ z[i] = todo[i - a + 1]
    BY AfterTurn DEF Todos
  <2> HIDE DEF z, a
  <2>2. gen.dvc = <<>> /\ \A i \in DOMAIN todo : todo[i].gen = h => todo[i] = Task("both", h, h)
    BY <1>1 DEF Matched
  <2>3. \A i \in DOMAIN z : z[i].gen = h => z[i] = Task("both", h, h)
    BY <2>1, <2>2
  <2> QED
    BY <1>1, <2>2, <2>3 DEF Matched, z
<1>2. CASE ~Bare(top, h)
  <2>1. ASSUME NEW kinds, "subrepo" \notin kinds, NEW x \in Seq(Names), Lined(x, todo, Of(h, kinds))
        PROVE  Lined(x, new \o Tail(todo), Of(h, kinds))
    <3> DEFINE T == Of(h, kinds)
    <3>1. Head(todo) \notin T
      BY <2>1 DEF Of
    <3>2. \A q \in 1..Len(new) : new[q] \notin T
      <4>1. \A q \in 1..Len(new) : q \in DOMAIN new
        BY LenProperties DEF Todos
      <4> QED
        BY <4>1 DEF Of
    <3> HIDE DEF T
    <3>3. Lined(<<>>, new, T) /\ <<>> \in Seq(Names)
      BY <3>2, NoneLined, EmptySeq DEF Todos
    <3>4. Lined(<<>> \o (IF Head(todo) \in T THEN Tail(x) ELSE x), new \o Tail(todo), T)
      BY <2>1, <3>3, LinedTurn DEF Todos, T
    <3>5. <<>> \o x = x
      BY <2>1, ConcatEmptySeq
    <3> QED
      BY <3>1, <3>4, <3>5 DEF T
  <2>2. gen.repo \in Seq(Names) /\ gen.dvc \in Seq(Names)
    BY DEF GenType
  <2>3. /\ Lined(gen.repo, todo, Of(h, {"repo", "both"}))
        /\ Lined(gen.dvc, todo, Of(h, {"dvc", "both"}))
    BY <1>2 DEF Matched
  <2>4. Lined(gen.repo, new \o Tail(todo), Of(h, {"repo", "both"}))
    BY <2>1, <2>2, <2>3
  <2>5. Lined(gen.dvc, new \o Tail(todo), Of(h, {"dvc", "both"}))
    BY <2>1, <2>2, <2>3
  <2> QED
    BY <1>2, <2>4, <2>5 DEF Matched
<1> QED
  BY <1>1, <1>2

Goes == Going(walk.top, walk.gens, walk.todo, walk.listed)

(* What the invariant says of the turn that is next. *)
LEMMA TurnIs ==
    ASSUME WalkTypes, Goes, walk.todo # <<>>
    PROVE  /\ walk.todo \in Todos /\ walk.top \in Names /\ Head(walk.todo) = Current
           /\ Current \in TaskType(Names) /\ Current.gen \in DOMAIN walk.gens
           /\ Current.gen \in Names /\ Current.dir \in Names
           /\ Rooted(walk.top, Current) /\ InOrEq(Current.dir, Current.gen)
           /\ InOrEq(Current.dir, walk.top)
           /\ Entered(walk.top, Current.gen) /\ Matched(walk.top, Current.gen, Gen, walk.todo)
<1>1. /\ Current \in TaskType(DOMAIN walk.gens) /\ Current.gen \in DOMAIN walk.gens
      /\ Current.gen \in Names /\ Current.dir \in Names
  BY CurrentIs
<1>2. DOMAIN walk.gens \subseteq Names /\ walk.top \in Names
  BY RootIsPath DEF WalkTypes
<1>3. walk.todo \in Seq(TaskType(DOMAIN walk.gens))
  BY DEF WalkTypes
<1>4. TaskType(DOMAIN walk.gens) \subseteq TaskType(Names)
  BY <1>2 DEF TaskType
<1>5. walk.todo \in Todos
  BY <1>3, <1>4, SeqMonotonic DEF Todos
<1>6. Current \in TaskType(Names)
  BY <1>1, <1>4
<1>7. 1 \in DOMAIN walk.todo /\ Current = walk.todo[1]
  <2>1. 1 \in 1..Len(walk.todo) /\ Head(walk.todo) = walk.todo[1]
    <3> DEFINE s == walk.todo
               X == TaskType(DOMAIN walk.gens)
    <3>1. s \in Seq(X) /\ s # <<>>
      BY <1>3
    <3> HIDE DEF s, X
    <3>2. Len(s) \in Nat /\ Len(s) # 0 /\ Head(s) = s[1]
      BY <3>1, EmptySeq, HeadTailProperties, LenProperties
    <3>3. 1 \in 1..Len(s)
      BY <3>2
    <3> QED
      BY <3>2, <3>3 DEF s
  <2> QED
    BY <1>3, <2>1, LenProperties DEF Current
<1>8. Rooted(walk.top, Current)
  BY <1>7 DEF Goes, Going
<1>9. Entered(walk.top, Current.gen) /\ Matched(walk.top, Current.gen, Gen, walk.todo)
  BY <1>1 DEF Goes, Going, Gen
<1>10. InOrEq(Current.dir, Current.gen)
  BY <1>8 DEF Rooted
<1>11. InOrEq(Current.gen, walk.top)
  <2>1. Current.gen = walk.top \/ In(Current.gen, walk.top)
    BY <1>9 DEF Entered
  <2> QED
    BY <1>1, <1>2, <2>1, PathOrder
<1>12. InOrEq(Current.dir, walk.top)
  BY <1>1, <1>2, <1>10, <1>11, PathOrder
<1> QED
  BY <1>1, <1>2, <1>5, <1>6, <1>8, <1>9, <1>10, <1>12 DEF Current

(* A repository that is entered, and its generators.                       *)
LEMMA SubrepoIs ==
    ASSUME WsOK, mode.traverse, NEW s \in subrepos
    PROVE  /\ s \in Node /\ s \in Names /\ RepoOf(s) = s /\ ~Ignored(s, s)
           /\ IF OutsBy(s, s) = {} THEN Generators(s, s).dvc = <<>>
              ELSE Generators(s, s).repo = <<s>> /\ Generators(s, s).dvc = <<s>>
<1>1. subrepos \subseteq Node /\ s \in Node /\ s \in Names
  BY RootIsPath DEF Path, WsOK, WsTypes
<1>2. /\ RepoOf(s) = Home(s) /\ RepoOf(s) \in Names /\ InOrEq(s, RepoOf(s))
      /\ ~Ignored(RepoOf(s), s)
  BY <1>1, RepoIs
<1>3. InOrEq(Home(s), s)
  <2>1. InOrEq(s, s)
    BY <1>1, PathOrder
  <2> QED
    BY <1>1, <2>1, HomeIs
<1>4. RepoOf(s) = s
  BY <1>1, <1>2, <1>3, PathOrder
<1>5. CASE OutsBy(s, s) = {}
  BY <1>1, <1>2, <1>4, <1>5 DEF Generators
<1>6. CASE OutsBy(s, s) # {}
  <2>1. PICK o \in OutsBy(s, s) : TRUE
    BY <1>6
  <2>2. o \in outs /\ o.repo = s
    BY <2>1 DEF OutsBy, Outs
  <2>3. In(o.path, s)
    BY <2>2 DEF WsOK, WsTypes
  <2>4. MetaIsDir(s, s)
    BY <2>1, <2>3 DEF MetaIsDir, ContainsOutputs
  <2>5. At(s) = "dir"
    BY <1>1, WsAt DEF WsOK, Layout
  <2>6. TreeExists(s, s)
    BY <1>2, <1>4, <2>5 DEF TreeExists
  <2> QED
    BY <1>1, <1>2, <1>4, <1>6, <2>4, <2>6 DEF Generators
<1> QED
  BY <1>5, <1>6

(* One directory, and its turn. *)
LEMMA OneLined ==
    ASSUME NEW d \in Names, NEW t, NEW T, t.dir = d, t \in T
    PROVE  Lined(<<d>>, <<t>>, T)
<1> DEFINE gen == <<d>>
           todo == <<t>>
           m == [i \in 1..Len(gen) |-> 1]
<1>1. Len(gen) = 1 /\ Len(todo) = 1 /\ gen[1] = d /\ todo[1] = t
  OBVIOUS
<1> HIDE DEF gen, todo
<1>2. m \in [1..Len(gen) -> 1..Len(todo)] /\ m[1] = 1
  BY <1>1
<1> HIDE DEF m
<1>3. \A i \in 1..Len(gen) : gen[i] = todo[m[i]].dir
  BY <1>1, <1>2
<1>4. \A i, j \in 1..Len(gen) : i < j => m[i] < m[j]
  BY <1>1
<1>5. \A q \in 1..Len(todo) : todo[q] \in T <=> \E i \in 1..Len(gen) : m[i] = q
  BY <1>1, <1>2
<1>6. Lined(gen, todo, T)
  BY <1>2, <1>3, <1>4, <1>5 DEF Lined
<1> QED
  BY <1>6 DEF gen, todo

(* One directory and its turn, before the turns of others. *)
LEMMA OneLinedFirst ==
    ASSUME NEW d \in Names, NEW t \in TaskType(Names), NEW T, t.dir = d, t \in T,
           NEW rest \in Todos, \A q \in 1..Len(rest) : rest[q] \notin T
    PROVE  Lined(<<d>>, <<t>> \o rest, T)
<1>1. Lined(<<d>>, <<t>>, T)
  BY OneLined
<1>2. Lined(<<>>, rest, T)
  BY NoneLined DEF Todos
<1>3. <<d>> \in Seq(Names) /\ <<>> \in Seq(Names) /\ <<t>> \in Todos
  BY EmptySeq DEF Todos
<1> DEFINE a == <<d>>
           b == <<t>>
<1> HIDE DEF a, b
<1>4. Lined(a \o <<>>, b \o rest, T)
  BY <1>1, <1>2, <1>3, LinedBoth DEF a, b, Todos
<1>5. a \o <<>> = a
  BY <1>3, ConcatEmptySeq DEF a
<1>6. Lined(a, b \o rest, T)
  BY <1>4, <1>5
<1> QED
  BY <1>6 DEF a, b

(* What is left to do after the turn of a repository has nothing of it.    *)
LEMMA NoTurnOf ==
    ASSUME NEW top, NEW todo \in Todos, todo # <<>>, NEW s \in Names, Head(todo).dir = s,
           Apart(todo),
           \A i \in DOMAIN todo : Rooted(top, todo[i])
    PROVE  /\ Tail(todo) \in Todos
           /\ \A q \in DOMAIN Tail(todo) : Tail(todo)[q].gen # s
<1> DEFINE X == TaskType(Names)
<1>1. /\ Tail(todo) \in Seq(X) /\ Len(Tail(todo)) = Len(todo) - 1
      /\ \A i \in 1..Len(Tail(todo)) : Tail(todo)[i] = todo[i + 1]
      /\ Head(todo) = todo[1] /\ DOMAIN todo = 1..Len(todo) /\ Len(todo) \in Nat /\ Len(todo) # 0
  <2>1. todo \in Seq(X)
    BY DEF Todos
  <2> HIDE DEF X
  <2> QED
    BY <2>1, HeadTailProperties, EmptySeq, LenProperties
<1>2. ASSUME NEW q \in DOMAIN Tail(todo), Tail(todo)[q].gen = s PROVE FALSE
  <2> DEFINE n == Len(todo)
  <2>0. DOMAIN Tail(todo) = 1..(n - 1)
    BY <1>1, LenProperties
  <2>1. Tail(todo)[q] = todo[q + 1] /\ q + 1 \in DOMAIN todo /\ q + 1 # 1 /\ 1 \in DOMAIN todo
    <3> HIDE DEF n
    <3>1. q \in 1..(n - 1) /\ n \in Nat
      BY <1>1, <2>0 DEF n
    <3>2. q + 1 \in 1..n /\ q + 1 # 1 /\ 1 \in 1..n
      BY <3>1
    <3> QED
      BY <1>1, <2>0, <3>1, <3>2 DEF n
  <2>2. InOrEq(todo[q + 1].dir, s)
    <3>1. Rooted(top, todo[q + 1])
      BY <2>1
    <3> QED
      BY <1>2, <2>1, <3>1 DEF Rooted
  <2>3. ~InOrEq(todo[q + 1].dir, todo[1].dir)
    BY <2>1 DEF Apart
  <2> QED
    BY <1>1, <2>2, <2>3
<1> QED
  BY <1>1, <1>2 DEF Todos

(* Entering a repository keeps the invariant. *)
LEMMA EnterGoes ==
    ASSUME WsOK, WalkTypes, Goes, EnterSubrepo
    PROVE  Going(walk.top, walk'.gens, walk'.todo, walk'.listed)
<1> DEFINE top == walk.top
           todo == walk.todo
           s == Current.dir
           t == Task("both", s, s)
           new == <<t>>
           z == new \o Tail(todo)
<1>1. walk.todo # <<>> /\ Current.kind = "subrepo"
  BY DEF EnterSubrepo, Walking
<1>2. /\ todo \in Todos /\ top \in Names /\ Head(todo) = Current
      /\ Rooted(top, Current) /\ s \in Names
  BY <1>1, TurnIs
<1>3. mode.traverse /\ s \in subrepos /\ In(s, top)
  BY <1>1, <1>2 DEF Rooted
<1>4. /\ RepoOf(s) = s /\ ~Ignored(s, s)
      /\ IF OutsBy(s, s) = {} THEN Generators(s, s).dvc = <<>>
         ELSE Generators(s, s).repo = <<s>> /\ Generators(s, s).dvc = <<s>>
  BY <1>3, SubrepoIs
<1>5. /\ DOMAIN walk'.gens = DOMAIN walk.gens \cup {s}
      /\ walk'.gens[s] = Generators(s, s)
      /\ \A g \in DOMAIN walk.gens : g # s => walk'.gens[g] = walk.gens[g]
      /\ walk'.todo = z /\ walk'.listed = walk.listed
  BY <1>4, SubrepoMoves
<1>6. Apart(todo) /\ \A i \in DOMAIN todo : Rooted(top, todo[i])
  BY DEF Goes, Going
<1>7. Tail(todo) \in Todos /\ \A q \in DOMAIN Tail(todo) : Tail(todo)[q].gen # s
  BY <1>1, <1>2, <1>6, NoTurnOf
<1>8. t \in TaskType(Names) /\ t.kind = "both" /\ t.gen = s /\ t.dir = s
  BY <1>2 DEF TaskType, Task
<1>9. new \in Todos /\ DOMAIN new = {1} /\ new[1] = t
  BY <1>8 DEF Todos
<1>10. In(s, top) /\ InOrEq(s, s)
  BY <1>2, <1>3, PathOrder
<1>11. Entered(top, s)
  BY <1>3 DEF Entered
<1> HIDE DEF z, new, t
<1>12. Matched(top, s, walk'.gens[s], z)
  <2>1. s # top
    BY <1>2, <1>3, PathOrder
  <2>2. CASE OutsBy(s, s) = {}
    <3>1. Bare(top, s)
      BY <2>1, <2>2 DEF Bare
    <3>2. \A i \in DOMAIN z : z[i].gen = s => z[i] = Task("both", s, s)
      <4> DEFINE rest == Tail(todo)
      <4>1. \A i \in DOMAIN (new \o rest) : (new \o rest)[i] = t
               \/ \E q \in DOMAIN rest : (new \o rest)[i] = rest[q]
        <5>1. new \in Seq(TaskType(Names)) /\ rest \in Seq(TaskType(Names)) /\ Len(new) = 1
          BY <1>7, <1>9 DEF Todos, new
        <5> DEFINE n == Len(rest)
                   x == new \o rest
        <5>2. n \in Nat /\ DOMAIN rest = 1..n
          BY <5>1, LenProperties
        <5> HIDE DEF rest
        <5>3. /\ x \in Seq(TaskType(Names)) /\ Len(x) = Len(new) + Len(rest)
              /\ \A i \in 1..Len(x) : x[i] = IF i <= Len(new) THEN new[i] ELSE rest[i - Len(new)]
          BY <5>1, ConcatProperties
        <5> HIDE DEF x, n
        <5>4. Len(x) = 1 + n /\ DOMAIN x = 1..Len(x)
          BY <5>1, <5>3, LenProperties DEF n
        <5>5. ASSUME NEW i \in DOMAIN x PROVE x[i] = t \/ \E q \in DOMAIN rest : x[i] = rest[q]
          <6>1. i \in 1..(1 + n) /\ x[i] = IF i <= 1 THEN new[i] ELSE rest[i - 1]
            BY <5>1, <5>3, <5>4
          <6>2. CASE i <= 1
            BY <1>9, <6>1, <6>2, <5>2
          <6>3. CASE ~(i <= 1)
            <7>1. i - 1 \in 1..n
              BY <5>2, <6>1, <6>3
            <7> QED
              BY <5>2, <6>1, <6>3, <7>1
          <6> QED
            BY <6>2, <6>3
        <5> QED
          BY <5>5 DEF x
      <4> QED
        BY <1>7, <4>1 DEF z, t
    <3> QED
      BY <1>4, <1>5, <2>2, <3>1, <3>2 DEF Matched
  <2>3. CASE OutsBy(s, s) # {}
    <3>1. ~Bare(top, s)
      BY <2>3 DEF Bare
    <3>2. walk'.gens[s].repo = <<s>> /\ walk'.gens[s].dvc = <<s>>
      BY <1>4, <1>5, <2>3
    <3>3. ASSUME NEW kinds, "both" \in kinds PROVE Lined(<<s>>, z, Of(s, kinds))
      <4>1. t \in Of(s, kinds)
        BY <1>2, <1>8, <3>3 DEF Of, t, Task, Names
      <4>2. \A q \in 1..Len(Tail(todo)) : Tail(todo)[q] \notin Of(s, kinds)
        <5>1. \A q \in 1..Len(Tail(todo)) : q \in DOMAIN Tail(todo)
          BY <1>7, LenProperties DEF Todos
        <5> QED
          BY <1>7, <5>1 DEF Of
      <4> QED
        BY <1>2, <1>7, <1>8, <4>1, <4>2, OneLinedFirst DEF z, new
    <3>4. Lined(<<s>>, z, Of(s, {"repo", "both"})) /\ Lined(<<s>>, z, Of(s, {"dvc", "both"}))
      BY <3>3
    <3> QED
      BY <3>1, <3>2, <3>4 DEF Matched
  <2> QED
    BY <2>2, <2>3
<1>13. ASSUME NEW h \in DOMAIN walk.gens, h # s
       PROVE  Entered(top, h) /\ Matched(top, h, walk'.gens[h], z)
  <2>1. Entered(top, h) /\ Matched(top, h, walk.gens[h], todo) /\ walk.gens[h] \in GenType
    BY DEF Goes, Going, WalkTypes
  <2>2. \A i \in DOMAIN new : new[i].gen # h
    BY <1>8, <1>9, <1>13
  <2>3. Matched(top, h, walk.gens[h], z)
    BY <1>1, <1>2, <1>9, <2>1, <2>2, OthersMatched DEF z
  <2> QED
    BY <1>5, <1>13, <2>1, <2>3
<1>14. Fans(Head(todo), new)
  BY <1>2, <1>8, <1>9, <1>10 DEF Fans
<1>15. \A i \in DOMAIN new : Rooted(top, new[i])
  <2>1. s # top
    BY <1>2, <1>3, PathOrder
  <2>2. Keyed(top, t)
    BY <1>4, <1>8, <2>1 DEF Keyed, Bare
  <2> QED
    BY <1>4, <1>8, <1>9, <1>10, <2>2 DEF Rooted
<1>16. \A p \in Node : In(p, s) => Reaches(new, p)
  BY <1>8, <1>9 DEF Reaches, Suits
<1>17. \A h \in DOMAIN walk'.gens : Entered(top, h) /\ Matched(top, h, walk'.gens[h], z)
  BY <1>5, <1>11, <1>12, <1>13
<1>18. PICK next : next = walk'.gens
  OBVIOUS
<1> HIDE DEF top, todo
<1>19. Going(top, next, z, walk.listed \cup {})
  <2>1. Going(top, walk.gens, todo, walk.listed) /\ todo # <<>>
    BY <1>1 DEF Goes, top, todo
  <2>2. \A h \in DOMAIN next : Entered(top, h) /\ Matched(top, h, next[h], new \o Tail(todo))
    BY <1>17, <1>18 DEF z
  <2>3. \A p \in Node : Due(top, p) /\ In(p, Head(todo).dir) /\ Suits(Head(todo), p) =>
                              p \in {} \/ Reaches(new, p)
    BY <1>2, <1>16
  <2> QED
    BY <1>2, <1>9, <1>14, <1>15, <2>1, <2>2, <2>3, TurnGoes DEF z
<1>20. walk.listed \cup {} = walk.listed
  OBVIOUS
<1> QED
  BY <1>5, <1>18, <1>19, <1>20 DEF top

(* A turn of a generator that the walk goes on with. *)
LEMMA MovedGoes ==
    ASSUME WalkTypes, Goes, walk.todo # <<>>,
           NEW gen \in GenType, NEW new \in Todos, NEW L,
           Moved(gen, new, L), Fans(Current, new),
           \A i \in DOMAIN new : new[i].gen = Current.gen /\ Rooted(walk.top, new[i]),
           Matched(walk.top, Current.gen, gen, new \o Tail(walk.todo)),
           \A p \in L : p \in Node /\ Sound(walk.top, p),
           \A p \in Node : Due(walk.top, p) /\ In(p, Current.dir) /\ Suits(Current, p) =>
                              p \in L \/ Reaches(new, p)
    PROVE  Going(walk.top, walk'.gens, walk'.todo, walk'.listed)
<1> DEFINE top == walk.top
           todo == walk.todo
           z == new \o Tail(todo)
           g == Current.gen
<1>1. /\ todo \in Todos /\ Head(todo) = Current /\ g \in DOMAIN walk.gens /\ Entered(top, g)
  BY TurnIs
<1>2. /\ DOMAIN walk'.gens = DOMAIN walk.gens /\ walk'.gens[g] = gen
      /\ \A h \in DOMAIN walk.gens : h # g => walk'.gens[h] = walk.gens[h]
      /\ walk'.todo = z /\ walk'.listed = walk.listed \cup L
  BY DEF Moved
<1> HIDE DEF z
<1>3. ASSUME NEW h \in DOMAIN walk.gens, h # g
      PROVE  Entered(top, h) /\ Matched(top, h, walk'.gens[h], z)
  <2>1. Entered(top, h) /\ Matched(top, h, walk.gens[h], todo) /\ walk.gens[h] \in GenType
    BY DEF Goes, Going, WalkTypes
  <2>2. \A i \in DOMAIN new : new[i].gen # h
    BY <1>3
  <2>3. Matched(top, h, walk.gens[h], z)
    BY <1>1, <1>3, <2>1, <2>2, OthersMatched DEF z
  <2> QED
    BY <1>2, <1>3, <2>1, <2>3
<1>4. \A h \in DOMAIN walk'.gens : Entered(top, h) /\ Matched(top, h, walk'.gens[h], z)
  BY <1>1, <1>2, <1>3 DEF z
<1>5. PICK next : next = walk'.gens
  OBVIOUS
<1>6. Going(top, next, z, walk.listed \cup L)
  <2>1. Going(top, walk.gens, todo, walk.listed) /\ todo # <<>>
    BY DEF Goes
  <2>2. \A h \in DOMAIN next : Entered(top, h) /\ Matched(top, h, next[h], new \o Tail(todo))
    BY <1>4, <1>5 DEF z
  <2>3. \A p \in Node : Due(top, p) /\ In(p, Head(todo).dir) /\ Suits(Head(todo), p) =>
                              p \in L \/ Reaches(new, p)
    BY <1>1
  <2>4. Fans(Head(todo), new) /\ \A i \in DOMAIN new : Rooted(top, new[i])
    BY <1>1
  <2> HIDE DEF top, todo
  <2>5. \A p \in L : p \in Node /\ Sound(top, p)
    BY DEF top
  <2> QED
    BY <1>1, <2>1, <2>2, <2>3, <2>4, <2>5, TurnGoes DEF z
<1> QED
  BY <1>2, <1>5, <1>6

(* The generators after the turn of a directory that they have come to.    *)
LEMMA TurnMatched ==
    ASSUME WalkTypes, Goes, walk.todo # <<>>, ~Bare(walk.top, Current.gen),
           NEW gen, NEW new \in Todos, NEW a \in Seq(Names), NEW b \in Seq(Names),
           Lined(a, new, Of(Current.gen, {"repo", "both"})),
           Lined(b, new, Of(Current.gen, {"dvc", "both"})),
           gen.repo = a \o (IF Current.kind \in {"repo", "both"} THEN Tail(Gen.repo) ELSE Gen.repo),
           gen.dvc = b \o (IF Current.kind \in {"dvc", "both"} THEN Tail(Gen.dvc) ELSE Gen.dvc)
    PROVE  Matched(walk.top, Current.gen, gen, new \o Tail(walk.todo))
<1> DEFINE todo == walk.todo
           g == Current.gen
<1>1. todo \in Todos /\ Head(todo) = Current /\ Matched(walk.top, g, Gen, todo)
  BY TurnIs
<1>2. Gen.repo \in Seq(Names) /\ Gen.dvc \in Seq(Names) /\ Current \in TaskType(Names)
  BY CurrentIs, TurnIs
<1>3. \A kinds : Current \in Of(g, kinds) <=> Current.kind \in kinds
  BY <1>2 DEF Of, TaskType, Names
<1>4. /\ Lined(Gen.repo, todo, Of(g, {"repo", "both"}))
      /\ Lined(Gen.dvc, todo, Of(g, {"dvc", "both"}))
  BY <1>1 DEF Matched
<1>5. ASSUME NEW kinds, NEW x \in Seq(Names), NEW c \in Seq(Names),
             Lined(x, todo, Of(g, kinds)), Lined(c, new, Of(g, kinds))
      PROVE  Lined(c \o (IF Current.kind \in kinds THEN Tail(x) ELSE x),
                    new \o Tail(todo), Of(g, kinds))
  <2> DEFINE T == Of(g, kinds)
  <2> HIDE DEF T
  <2>1. Lined(x, todo, T) /\ Lined(c, new, T)
    BY <1>5 DEF T
  <2>2. Lined(c \o (IF Head(todo) \in T THEN Tail(x) ELSE x), new \o Tail(todo), T)
    <3> HIDE DEF todo
    <3> QED
      BY <1>1, <2>1, LinedTurn DEF Todos, todo
  <2>3. Head(todo) \in T <=> Current.kind \in kinds
    BY <1>1, <1>3 DEF T
  <2> QED
    BY <2>2, <2>3 DEF T
<1>6. Lined(gen.repo, new \o Tail(todo), Of(g, {"repo", "both"}))
  BY <1>2, <1>4, <1>5
<1>7. Lined(gen.dvc, new \o Tail(todo), Of(g, {"dvc", "both"}))
  BY <1>2, <1>4, <1>5
<1> QED
  BY <1>6, <1>7 DEF Matched

(* The new turns of a directory are for paths below it, each apart. *)
LEMMA TurnsFan ==
    ASSUME WalkTypes, Goes, walk.todo # <<>>, NEW S, NEW names \in Seq(Name), EachOnce(names, S),
           NEW new, NEW D, NEW R,
           \/ new = NewTurns(Current.dir, D, R, names)
           \/ new = DvcTurns(Current.dir, names)
    PROVE  new \in Todos /\ Fans(Current, new)
<1> DEFINE d == Current.dir
<1>1. Current.gen \in DOMAIN walk.gens /\ d \in Names
  BY TurnIs
<1>2. /\ new \in Seq(TaskType(DOMAIN walk.gens)) /\ Len(new) = Len(names)
      /\ \A i \in 1..Len(names) : new[i].dir = Append(d, names[i])
  BY <1>1, NewTurnsAre
<1>3. TaskType(DOMAIN walk.gens) \subseteq TaskType(Names)
  BY DEF WalkTypes, TaskType
<1>4. new \in Todos
  BY <1>2, <1>3, SeqMonotonic DEF Todos
<1>5. DOMAIN new = 1..Len(names) /\ \A i \in 1..Len(names) : names[i] \in Name
  BY <1>2, LenProperties, ElementOfSeq
<1>6. \A i \in DOMAIN new : new[i].dir \in Names /\ InOrEq(new[i].dir, d)
  <2> SUFFICES ASSUME NEW i \in DOMAIN new PROVE new[i].dir \in Names /\ InOrEq(new[i].dir, d)
    OBVIOUS
  <2>1. new[i].dir = Append(d, names[i]) /\ names[i] \in Name
    BY <1>2, <1>5
  <2>2. Append(d, names[i]) \in Names /\ In(Append(d, names[i]), d)
    BY <1>1, <2>1, ChildIsIn
  <2> HIDE DEF d
  <2> QED
    BY <1>1, <2>1, <2>2, PathOrder
<1>7. ASSUME NEW i \in DOMAIN new, NEW j \in DOMAIN new, i # j
      PROVE  ~InOrEq(new[i].dir, new[j].dir)
  <2>1. names[i] # names[j]
    BY <1>5, <1>7 DEF EachOnce
  <2> QED
    BY <1>1, <1>2, <1>5, <2>1, ChildrenApart
<1> QED
  BY <1>4, <1>6, <1>7 DEF Fans

(* A generator that has the next turn is at its directory. *)
LEMMA AheadOfTurn ==
    ASSUME WalkTypes, Goes, walk.todo # <<>>, ~Bare(walk.top, Current.gen)
    PROVE  /\ Current.kind \in {"repo", "both"} =>
                 Gen.repo # <<>> /\ Head(Gen.repo) = Current.dir
           /\ Current.kind \in {"dvc", "both"} =>
                 Gen.dvc # <<>> /\ Head(Gen.dvc) = Current.dir
<1> DEFINE todo == walk.todo
           g == Current.gen
<1>1. todo \in Todos /\ Head(todo) = Current /\ Matched(walk.top, g, Gen, todo)
  BY TurnIs
<1>2. Gen.repo \in Seq(Names) /\ Gen.dvc \in Seq(Names) /\ Current \in TaskType(Names)
  BY CurrentIs, TurnIs
<1>3. \A kinds : Current \in Of(g, kinds) <=> Current.kind \in kinds
  BY <1>2 DEF Of, TaskType, Names
<1>4. /\ Lined(Gen.repo, todo, Of(g, {"repo", "both"}))
      /\ Lined(Gen.dvc, todo, Of(g, {"dvc", "both"}))
  BY <1>1 DEF Matched
<1>5. ASSUME NEW kinds, NEW x \in Seq(Names), Lined(x, todo, Of(g, kinds)), Current.kind \in kinds
      PROVE  x # <<>> /\ Head(x) = Current.dir
  <2> DEFINE T == Of(g, kinds)
  <2>1. Lined(x, todo, T) /\ Head(todo) \in T
    BY <1>1, <1>3, <1>5
  <2> HIDE DEF T, todo
  <2>2. x # <<>> /\ Head(x) = Head(todo).dir
    BY <1>1, <2>1, LinedHead DEF Todos, todo
  <2> QED
    BY <1>1, <2>2
<1> QED
  BY <1>2, <1>4, <1>5

(* The turns of the names of a directory. *)
TurnsOf(D, R, names, new) ==
    /\ Len(new) = Len(names) /\ DOMAIN new = 1..Len(names)
    /\ \A i \in 1..Len(names) :
          /\ names[i] \in Name /\ names[i] \in D \cup R
          /\ new[i].gen = Current.gen /\ new[i].dir = Append(Current.dir, names[i])
          /\ new[i].kind = KindIn(Current.dir, D, R, names[i])
    /\ \A n \in D \cup R : \E i \in DOMAIN new :
          /\ new[i].dir = Append(Current.dir, n) /\ new[i].gen = Current.gen
          /\ new[i].kind = KindIn(Current.dir, D, R, n)

(* Each name has a turn of the kind that the trees that list it give. *)
LEMMA NewTurnsKinds ==
    ASSUME WalkTypes, Goes, walk.todo # <<>>, NEW D, NEW R, NEW names \in Seq(Name),
           EachOnce(names, D \cup R), NEW new, new = NewTurns(Current.dir, D, R, names)
    PROVE  TurnsOf(D, R, names, new)
<1>1. Current.gen \in DOMAIN walk.gens /\ Current.dir \in Names
  BY TurnIs
<1>2. /\ new \in Seq(TaskType(DOMAIN walk.gens)) /\ Len(new) = Len(names)
      /\ \A i \in 1..Len(names) :
            new[i].gen = Current.gen /\ new[i].dir = Append(Current.dir, names[i])
      /\ \A i \in 1..Len(names) : new[i].kind = KindIn(Current.dir, D, R, names[i])
  BY <1>1, NewTurnsAre
<1>3. DOMAIN new = 1..Len(names) /\ \A i \in 1..Len(names) : names[i] \in Name
  BY <1>2, LenProperties, ElementOfSeq
<1>4. \A i \in 1..Len(names) : names[i] \in D \cup R
  BY ElementOfSeq DEF EachOnce
<1>5. ASSUME NEW n \in D \cup R
      PROVE  \E i \in DOMAIN new : new[i].dir = Append(Current.dir, n) /\ new[i].gen = Current.gen
                 /\ new[i].kind = KindIn(Current.dir, D, R, n)
  <2>1. PICK i \in 1..Len(names) : names[i] = n
    BY DEF EachOnce
  <2> QED
    BY <1>2, <1>3, <2>1
<1> QED
  BY <1>2, <1>3, <1>4, <1>5 DEF TurnsOf

(* What is below a key in a directory is below it in one further down. *)
LEMMA KeyBelow ==
    ASSUME WsOK, NEW r, NEW d \in Names, NEW n \in Name,
           NEW k \in Keys(r, d), InOrEq(k, Append(d, n))
    PROVE  HasKey(r, Append(d, n))
<1> DEFINE c == Append(d, n)
<1>1. c \in Names /\ In(c, d)
  BY ChildIsIn
<1>2. PICK o \in Outs(r) : k = o.path \/ (o.dir /\ InOrEq(d, o.path) /\ k \in o.entries)
  BY KeyIs
<1>3. o.path \in Names
  BY <1>2, OutIs DEF Outs
<1> HIDE DEF c
<1>4. InOrEq(d, o.path) => InOrEq(c, o.path)
  BY <1>1, <1>3, PathOrder
<1>5. k \in Keys(r, c)
  BY <1>2, <1>4, KeyIs
<1> QED
  BY <1>5 DEF HasKey, c

(* New turns stay in the repository of their generator. *)
LEMMA NewTurnsRooted ==
    ASSUME WsOK, WalkTypes, Goes, walk.todo # <<>>, Current.kind # "subrepo",
           NEW D \in SUBSET DvcDirs(RepoOf(Current.gen), Current.dir),
           NEW R \in SUBSET TreeDirs(RepoOf(Current.gen), Current.dir),
           NEW names \in Seq(Name), EachOnce(names, D \cup R),
           NEW new, new = NewTurns(Current.dir, D, R, names), NEW i \in 1..Len(names)
    PROVE  Rooted(walk.top, new[i])
<1> DEFINE d == Current.dir
           g == Current.gen
           r == RepoOf(g)
           t == new[i]
           n == names[i]
           c == Append(d, n)
           sub == SubreposOf(d, R \ D)
<1>1. /\ n \in Name /\ n \in D \cup R /\ t.gen = g /\ t.dir = c /\ t.kind = KindIn(d, D, R, n)
  <2>1. TurnsOf(D, R, names, new)
    BY NewTurnsKinds
  <2> QED
    BY <2>1 DEF TurnsOf
<1>2. /\ d \in Names /\ g \in Names /\ walk.top \in Names /\ InOrEq(d, g) /\ InOrEq(d, walk.top)
      /\ Rooted(walk.top, Current)
  BY TurnIs
<1>3. c \in Names /\ In(c, d) /\ ~Ignored(r, d)
  BY <1>1, <1>2, ChildIsIn DEF Rooted
<1>4. InOrEq(c, g) /\ In(c, walk.top)
  <2> HIDE DEF c, d, g
  <2> QED
    BY <1>2, <1>3, PathOrder
<1>5. t.kind = "subrepo" <=> n \in sub
  BY <1>1 DEF KindIn
<1>8. Keyed(walk.top, t)
  <2> SUFFICES ASSUME t.kind \in {"dvc", "both"} PROVE Keyed(walk.top, t)
    BY DEF Keyed
  <2>1. n \in D
    BY <1>1 DEF KindIn
  <2>2. PICK k \in Keys(r, d) : InOrEq(k, c)
    BY <1>2, <2>1, DvcNameIs
  <2>3. HasKey(r, c)
    BY <1>1, <1>2, <2>2, KeyBelow
  <2>4. c # g
    <3> HIDE DEF c, d, g
    <3> QED
      BY <1>2, <1>3, PathOrder
  <2> QED
    BY <1>1, <2>3, <2>4 DEF Keyed
<1>6. CASE n \in sub
  <2>1. mode.traverse /\ c \in subrepos
    BY <1>6 DEF SubreposOf
  <2> QED
    BY <1>1, <1>4, <1>5, <1>6, <1>8, <2>1 DEF Rooted
<1>7. CASE n \notin sub
  <2>1. ~Ignored(r, c)
    <3>1. CASE n \in D
      <4>1. PICK k \in Keys(r, d) : InOrEq(k, c)
        BY <1>2, <3>1, DvcNameIs
      <4> HIDE DEF r, d
      <4> QED
        BY <1>1, <1>2, <1>3, <4>1, DvcNotIgnored
    <3>2. CASE n \notin D
      <4>1. n \in R \ D
        BY <1>1, <3>2
      <4>2. ~(mode.traverse /\ c \in subrepos)
        BY <1>7, <4>1 DEF SubreposOf
      <4> QED
        BY <4>1, <4>2 DEF TreeDirs
    <3> QED
      BY <3>1, <3>2
  <2> QED
    BY <1>1, <1>4, <1>5, <1>7, <1>8, <2>1 DEF Rooted
<1> QED
  BY <1>6, <1>7

(* What the generators go on with are the directories of the new turns. *)
LEMMA NewTurnsLined ==
    ASSUME WalkTypes, Goes, walk.todo # <<>>, NEW D, NEW R, NEW names \in Seq(Name),
           EachOnce(names, D \cup R), NEW new, new = NewTurns(Current.dir, D, R, names)
    PROVE  LET d == Current.dir
               sub == SubreposOf(d, R \ D)
           IN /\ Full(d, Follow(names, R \ sub)) \in Seq(Names)
              /\ Lined(Full(d, Follow(names, R \ sub)), new, Of(Current.gen, {"repo", "both"}))
              /\ Full(d, Follow(names, D)) \in Seq(Names)
              /\ Lined(Full(d, Follow(names, D)), new, Of(Current.gen, {"dvc", "both"}))
<1> DEFINE d == Current.dir
           sub == SubreposOf(d, R \ D)
<1>1. d \in Names /\ Current.gen \in DOMAIN walk.gens
  BY TurnIs
<1>2. /\ Len(new) = Len(names)
      /\ \A i \in 1..Len(names) :
            /\ names[i] \in D \cup R
            /\ new[i].gen = Current.gen /\ new[i].dir = Append(d, names[i])
            /\ new[i].kind = KindIn(d, D, R, names[i])
  <2>1. TurnsOf(D, R, names, new)
    BY NewTurnsKinds
  <2> QED
    BY <2>1 DEF TurnsOf
<1>3. new \in Todos
  BY TurnsFan
<1>4. sub \subseteq R /\ sub \cap D = {}
  BY DEF SubreposOf
<1> HIDE DEF sub
<1>5. ASSUME NEW i \in 1..Len(names)
      PROVE  /\ new[i].kind \in {"repo", "both"} <=> names[i] \in R \ sub
             /\ new[i].kind \in {"dvc", "both"} <=> names[i] \in D
  BY <1>2, <1>4 DEF KindIn, sub
<1>6. \A i \in 1..Len(names) : new[i] \in TaskType(Names)
  <2>1. \A i \in 1..Len(new) : new[i] \in TaskType(Names)
    BY <1>3, ElementOfSeq DEF Todos
  <2> QED
    BY <1>2, <2>1
<1>7. \A kinds : \A i \in 1..Len(names) :
         new[i] \in Of(Current.gen, kinds) <=> new[i].kind \in kinds
  BY <1>2, <1>6 DEF Of, TaskType, Names
<1>8. ASSUME NEW S, NEW kinds,
             \A i \in 1..Len(names) : new[i].kind \in kinds <=> names[i] \in S
      PROVE  /\ Full(d, Follow(names, S)) \in Seq(Names)
             /\ Lined(Full(d, Follow(names, S)), new, Of(Current.gen, kinds))
  <2> DEFINE T == Of(Current.gen, kinds)
  <2>1. \A i \in 1..Len(names) :
           new[i].dir = Append(d, names[i]) /\ (new[i] \in T <=> names[i] \in S)
    BY <1>2, <1>7, <1>8
  <2> HIDE DEF T, d
  <2>2. Follow(names, S) \in Seq(Name) /\ Lined(Full(d, Follow(names, S)), new, T)
    BY <1>1, <1>2, <2>1, FollowedAreLined
  <2>3. Full(d, Follow(names, S)) \in Seq(Names)
    BY <1>1, <2>2, FullIs
  <2> QED
    BY <2>2, <2>3 DEF T
<1>9. /\ Full(d, Follow(names, R \ sub)) \in Seq(Names)
      /\ Lined(Full(d, Follow(names, R \ sub)), new, Of(Current.gen, {"repo", "both"}))
  <2>1. \A i \in 1..Len(names) : new[i].kind \in {"repo", "both"} <=> names[i] \in R \ sub
    BY <1>5
  <2> QED
    BY <1>8, <2>1
<1>10. /\ Full(d, Follow(names, D)) \in Seq(Names)
       /\ Lined(Full(d, Follow(names, D)), new, Of(Current.gen, {"dvc", "both"}))
  <2>1. \A i \in 1..Len(names) : new[i].kind \in {"dvc", "both"} <=> names[i] \in D
    BY <1>5
  <2> QED
    BY <1>8, <2>1
<1> QED
  BY <1>9, <1>10 DEF sub

(* In a regular workspace no directory is a link. *)
LEMMA NoLinks ==
    ASSUME Regular, NEW r, NEW d
    PROVE  Linked(d, TreeDirs(r, d)) = {}
<1> SUFFICES ASSUME NEW n \in TreeDirs(r, d), At(Append(d, n)) = "link" PROVE FALSE
  BY DEF Linked
<1>1. Append(d, n) \in Node /\ Kind(Append(d, n)) = "dir"
  BY DEF TreeDirs
<1>2. ~mode.git
  BY <1>1 DEF Kind
<1>3. ws[Append(d, n)] # "link"
  BY <1>1, <1>2 DEF Regular
<1> QED
  BY <1>1, <1>3, WsAt

(* A file below the directory whose turn it is. *)
LEMMA DueFound ==
    ASSUME WsOK, WalkTypes, Goes, walk.todo # <<>>, Current.kind # "subrepo",
           NEW p \in Node, IsFile(p), In(p, Current.dir)
    PROVE  \E n \in Name :
              LET c == Append(Current.dir, n)
                  r == RepoOf(Current.gen)
              IN /\ p = c \/ In(p, c)
                 /\ IF TreeExists(RepoOf(p), p) \/ RepoOf(p) # r
                    THEN IF p = c THEN n \in TreeFiles(r, Current.dir) ELSE n \in TreeDirs(r, Current.dir)
                    ELSE IF p = c THEN n \in DvcFiles(r, Current.dir) ELSE n \in DvcDirs(r, Current.dir)
<1> DEFINE d == Current.dir
           g == Current.gen
           r == RepoOf(g)
<1>1. d \in Names /\ g \in Names /\ InOrEq(d, g) /\ Rooted(walk.top, Current)
  BY TurnIs
<1>2. ~Ignored(r, d)
  BY <1>1 DEF Rooted
<1>3. PICK n \in Name : Append(d, n) \in Node /\ InOrEq(p, Append(d, n))
  BY <1>1, TowardIsChild
<1>4. Toward(p, d, n)
  BY <1>3 DEF Toward
<1>5. p = Append(d, n) \/ In(p, Append(d, n))
  BY <1>1, <1>4, TowardIs
<1> HIDE DEF d, g
<1>6. CASE RepoOf(p) # r
  <2>1. p # Append(d, n) /\ n \in TreeDirs(r, d)
    BY <1>1, <1>2, <1>4, <1>6, FoundInRepo
  <2> QED
    BY <1>5, <1>6, <2>1 DEF d, g
<1>7. CASE TreeExists(RepoOf(p), p)
  <2>1. IF p = Append(d, n) THEN n \in TreeFiles(r, d) ELSE n \in TreeDirs(r, d)
    BY <1>1, <1>2, <1>4, <1>7, FoundInTree
  <2> QED
    BY <1>5, <1>7, <2>1 DEF d, g
<1>8. CASE RepoOf(p) = r /\ ~TreeExists(RepoOf(p), p)
  <2>1. IF p = Append(d, n) THEN n \in DvcFiles(r, d) ELSE n \in DvcDirs(r, d)
    BY <1>1, <1>4, <1>8, FoundInOuts
  <2> QED
    BY <1>5, <1>8, <2>1 DEF d, g
<1> QED
  BY <1>6, <1>7, <1>8

(* A file below a name of the directory is reached by the turn of that     *)
(* name.                                                                   *)
LEMMA TurnReaches ==
    ASSUME NEW D, NEW R, NEW names, NEW new, TurnsOf(D, R, names, new),
           NEW n \in D \cup R, NEW p \in Node, In(p, Append(Current.dir, n)),
           n \in D \/ TreeExists(RepoOf(p), p) \/ RepoOf(p) # RepoOf(Current.gen),
           n \in R \/ (~TreeExists(RepoOf(p), p) /\ RepoOf(p) = RepoOf(Current.gen))
    PROVE  Reaches(new, p)
<1>1. PICK i \in DOMAIN new : /\ new[i].dir = Append(Current.dir, n) /\ new[i].gen = Current.gen
                              /\ new[i].kind = KindIn(Current.dir, D, R, n)
  BY DEF TurnsOf
<1>2. Suits(new[i], p)
  BY <1>1 DEF Suits, KindIn
<1> QED
  BY <1>1, <1>2 DEF Reaches

(* What a turn lists is there. *)
LEMMA ListedAreSound ==
    ASSUME WsOK, Regular, WalkTypes, Goes, walk.todo # <<>>, Current.kind # "subrepo",
           NEW F, F \subseteq TreeFiles(RepoOf(Current.gen), Current.dir)
                                \cup DvcFiles(RepoOf(Current.gen), Current.dir)
    PROVE  \A p \in Listing(Current.dir, F) : p \in Node /\ Sound(walk.top, p)
<1>1. SUFFICES ASSUME NEW n \in F
               PROVE  Append(Current.dir, n) \in Node /\ Sound(walk.top, Append(Current.dir, n))
  BY DEF Listing
<1> DEFINE d == Current.dir
           g == Current.gen
           top == walk.top
<1>2. /\ d \in Names /\ g \in Names /\ top \in Names /\ InOrEq(d, g) /\ InOrEq(d, top)
      /\ Rooted(top, Current)
  BY TurnIs
<1>3. ~Ignored(RepoOf(g), d)
  BY <1>2 DEF Rooted
<1> HIDE DEF d, g, top
<1>4. n \in TreeFiles(RepoOf(g), d) \/ n \in DvcFiles(RepoOf(g), d)
  BY <1>1 DEF d, g
<1>5. Append(d, n) \in Node /\ Sound(top, Append(d, n))
  BY <1>2, <1>3, <1>4, TreeFilesAreSound, DvcFilesAreSound
<1> QED
  BY <1>5 DEF d, top

(* RepoTree._walk, when both generators are at the directory, or one.      *)
LEMMA StepGoes ==
    ASSUME WsOK, Regular, WalkTypes, Goes, walk.todo # <<>>, ~Bare(walk.top, Current.gen),
           Current.kind \in {"repo", "both"},
           NEW D, NEW R, R = TreeDirs(RepoOf(Current.gen), Current.dir),
           NEW F, F \subseteq TreeFiles(RepoOf(Current.gen), Current.dir)
                                \cup DvcFiles(RepoOf(Current.gen), Current.dir),
           TreeFiles(RepoOf(Current.gen), Current.dir) \subseteq F,
           IF Current.kind = "repo" THEN D = {}
           ELSE /\ D = DvcDirs(RepoOf(Current.gen), Current.dir)
                /\ DvcFiles(RepoOf(Current.gen), Current.dir) \subseteq F,
           NEW names \in Merged(D, R),
           NEW b, b = Full(Current.dir, Follow(names, D)),
           Moved([repo |-> Full(Current.dir, Follow(names, (R \ SubreposOf(Current.dir, R \ D))
                                                             \ Linked(Current.dir, R)))
                              \o Tail(Gen.repo),
                  dvc |-> b \o (IF Current.kind = "both" THEN Tail(Gen.dvc) ELSE Gen.dvc)],
                 NewTurns(Current.dir, D, R, names), Listing(Current.dir, F))
    PROVE  Going(walk.top, walk'.gens, walk'.todo, walk'.listed)
<1> DEFINE d == Current.dir
           g == Current.gen
           r == RepoOf(g)
           new == NewTurns(d, D, R, names)
           a == Full(d, Follow(names, R \ SubreposOf(d, R \ D)))
           gen == [repo |-> a \o Tail(Gen.repo),
                   dvc |-> b \o (IF Current.kind = "both" THEN Tail(Gen.dvc) ELSE Gen.dvc)]
<1>1. D \in SUBSET Name /\ R \in SUBSET Name /\ D \subseteq DvcDirs(r, d)
  BY TreesGiveNames
<1>2. EachOnce(names, D \cup R) /\ names \in Seq(Name)
  BY <1>1, OrderIsSeq
<1>3. Linked(d, R) = {}
  BY NoLinks
<1>4. Moved(gen, new, Listing(d, F))
  <2>1. (R \ SubreposOf(d, R \ D)) \ Linked(d, R) = R \ SubreposOf(d, R \ D)
    BY <1>3
  <2> QED
    BY <2>1
<1>5. new \in Todos /\ Fans(Current, new)
  BY <1>2, TurnsFan
<1>6. TurnsOf(D, R, names, new)
  BY <1>2, NewTurnsKinds
<1>7. /\ a \in Seq(Names) /\ Lined(a, new, Of(g, {"repo", "both"}))
      /\ b \in Seq(Names) /\ Lined(b, new, Of(g, {"dvc", "both"}))
  BY <1>2, NewTurnsLined
<1>8. \A i \in 1..Len(names) : Rooted(walk.top, new[i])
  BY <1>1, <1>2, NewTurnsRooted
<1> HIDE DEF new, a
<1>9. \A i \in DOMAIN new : new[i].gen = g /\ Rooted(walk.top, new[i])
  BY <1>6, <1>8 DEF TurnsOf
<1>10. Gen.repo \in Seq(Names) /\ Gen.dvc \in Seq(Names) /\ Gen.repo # <<>>
       /\ (Current.kind = "both" => Gen.dvc # <<>>)
  BY CurrentIs, AheadOfTurn
<1>11. gen.repo = a \o Tail(Gen.repo)
       /\ gen.dvc = b \o (IF Current.kind = "both" THEN Tail(Gen.dvc) ELSE Gen.dvc)
  OBVIOUS
<1>12. gen \in GenType
  <2>1. a \o Tail(Gen.repo) \in Seq(Names)
    BY <1>7, <1>10, ConcatProperties, HeadTailProperties
  <2>2. (IF Current.kind = "both" THEN Tail(Gen.dvc) ELSE Gen.dvc) \in Seq(Names)
    BY <1>10, HeadTailProperties
  <2>3. b \o (IF Current.kind = "both" THEN Tail(Gen.dvc) ELSE Gen.dvc) \in Seq(Names)
    BY <1>7, <2>2, ConcatProperties
  <2> QED
    BY <2>1, <2>3 DEF GenType
<1> HIDE DEF gen
<1>13. Matched(walk.top, g, gen, new \o Tail(walk.todo))
  <2>1. gen.repo = a \o (IF Current.kind \in {"repo", "both"} THEN Tail(Gen.repo) ELSE Gen.repo)
    BY <1>11
  <2>2. gen.dvc = b \o (IF Current.kind \in {"dvc", "both"} THEN Tail(Gen.dvc) ELSE Gen.dvc)
    BY <1>11
  <2> QED
    BY <1>5, <1>7, <2>1, <2>2, TurnMatched
<1>14. \A p \in Listing(d, F) : p \in Node /\ Sound(walk.top, p)
  BY ListedAreSound
<1>15. ASSUME NEW p \in Node, Due(walk.top, p), In(p, d), Suits(Current, p)
       PROVE  p \in Listing(d, F) \/ Reaches(new, p)
  <2>1. IsFile(p)
    BY <1>15 DEF Due
  <2>2. PICK n \in Name :
           /\ p = Append(d, n) \/ In(p, Append(d, n))
           /\ IF TreeExists(RepoOf(p), p) \/ RepoOf(p) # r
              THEN IF p = Append(d, n) THEN n \in TreeFiles(r, d) ELSE n \in TreeDirs(r, d)
              ELSE IF p = Append(d, n) THEN n \in DvcFiles(r, d) ELSE n \in DvcDirs(r, d)
    <3>1. Current.kind # "subrepo"
      OBVIOUS
    <3> QED
      BY <1>15, <2>1, <3>1, DueFound
  <2>3. Current.kind = "repo" => TreeExists(RepoOf(p), p) \/ RepoOf(p) # r
    BY <1>15 DEF Suits
  <2>4. CASE p = Append(d, n)
    <3>1. n \in F
      BY <2>2, <2>3, <2>4
    <3> QED
      BY <2>4, <3>1 DEF Listing
  <2>5. CASE p # Append(d, n)
    <3>1. /\ n \in D \cup R /\ In(p, Append(d, n))
          /\ n \in D \/ TreeExists(RepoOf(p), p) \/ RepoOf(p) # r
          /\ n \in R \/ (~TreeExists(RepoOf(p), p) /\ RepoOf(p) = r)
      BY <2>2, <2>3, <2>5
    <3> QED
      BY <1>6, <3>1, TurnReaches
  <2> QED
    BY <2>4, <2>5
<1> QED
  BY <1>4, <1>5, <1>9, <1>12, <1>13, <1>14, <1>15, MovedGoes

(* Following no name goes on with nothing. *)
LEMMA FollowNone ==
    ASSUME NEW names \in Seq(Name)
    PROVE  Follow(names, {}) = <<>>
<1> DEFINE k == Follow(names, {})
           n == Len(names)
<1>1. k \in Seq(Name) /\ Picks(k, names, n, {})
  BY FollowPicks
<1> HIDE DEF k
<1>2. n \in Nat
  BY LenProperties
<1> HIDE DEF n
<1>3. PICK m \in [1..Len(k) -> 1..n] :
         \A q \in 1..n : names[q] \in {} <=> \E i \in 1..Len(k) : m[i] = q
  BY <1>1 DEF Picks
<1>4. Len(k) \in Nat
  BY <1>1, LenProperties
<1>5. ~(1 \in 1..Len(k))
  <2> SUFFICES ASSUME 1 \in 1..Len(k) PROVE FALSE
    OBVIOUS
  <2>1. m[1] \in 1..n
    BY <1>3
  <2> QED
    BY <1>3, <2>1
<1>6. Len(k) = 0
  BY <1>4, <1>5
<1>7. k = <<>>
  BY <1>1, <1>6, EmptySeq
<1> QED
  BY <1>7 DEF k

(* Of a repository without outputs there is nothing to list.               *)
LEMMA BareTurnGoes ==
    ASSUME WsOK, WalkTypes, Goes, walk.todo # <<>>, Bare(walk.top, Current.gen), Stop(Gen)
    PROVE  Going(walk.top, walk'.gens, walk'.todo, walk'.listed)
<1> DEFINE top == walk.top
           todo == walk.todo
           g == Current.gen
           d == Current.dir
           z == <<>> \o Tail(todo)
<1>1. Moved(Gen, <<>>, {})
  BY StopMoves
<1>2. /\ todo \in Todos /\ g \in Names /\ d \in Names /\ InOrEq(d, g) /\ Gen \in GenType
      /\ Entered(top, g) /\ Matched(top, g, Gen, todo)
  BY TurnIs, CurrentIs
<1>3. <<>> \in Todos /\ DOMAIN <<>> = {}
  BY EmptySeq DEF Todos
<1>4. \A i \in DOMAIN z : \E j \in DOMAIN todo : z[i] = todo[j]
  <2> DEFINE e == <<>>
             a == Len(e)
  <2>1. \A i \in DOMAIN (e \o Tail(todo)) :
            \/ i \in DOMAIN e /\ (e \o Tail(todo))[i] = e[i]
            \/ i - a + 1 \in DOMAIN todo /\ (e \o Tail(todo))[i] = todo[i - a + 1]
    <3>1. e \in Seq(TaskType(Names)) /\ todo \in Seq(TaskType(Names)) /\ todo # <<>>
      BY <1>2, <1>3 DEF Todos
    <3> HIDE DEF e, todo
    <3> QED
      BY <3>1, AfterTurn
  <2>2. \A i \in DOMAIN z : \/ i \in DOMAIN e
                            \/ i - a + 1 \in DOMAIN todo /\ z[i] = todo[i - a + 1]
    BY <2>1
  <2> HIDE DEF z, a, todo
  <2> QED
    BY <1>3, <2>2
<1> HIDE DEF z
<1>5. Matched(top, g, Gen, z)
  <2>1. Gen.dvc = <<>> /\ \A i \in DOMAIN todo : todo[i].gen = g => todo[i] = Task("both", g, g)
    BY <1>2 DEF Matched
  <2>2. \A i \in DOMAIN z : z[i].gen = g => z[i] = Task("both", g, g)
    BY <1>4, <2>1
  <2> QED
    BY <2>1, <2>2 DEF Matched
<1>6. ASSUME NEW p \in Node, Due(top, p), In(p, d) PROVE FALSE
  <2>1. mode.traverse /\ g \in subrepos /\ In(g, top) /\ OutsBy(g, g) = {}
    BY <1>2 DEF Entered, Bare
  <2>2. p \in Names
    BY RootIsPath DEF Path
  <2>3. InOrEq(p, g)
    BY <1>2, <1>6, <2>2, PathOrder
  <2>4. Skipped(top, p)
    BY <2>1, <2>3 DEF Skipped
  <2> QED
    BY <1>6, <2>4 DEF Due
<1>7. Fans(Current, <<>>)
  BY <1>3 DEF Fans
<1>8. \A i \in DOMAIN <<>> : <<>>[i].gen = Current.gen /\ Rooted(walk.top, <<>>[i])
  BY <1>3
<1> QED
  BY <1>1, <1>2, <1>3, <1>5, <1>6, <1>7, <1>8, MovedGoes DEF z

(* The only turn of a repository without outputs is the one of its name. *)
LEMMA BareIsBoth ==
    ASSUME WalkTypes, Goes, walk.todo # <<>>, Bare(walk.top, Current.gen)
    PROVE  /\ Gen.dvc = <<>> /\ Current = Task("both", Current.gen, Current.gen)
           /\ Current.kind = "both" /\ Current.dir = Current.gen
<1> DEFINE g == Current.gen
<1>1. /\ walk.todo \in Todos /\ Head(walk.todo) = Current
      /\ Matched(walk.top, g, Gen, walk.todo)
  BY TurnIs
<1>2. 1 \in DOMAIN walk.todo /\ Head(walk.todo) = walk.todo[1]
  <2> DEFINE s == walk.todo
             X == TaskType(Names)
  <2>1. s \in Seq(X) /\ s # <<>>
    BY <1>1 DEF Todos
  <2> HIDE DEF s, X
  <2>2. 1 \in DOMAIN s /\ Head(s) = s[1]
    <3>1. Len(s) \in Nat /\ Len(s) # 0 /\ Head(s) = s[1] /\ DOMAIN s = 1..Len(s)
      BY <2>1, EmptySeq, HeadTailProperties, LenProperties
    <3> QED
      BY <3>1
  <2> QED
    BY <2>2 DEF s
<1>3. Gen.dvc = <<>> /\ Current = Task("both", g, g)
  BY <1>1, <1>2 DEF Matched
<1>4. Task("both", g, g).kind = "both" /\ Task("both", g, g).dir = g
  BY DEF Task
<1> QED
  BY <1>3, <1>4

(* RepoTree._walk keeps the invariant, with both generators ... *)
LEMMA WalkBothGoes ==
    ASSUME WsOK, Regular, WalkTypes, Goes, WalkBoth
    PROVE  Going(walk.top, walk'.gens, walk'.todo, walk'.listed)
<1> DEFINE r == RepoOf(Current.gen)
           d == Current.dir
           D == DvcDirs(r, d)
           R == TreeDirs(r, d)
           F == DvcFiles(r, d) \cup TreeFiles(r, d)
<1>1. walk.todo # <<>> /\ Current.kind = "both"
  BY DEF WalkBoth, Walking
<1>2. CASE Bare(walk.top, Current.gen)
  <2>1. Gen.dvc = <<>>
    BY <1>1, <1>2, BareIsBoth
  <2>2. Stop(Gen)
    BY <2>1 DEF WalkBoth
  <2> QED
    BY <1>1, <1>2, <2>2, BareTurnGoes
<1>3. CASE ~Bare(walk.top, Current.gen)
  <2>1. Gen.repo # <<>> /\ Head(Gen.repo) = d /\ Gen.dvc # <<>> /\ Head(Gen.dvc) = d
    BY <1>1, <1>3, AheadOfTurn
  <2>2. Step(d, d, D, R, F, Tail(Gen.dvc))
    BY <2>1 DEF WalkBoth
  <2>3. PICK names \in Merged(D, R) :
          Moved([repo |-> Full(d, Follow(names, (R \ SubreposOf(d, R \ D)) \ Linked(d, R)))
                             \o Tail(Gen.repo),
                 dvc |-> Full(d, Follow(names, D)) \o Tail(Gen.dvc)],
                NewTurns(d, D, R, names), Listing(d, F))
    <3> HIDE DEF D, R, F, d
    <3> QED
      BY <1>1, <2>2, StepMoves
  <2>4. PICK b : b = Full(d, Follow(names, D))
    OBVIOUS
  <2>5. Moved([repo |-> Full(d, Follow(names, (R \ SubreposOf(d, R \ D)) \ Linked(d, R)))
                             \o Tail(Gen.repo),
                 dvc |-> b \o (IF Current.kind = "both" THEN Tail(Gen.dvc) ELSE Gen.dvc)],
                NewTurns(d, D, R, names), Listing(d, F))
    BY <1>1, <2>3, <2>4
  <2>6. /\ F \subseteq TreeFiles(r, d) \cup DvcFiles(r, d) /\ TreeFiles(r, d) \subseteq F
        /\ DvcFiles(r, d) \subseteq F
    OBVIOUS
  <2> HIDE DEF F, D, R
  <2>7. D = DvcDirs(r, d) /\ R = TreeDirs(r, d)
    BY DEF D, R
  <2>8. Current.kind \in {"repo", "both"} /\ Current.kind # "repo"
    BY <1>1
  <2> QED
    BY <1>1, <1>3, <2>4, <2>5, <2>6, <2>7, <2>8, StepGoes
<1> QED
  BY <1>2, <1>3

(* ... and with the one of the workspace. *)
LEMMA WalkRepoGoes ==
    ASSUME WsOK, Regular, WalkTypes, Goes, WalkRepo
    PROVE  Going(walk.top, walk'.gens, walk'.todo, walk'.listed)
<1> DEFINE r == RepoOf(Current.gen)
           d == Current.dir
           D == {}
           R == TreeDirs(r, d)
           F == TreeFiles(r, d)
<1>1. walk.todo # <<>> /\ Current.kind = "repo"
  BY DEF WalkRepo, Walking
<1>2. ~Bare(walk.top, Current.gen)
  BY <1>1, BareIsBoth
<1>3. Gen.repo # <<>> /\ Head(Gen.repo) = d
  BY <1>1, <1>2, AheadOfTurn
<1>4. Step(d, Root, D, R, F, Gen.dvc)
  BY <1>3 DEF WalkRepo
<1> HIDE DEF R, F, D
<1>5. PICK names \in Merged(D, R) :
          Moved([repo |-> Full(d, Follow(names, (R \ SubreposOf(d, R \ D)) \ Linked(d, R)))
                             \o Tail(Gen.repo),
                 dvc |-> Full(Root, Follow(names, D)) \o Gen.dvc],
                NewTurns(d, D, R, names), Listing(d, F))
  BY <1>1, <1>4, StepMoves
<1>6. R = TreeDirs(r, d) /\ D = {} /\ F = TreeFiles(r, d)
  BY DEF R, D, F
<1>7. names \in Seq(Name)
  BY <1>6, TreesGiveNames, OrderIsSeq
<1>8. PICK b : b = Full(d, Follow(names, D))
  OBVIOUS
<1>9. b = Full(Root, Follow(names, D))
  <2>1. Follow(names, D) = <<>>
    BY <1>6, <1>7, FollowNone
  <2> QED
    BY <1>8, <2>1 DEF Full
<1>10. Moved([repo |-> Full(d, Follow(names, (R \ SubreposOf(d, R \ D)) \ Linked(d, R)))
                             \o Tail(Gen.repo),
                 dvc |-> b \o (IF Current.kind = "both" THEN Tail(Gen.dvc) ELSE Gen.dvc)],
                NewTurns(d, D, R, names), Listing(d, F))
  BY <1>1, <1>5, <1>9
<1>11. F \subseteq TreeFiles(r, d) \cup DvcFiles(r, d) /\ TreeFiles(r, d) \subseteq F
  BY <1>6
<1>12. Current.kind \in {"repo", "both"}
  BY <1>1
<1> QED
  BY <1>1, <1>2, <1>6, <1>8, <1>10, <1>11, <1>12, StepGoes

(* Turns that are all of one generator are lined up with it. *)
LEMMA AllLined ==
    ASSUME NEW d \in Names, NEW names \in Seq(Name), NEW T, NEW todo, Len(todo) = Len(names),
           \A i \in 1..Len(names) : todo[i].dir = Append(d, names[i]) /\ todo[i] \in T
    PROVE  Full(d, names) \in Seq(Names) /\ Lined(Full(d, names), todo, T)
<1> DEFINE gen == Full(d, names)
           n == Len(names)
           m == [i \in 1..n |-> i]
<1>1. gen \in Seq(Names) /\ Len(gen) = n /\ \A i \in 1..n : gen[i] = Append(d, names[i])
  BY FullIs
<1>2. n \in Nat
  BY LenProperties
<1> HIDE DEF gen, n
<1>3. m \in [1..n -> 1..n] /\ \A i \in 1..n : m[i] = i
  OBVIOUS
<1>4. Len(todo) = n /\ \A i \in 1..n : todo[i].dir = Append(d, names[i]) /\ todo[i] \in T
  BY DEF n
<1> HIDE DEF m
<1>5. m \in [1..Len(gen) -> 1..Len(todo)]
  BY <1>1, <1>3, <1>4
<1>6. \A i \in 1..Len(gen) : gen[i] = todo[m[i]].dir
  <2> SUFFICES ASSUME NEW i \in 1..n PROVE gen[i] = todo[m[i]].dir
    BY <1>1
  <2>1. m[i] = i
    BY <1>3
  <2>2. gen[i] = Append(d, names[i]) /\ todo[i].dir = Append(d, names[i])
    BY <1>1, <1>4
  <2> QED
    BY <2>1, <2>2
<1>7. \A i, j \in 1..Len(gen) : i < j => m[i] < m[j]
  BY <1>1, <1>3
<1>8. \A q \in 1..Len(todo) : todo[q] \in T <=> \E i \in 1..Len(gen) : m[i] = q
  BY <1>1, <1>3, <1>4
<1>9. Lined(gen, todo, T)
  BY <1>5, <1>6, <1>7, <1>8 DEF Lined
<1> QED
  BY <1>1, <1>9 DEF gen

(* RepoTree._dvc_walk keeps the invariant. *)
LEMMA WalkDvcGoes ==
    ASSUME WsOK, Regular, WalkTypes, Goes, WalkDvc
    PROVE  Going(walk.top, walk'.gens, walk'.todo, walk'.listed)
<1> DEFINE top == walk.top
           g == Current.gen
           r == RepoOf(g)
           d == Current.dir
           D == DvcDirs(r, d)
           F == DvcFiles(r, d)
<1>1. walk.todo # <<>> /\ Current.kind = "dvc"
  BY DEF WalkDvc, Walking
<1>2. ~Bare(top, g)
  BY <1>1, BareIsBoth
<1>3. Gen.dvc # <<>> /\ Head(Gen.dvc) = d
  BY <1>1, <1>2, AheadOfTurn
<1> DEFINE dd == Head(Gen.dvc)
<1>4. PICK names \in Orders(DvcDirs(r, dd)) :
         walk' = [walk EXCEPT
                     !.gens[Current.gen].dvc = Full(dd, names) \o Tail(@),
                     !.todo = [i \in DOMAIN names |->
                                  Task("dvc", Current.gen, Append(dd, names[i]))] \o Tail(@),
                     !.listed = @ \cup {Append(dd, n) : n \in DvcFiles(r, dd)}]
  BY <1>3 DEF WalkDvc
<1> DEFINE new == DvcTurns(d, names)
           a == <<>>
           b == Full(d, names)
           gen == [repo |-> Gen.repo, dvc |-> b \o Tail(Gen.dvc)]
<1>5. names \in Orders(D) /\ Moved(gen, new, Listing(d, F))
  <2> HIDE DEF dd
  <2>1. dd = d
    BY <1>3 DEF dd
  <2>2. Moved([repo |-> Gen.repo, dvc |-> Full(dd, names) \o Tail(Gen.dvc)],
              DvcTurns(dd, names), Listing(dd, DvcFiles(r, dd)))
    BY <1>1, <1>4, DvcMoves
  <2> QED
    BY <1>4, <2>1, <2>2
<1>6. EachOnce(names, D) /\ names \in Seq(Name)
  BY <1>5, TreesGiveNames, OrderIsSeq
<1>7. new \in Todos /\ Fans(Current, new)
  BY <1>1, <1>6, TurnsFan
<1>8. g \in DOMAIN walk.gens /\ d \in Names /\ g \in Names /\ InOrEq(d, g) /\ top \in Names
      /\ InOrEq(d, top) /\ Rooted(top, Current)
  BY <1>1, TurnIs
<1>9. /\ Len(new) = Len(names) /\ DOMAIN new = 1..Len(names)
      /\ \A i \in 1..Len(names) : new[i].gen = g /\ new[i].dir = Append(d, names[i])
      /\ \A i \in 1..Len(names) : new[i].kind = "dvc"
  <2>1. /\ new \in Seq(TaskType(DOMAIN walk.gens)) /\ Len(new) = Len(names)
        /\ \A i \in 1..Len(names) : new[i].gen = g /\ new[i].dir = Append(d, names[i])
        /\ \A i \in 1..Len(names) : new[i].kind = "dvc"
    <3>1. new = DvcTurns(d, names)
      OBVIOUS
    <3> HIDE DEF d, new
    <3>2. \/ new = NewTurns(d, {}, {}, names)
          \/ new = DvcTurns(d, names)
      BY <3>1
    <3>3. /\ new \in Seq(TaskType(DOMAIN walk.gens)) /\ Len(new) = Len(names)
          /\ \A i \in 1..Len(names) : new[i].gen = Current.gen /\ new[i].dir = Append(d, names[i])
      BY <1>6, <1>8, <3>2, NewTurnsAre
    <3>4. new = DvcTurns(d, names) => \A i \in 1..Len(names) : new[i].kind = "dvc"
      BY <1>6, <1>8, <3>2, NewTurnsAre
    <3> QED
      BY <3>1, <3>3, <3>4
  <2> HIDE DEF new
  <2>2. DOMAIN new = 1..Len(names)
    BY <2>1, LenProperties
  <2> QED
    BY <2>1, <2>2
<1>10. \A i \in 1..Len(names) : names[i] \in D /\ names[i] \in Name
  BY <1>6, ElementOfSeq DEF EachOnce
<1> HIDE DEF new
<1>11. \A i \in 1..Len(names) : new[i] \in TaskType(Names)
  BY <1>7, <1>9, ElementOfSeq DEF Todos
<1>12. b \in Seq(Names) /\ Lined(b, new, Of(g, {"dvc", "both"}))
  <2> DEFINE T == Of(g, {"dvc", "both"})
  <2>1. \A i \in 1..Len(names) : new[i].dir = Append(d, names[i]) /\ new[i] \in T
    BY <1>9, <1>11 DEF Of, TaskType, Names
  <2> HIDE DEF T, d
  <2>2. Full(d, names) \in Seq(Names) /\ Lined(Full(d, names), new, T)
    BY <1>6, <1>8, <1>9, <2>1, AllLined
  <2> QED
    BY <2>2 DEF T
<1>13. a \in Seq(Names) /\ Lined(a, new, Of(g, {"repo", "both"}))
  <2>1. \A q \in 1..Len(new) : new[q] \notin Of(g, {"repo", "both"})
    BY <1>9 DEF Of
  <2> QED
    BY <1>7, <2>1, NoneLined, EmptySeq DEF Todos
<1>14. Gen.repo \in Seq(Names) /\ Gen.dvc \in Seq(Names)
  BY <1>1, CurrentIs
<1>15. gen.repo = a \o Gen.repo /\ gen.dvc = b \o Tail(Gen.dvc)
  BY <1>14, ConcatEmptySeq
<1>16. gen \in GenType
  <2>1. b \o Tail(Gen.dvc) \in Seq(Names)
    BY <1>3, <1>12, <1>14, ConcatProperties, HeadTailProperties
  <2> QED
    BY <1>14, <2>1 DEF GenType
<1> HIDE DEF gen, a, b, D, F
<1>17. Matched(top, g, gen, new \o Tail(walk.todo))
  <2>1. gen.repo = a \o (IF Current.kind \in {"repo", "both"} THEN Tail(Gen.repo) ELSE Gen.repo)
    BY <1>1, <1>15
  <2>2. gen.dvc = b \o (IF Current.kind \in {"dvc", "both"} THEN Tail(Gen.dvc) ELSE Gen.dvc)
    BY <1>1, <1>15
  <2> QED
    BY <1>1, <1>2, <1>7, <1>12, <1>13, <2>1, <2>2, TurnMatched
<1>18. \A i \in DOMAIN new : new[i].gen = g /\ Rooted(top, new[i])
  <2> SUFFICES ASSUME NEW i \in 1..Len(names) PROVE new[i].gen = g /\ Rooted(top, new[i])
    BY <1>9
  <2> DEFINE n == names[i]
             c == Append(d, n)
  <2>1. n \in D /\ n \in Name /\ new[i].gen = g /\ new[i].dir = c /\ new[i].kind = "dvc"
    BY <1>9, <1>10
  <2>2. ~Ignored(r, d)
    BY <1>1, <1>8 DEF Rooted
  <2>3. PICK k \in Keys(r, d) : InOrEq(k, c)
    BY <1>8, <2>1, DvcNameIs DEF D
  <2>4. c \in Names /\ In(c, d)
    BY <1>8, <2>1, ChildIsIn
  <2>5. ~Ignored(r, c)
    <3> HIDE DEF r, d, n
    <3> QED
      BY <1>8, <2>1, <2>2, <2>3, DvcNotIgnored
  <2>6. InOrEq(c, g)
    <3> HIDE DEF c, d, g
    <3> QED
      BY <1>8, <2>4, PathOrder
  <2>7. HasKey(r, c)
    BY <1>8, <2>1, <2>3, KeyBelow
  <2>8. c # g
    <3> HIDE DEF c, d, g
    <3> QED
      BY <1>8, <2>4, PathOrder
  <2>9. Keyed(top, new[i])
    BY <2>1, <2>7, <2>8 DEF Keyed
  <2> QED
    BY <2>1, <2>5, <2>6, <2>9 DEF Rooted
<1>19. \A p \in Listing(d, F) : p \in Node /\ Sound(top, p)
  <2>1. F \subseteq TreeFiles(r, d) \cup DvcFiles(r, d)
    BY DEF F
  <2>2. Current.kind # "subrepo"
    BY <1>1
  <2> QED
    BY <1>1, <2>1, <2>2, ListedAreSound
<1>20. ASSUME NEW p \in Node, Due(top, p), In(p, d), Suits(Current, p)
       PROVE  p \in Listing(d, F) \/ Reaches(new, p)
  <2>1. IsFile(p)
    BY <1>20 DEF Due
  <2>2. ~TreeExists(RepoOf(p), p) /\ RepoOf(p) = r
    BY <1>1, <1>20 DEF Suits
  <2>3. Current.kind # "subrepo"
    BY <1>1
  <2>4. PICK n \in Name :
           /\ p = Append(d, n) \/ In(p, Append(d, n))
           /\ IF TreeExists(RepoOf(p), p) \/ RepoOf(p) # r
              THEN IF p = Append(d, n) THEN n \in TreeFiles(r, d) ELSE n \in TreeDirs(r, d)
              ELSE IF p = Append(d, n) THEN n \in DvcFiles(r, d) ELSE n \in DvcDirs(r, d)
    BY <1>1, <1>20, <2>1, <2>3, DueFound
  <2>5. CASE p = Append(d, n)
    <3>1. n \in F
      BY <2>2, <2>4, <2>5 DEF F
    <3> QED
      BY <2>5, <3>1 DEF Listing
  <2>6. CASE p # Append(d, n)
    <3>1. n \in D /\ In(p, Append(d, n))
      BY <2>2, <2>4, <2>6 DEF D
    <3>2. PICK i \in 1..Len(names) : names[i] = n
      BY <1>6, <3>1 DEF EachOnce
    <3>3. new[i].dir = Append(d, n) /\ new[i].kind = "dvc" /\ new[i].gen = g /\ i \in DOMAIN new
      BY <1>9, <3>2
    <3> QED
      BY <2>2, <3>1, <3>3 DEF Reaches, Suits
  <2> QED
    BY <2>5, <2>6
<1> QED
  BY <1>1, <1>5, <1>7, <1>16, <1>17, <1>18, <1>19, <1>20, MovedGoes

(* The top of a walk is not ignored. *)
LEMMA TopIs ==
    ASSUME WsOK, NEW top \in Path, IsDir(top)
    PROVE  /\ ~Ignored(RepoOf(top), top)
           /\ ~TreeExists(RepoOf(top), top) => top \in Node /\ ws[top] = "none"
<1> DEFINE r == RepoOf(top)
<1>1. top \in Names /\ subrepos \subseteq Node /\ subrepos \subseteq Names
  BY RootIsPath DEF Path, WsOK, WsTypes
<1>2. /\ r \in Names /\ mode.traverse => ~Ignored(r, top)
      /\ ~mode.traverse => r = Root
  BY <1>1, RepoIs
<1>3. ~Ignored(r, top)
  <2> SUFFICES ASSUME Ignored(r, top) PROVE FALSE
    OBVIOUS
  <2>1. PICK s \in subrepos : In(s, r) /\ InOrEq(top, s)
    BY DEF Ignored
  <2>2. OfMissingOut(r, top)
    BY DEF IsDir, TreeExists
  <2>3. PICK o \in Outs(r) : OutsBy(r, top) = {o} /\ ~TreeExists(r, o.path)
    BY <2>2 DEF OfMissingOut
  <2>4. o \in outs /\ o.repo = r /\ (InOrEq(top, o.path) \/ In(o.path, top))
    BY <2>3 DEF OutsBy, Outs
  <2>5. o.path \in Names /\ o.path \in Node /\ s \in Names /\ s \in Node
    BY <1>1, <2>4, OutIs
  <2>6. \A q \in subrepos : In(q, r) => ~InOrEq(o.path, q)
    BY <2>4 DEF WsOK, Outputs, Clear
  <2>7. ~InOrEq(o.path, s)
    BY <2>1, <2>6
  <2>8. InOrEq(top, o.path)
    <3> SUFFICES ASSUME In(o.path, top) PROVE FALSE
      BY <2>4
    <3>1. InOrEq(o.path, s)
      BY <1>1, <2>1, <2>5, PathOrder
    <3> QED
      BY <2>7, <3>1
  <2>9. In(s, o.path)
    BY <1>1, <2>1, <2>5, <2>7, <2>8, PathOrder
  <2>10. ws[s] = "dir"
    BY DEF WsOK, Layout
  <2>11. ws[o.path] = "dir"
    <3>1. ws[s] # "none"
      BY <2>10
    <3> QED
      BY <2>5, <2>9, <3>1 DEF WsOK, Layout
  <2>12. Ignored(r, o.path)
    BY <2>3, <2>5, <2>11, WsAt DEF TreeExists
  <2> QED
    BY <2>6, <2>12 DEF Ignored
<1>4. ASSUME ~TreeExists(r, top) PROVE top \in Node /\ ws[top] = "none"
  <2>1. At(top) = "none"
    BY <1>3, <1>4 DEF TreeExists
  <2>2. top # Root
    BY <2>1 DEF At
  <2>3. top \in Node
    BY <2>2 DEF Path
  <2> QED
    BY <2>1, <2>3, WsAt
<1> QED
  BY <1>3, <1>4

(* Only a file has nothing in it. *)
LEMMA TopMeta ==
    ASSUME WsOK, Regular, NEW top \in Path, IsDir(top), StartKind(top) # "repo"
    PROVE  OutsBy(RepoOf(top), top) # {} /\ MetaIsDir(RepoOf(top), top)
<1> DEFINE r == RepoOf(top)
           B == OutsBy(r, top)
<1>1. CASE ~TreeExists(r, top)
  <2>1. OfMissingOut(r, top) /\ MetaIsDir(r, top)
    BY <1>1 DEF IsDir
  <2> QED
    BY <2>1 DEF OfMissingOut
<1>2. CASE TreeExists(r, top)
  <2>1. ~IsDvc(r, top) /\ B # {}
    BY <1>2 DEF StartKind
  <2>2. At(top) \in {"dir", "link"}
    BY <1>2 DEF IsDir
  <2>3. SUFFICES ASSUME ~MetaIsDir(r, top) PROVE FALSE
    BY <2>1
  <2>4. ~(Cardinality(B) > 1) /\ ~\E o \in B : In(o.path, top)
    BY <2>3 DEF MetaIsDir, ContainsOutputs
  <2>5. IsFiniteSet(B)
    <3>1. B \subseteq outs
      BY DEF OutsBy, Outs
    <3> QED
      BY <3>1, FS_Subset DEF WsOK, Outputs
  <2>6. Cardinality(B) = 1
    BY <2>1, <2>4, <2>5, FS_CardinalityType, FS_EmptySet
  <2>7. PICK o : B = {o}
    BY <2>5, <2>6, FS_Singleton
  <2>8. o \in Outs(r) /\ o \in outs /\ o.path # top
    BY <2>1, <2>7 DEF OutsBy, Outs, IsDvc
  <2>9. IF o.dir THEN top \in o.entries ELSE top = o.path
    BY <2>3, <2>7 DEF MetaIsDir, CheckIsDir
  <2>10. top \in o.entries
    BY <2>8, <2>9
  <2>11. ws[top] \in {"none", "file"} /\ top \in Node
    BY <2>8, <2>10, NothingReplaced, OnlyOut
  <2> QED
    BY <2>2, <2>11, WsAt
<1> QED
  BY <1>1, <1>2

(* A walk of one tree comes to every file. *)
LEMMA TopSuits ==
    ASSUME WsOK, Regular, NEW top \in Path, IsDir(top), NEW t, t.kind = StartKind(top), t.gen = top,
           NEW p \in Node, In(p, top), IsFile(p)
    PROVE  Suits(t, p)
<1> DEFINE r == RepoOf(top)
<1>1. top \in Names /\ subrepos \subseteq Node /\ p \in Names /\ InOrEq(p, top) /\ p # top
  BY RootIsPath, PathOrder DEF Path, WsOK, WsTypes
<1>2. CASE StartKind(top) = "repo"
  <2>1. TreeExists(r, top) /\ (IsDvc(r, top) \/ OutsBy(r, top) = {})
    BY <1>2 DEF StartKind
  <2>2. SUFFICES ASSUME ~TreeExists(RepoOf(p), p), RepoOf(p) = r PROVE FALSE
    BY <1>2 DEF Suits
  <2>3. OfMissingOut(r, p)
    BY <2>2 DEF IsFile
  <2>4. PICK o \in Outs(r) : OutsBy(r, p) = {o} /\ ~TreeExists(r, o.path)
    BY <2>3 DEF OfMissingOut
  <2>5. PICK q \in Outs(r) : OutsBy(r, p) = {q} /\ (IF q.dir THEN p \in q.entries ELSE p = q.path)
    BY <2>2, MissingFileIs
  <2>6. o = q
    BY <2>4, <2>5
  <2>7. o \in outs /\ InOrEq(p, o.path) /\ o.path \in Names
    <3>1. o \in outs /\ p \in {o.path} \cup o.entries
      BY <2>5, <2>6 DEF Outs
    <3> QED
      BY <2>4, <3>1, OnlyOut, OutIs
  <2>8. InOrEq(top, o.path) \/ In(o.path, top)
    BY <1>1, <2>7, PathOrder
  <2>9. o \in OutsBy(r, top)
    BY <2>8 DEF OutsBy
  <2>10. o.path = top
    BY <2>1, <2>9 DEF IsDvc
  <2> QED
    BY <2>1, <2>4, <2>10
<1>3. CASE StartKind(top) = "dvc"
  <2>1. ~TreeExists(r, top)
    BY <1>3 DEF StartKind
  <2>2. ~Ignored(r, top) /\ top \in Node /\ ws[top] = "none"
    BY <2>1, TopIs
  <2>3. \A q \in Node : In(q, top) => ws[q] = "none"
    BY <2>2 DEF WsOK, Layout
  <2>4. ~TreeExists(RepoOf(p), p)
    BY <2>3, WsAt DEF TreeExists
  <2>5. RepoOf(p) = r
    <3> SUFFICES ASSUME RepoOf(p) # r PROVE FALSE
      OBVIOUS
    <3>1. RepoOf(p) \in subrepos /\ In(RepoOf(p), r)
      BY <1>1, RepoDeeper
    <3>2. InOrEq(p, RepoOf(p)) /\ RepoOf(p) \in Names
      BY <1>1, RepoIs
    <3>3. ~InOrEq(top, RepoOf(p))
      BY <2>2, <3>1 DEF Ignored
    <3>4. In(RepoOf(p), top)
      BY <1>1, <3>2, <3>3, PathOrder
    <3>5. ws[RepoOf(p)] = "dir" /\ RepoOf(p) \in Node
      BY <1>1, <3>1 DEF WsOK, Layout
    <3> QED
      BY <2>3, <3>4, <3>5
  <2> QED
    BY <1>3, <2>4, <2>5 DEF Suits
<1>4. CASE StartKind(top) = "both"
  BY <1>4 DEF Suits
<1> QED
  BY <1>2, <1>3, <1>4 DEF StartKind

(* A walk begins with the invariant. *)
LEMMA StartGoes ==
    ASSUME WsOK, Regular, NEW top \in Path, Start(top)
    PROVE  Going(walk'.top, walk'.gens, walk'.todo, walk'.listed)
<1> DEFINE r == RepoOf(top)
           kind == StartKind(top)
           t == Task(kind, top, top)
           todo == <<t>>
<1>1. IsDir(top)
  BY DEF Start
<1>2. top \in Names
  BY RootIsPath
<1>3. /\ walk'.top = top /\ DOMAIN walk'.gens = {top}
      /\ walk'.gens[top].repo = Generators(r, top).repo
      /\ walk'.gens[top].dvc = IF kind = "repo" THEN <<>> ELSE Generators(r, top).dvc
      /\ walk'.todo = todo /\ walk'.listed = {}
  BY StartMoves
<1>4. t.kind = kind /\ t.gen = top /\ t.dir = top
  BY DEF Task
<1>5. kind \in {"repo", "both", "dvc"} /\ (kind = "dvc" <=> ~TreeExists(r, top))
  BY DEF StartKind
<1>6. DOMAIN todo = {1} /\ todo[1] = t
  OBVIOUS
<1>7. PICK gen : gen = walk'.gens[top]
  OBVIOUS
<1>8. /\ gen.repo = IF kind = "dvc" THEN <<>> ELSE <<top>>
      /\ gen.dvc = IF kind = "repo" THEN <<>> ELSE <<top>>
  <2>1. kind # "repo" => OutsBy(r, top) # {} /\ MetaIsDir(r, top)
    BY <1>1, TopMeta
  <2> QED
    BY <1>3, <1>5, <1>7, <2>1 DEF Generators
<1>9. t \in TaskType(Names)
  BY <1>2, <1>5 DEF TaskType, Task
<1> HIDE DEF t, todo, kind
<1>10. ASSUME NEW kinds
       PROVE  /\ kind \in kinds => Lined(<<top>>, todo, Of(top, kinds))
              /\ kind \notin kinds => Lined(<<>>, todo, Of(top, kinds))
  <2>1. t \in Of(top, kinds) <=> kind \in kinds
    BY <1>2, <1>4, <1>9 DEF Of, TaskType, Names
  <2>2. kind \in kinds => Lined(<<top>>, todo, Of(top, kinds))
    BY <1>2, <1>4, <2>1, OneLined DEF todo
  <2>3. kind \notin kinds => Lined(<<>>, todo, Of(top, kinds))
    <3>1. todo \in Seq(TaskType(Names)) /\ Len(todo) = 1
      BY <1>9 DEF todo
    <3> QED
      BY <1>6, <2>1, <3>1, NoneLined
  <2> QED
    BY <2>2, <2>3
<1>11. Matched(top, top, gen, todo)
  <2>1. Lined(gen.repo, todo, Of(top, {"repo", "both"}))
    <3>1. kind \in {"repo", "both"} <=> kind # "dvc"
      BY <1>5
    <3> QED
      BY <1>8, <1>10, <3>1
  <2>2. Lined(gen.dvc, todo, Of(top, {"dvc", "both"}))
    <3>1. kind \in {"dvc", "both"} <=> kind # "repo"
      BY <1>5
    <3> QED
      BY <1>8, <1>10, <3>1
  <2> QED
    BY <2>1, <2>2 DEF Matched, Bare
<1>12. Rooted(top, t)
  <2>1. ~Ignored(r, top)
    BY <1>1, TopIs
  <2>2. InOrEq(top, top)
    BY <1>2, PathOrder
  <2>3. Keyed(top, t)
    <3>1. kind # "repo" => OutsBy(r, top) # {}
      BY <1>1, TopMeta DEF kind
    <3> QED
      BY <1>4, <3>1 DEF Keyed
  <2> QED
    BY <1>4, <1>5, <2>1, <2>2, <2>3 DEF Rooted
<1>13. Apart(todo)
  BY <1>6 DEF Apart
<1>14. ASSUME NEW p \in Node, Due(top, p) PROVE Reaches(todo, p)
  <2>1. In(p, top) /\ IsFile(p)
    BY <1>14 DEF Due
  <2>2. Suits(t, p)
    BY <1>1, <1>4, <2>1, TopSuits DEF kind
  <2> QED
    BY <1>4, <1>6, <2>1, <2>2 DEF Reaches
<1>15. Entered(top, top)
  BY DEF Entered
<1>16. PICK gens : gens = walk'.gens
  OBVIOUS
<1>17. Going(top, gens, todo, {})
  BY <1>3, <1>6, <1>7, <1>11, <1>12, <1>13, <1>14, <1>15, <1>16 DEF Going
<1> QED
  BY <1>3, <1>16, <1>17

(* A generator of the outputs fails at the top of the walk only. *)
LEMMA FailsIs ==
    ASSUME WsOK, WalkTypes, Goes, walk.todo # <<>>, Current.kind \in {"dvc", "both"}, KeyMissing
    PROVE  \E o \in Outs(RepoOf(walk.top)) : NotInOutput(o, walk.top)
<1> DEFINE top == walk.top
           g == Current.gen
           r == RepoOf(g)
           d == Current.dir
<1>1. /\ g \in Names /\ d \in Names /\ Rooted(top, Current) /\ Entered(top, g)
      /\ Matched(top, g, Gen, walk.todo)
  BY TurnIs
<1>2. ~Bare(top, g)
  BY <1>1 DEF Matched, KeyMissing
<1>3. ~HasKey(r, d)
  BY <1>2, AheadOfTurn DEF KeyMissing
<1>4. d = g /\ OutsBy(r, g) # {}
  BY <1>1, <1>2, <1>3 DEF Rooted, Keyed
<1>5. PICK o \in Outs(r) : InOrEq(g, o.path) \/ In(o.path, g)
  BY <1>4 DEF OutsBy
<1>6. o \in outs /\ o.repo = r /\ o.path \in Names
  BY OutIs DEF Outs
<1>7. \A k \in Keys(r, g) : ~InOrEq(k, g)
  BY <1>3, <1>4 DEF HasKey
<1>8. ~InOrEq(o.path, g)
  BY <1>7, KeyIs
<1> HIDE DEF g, r
<1>9. In(g, o.path)
  BY <1>1, <1>5, <1>6, <1>8, PathOrder
<1>10. InOrEq(g, o.path)
  BY <1>1, <1>6, <1>9, PathOrder
<1>11. ASSUME NEW e \in o.entries, InOrEq(e, g) PROVE FALSE
  <2>1. o.dir
    BY <1>6, <1>11 DEF WsOK, Outputs, Flat
  <2>2. e \in Keys(r, g)
    BY <1>10, <2>1, KeyIs
  <2> QED
    BY <1>7, <1>11, <2>2
<1>12. g = top
  <2> SUFFICES ASSUME mode.traverse, g \in subrepos PROVE FALSE
    BY <1>1 DEF Entered
  <2>1. r = g
    BY SubrepoIs DEF r, g
  <2>2. InOrEq(o.path, g)
    BY <1>6, <2>1, OutIs
  <2> QED
    BY <1>8, <2>2
<1> QED
  BY <1>9, <1>11, <1>12 DEF NotInOutput, r, g

(* What is left to show of a step of a walk. *)
LEMMA GoesNext ==
    ASSUME UNCHANGED Looks, Regular => Going(walk'.top, walk'.gens, walk'.todo, walk'.listed)
    PROVE  WalkGoes'
<1>1. Regular' <=> Regular
  BY SameTrees
<1>2. Going(walk.top, walk.gens, walk.todo, walk.listed)'
      <=> Going(walk'.top, walk'.gens, walk'.todo, walk'.listed)
  BY SameGoing
<1> QED
  BY <1>1, <1>2 DEF WalkGoes

(* The invariant holds at first ... *)
LEMMA InvInit == Init => Inv
<1> SUFFICES ASSUME Init PROVE Inv
  OBVIOUS
<1>1. WsOK /\ WalkTypes
  BY InitWsOK, InitWalkTypes
<1>2. walk.pc = "idle"
  BY DEF Init, Idle
<1> QED
  BY <1>1, <1>2 DEF Inv, WalkGoes, DoneIsEmpty, FailsThere

(* ... and every step keeps it: those that edit the workspace, and those of*)
(* a walk.                                                                 *)
LEMMA InvNext == Inv /\ [Next]_vars => Inv'
<1> SUFFICES ASSUME Inv, [Next]_vars PROVE Inv'
  OBVIOUS
<1> USE DEF Inv
<1>1. ASSUME Edit, WsOK' PROVE Inv'
  <2>1. walk.pc = "idle" /\ walk' = walk
    BY <1>1 DEF Edit
  <2>2. WalkTypes'
    BY <2>1 DEF WalkTypes
  <2> QED
    BY <1>1, <2>1, <2>2 DEF WalkGoes, DoneIsEmpty, FailsThere
<1>2. ASSUME UNCHANGED <<ws, outs, subrepos, mode, edits>>, WalkTypes', walk'.pc # "failed",
             Regular => Going(walk'.top, walk'.gens, walk'.todo, walk'.listed), DoneIsEmpty'
      PROVE  Inv'
  <2>1. UNCHANGED Looks
    BY <1>2 DEF Looks
  <2>2. WsOK'
    BY <1>2, SameWsOK
  <2>3. WalkGoes'
    BY <1>2, <2>1, GoesNext
  <2> QED
    BY <1>2, <2>2, <2>3 DEF FailsThere
<1>3. ASSUME walk.pc = "walking" PROVE Regular => Goes
  BY <1>3 DEF WalkGoes, Goes
<1>4. ASSUME walk.pc = "walking", walk'.pc = walk.pc PROVE DoneIsEmpty'
  BY <1>4 DEF DoneIsEmpty
<1>5. ASSUME NEW p \in Node, NEW kind \in {"file", "link"}, Put(p, kind) PROVE Inv'
  BY <1>1, <1>5, PutWsOK DEF Put
<1>6. ASSUME NEW p \in Node, RemovePath(p) PROVE Inv'
  BY <1>1, <1>6, RemoveWsOK DEF RemovePath
<1>7. ASSUME NEW p \in Node, InitSubrepo(p) PROVE Inv'
  BY <1>1, <1>7, InitSubrepoWsOK DEF InitSubrepo
<1>8. ASSUME NEW p \in Node, AddOut(p) PROVE Inv'
  BY <1>1, <1>8, AddOutWsOK DEF AddOut
<1>9. ASSUME NEW top \in Path, Start(top) PROVE Inv'
  <2>1. UNCHANGED <<ws, outs, subrepos, mode, edits>>
    BY <1>9 DEF Start
  <2>2. WalkTypes'
    BY <1>9, StartTypes DEF WsOK
  <2>3. Regular => Going(walk'.top, walk'.gens, walk'.todo, walk'.listed)
    BY <1>9, StartGoes
  <2>4. DoneIsEmpty' /\ walk'.pc # "failed"
    BY <1>9, StartMoves DEF DoneIsEmpty
  <2> QED
    BY <1>2, <2>1, <2>2, <2>3, <2>4
<1>10. CASE WalkBoth
  <2>1. walk.pc = "walking" /\ walk.todo # <<>> /\ UNCHANGED <<ws, outs, subrepos, mode, edits>>
    BY <1>10 DEF WalkBoth, Walking
  <2>2. WalkTypes'
    BY <1>10, WalkBothTypes
  <2>3. Regular => Going(walk'.top, walk'.gens, walk'.todo, walk'.listed)
    <3> SUFFICES ASSUME Regular PROVE Going(walk'.top, walk'.gens, walk'.todo, walk'.listed)
      OBVIOUS
    <3>1. Goes /\ WsOK /\ WalkTypes
      BY <1>3, <2>1
    <3>2. Going(walk.top, walk'.gens, walk'.todo, walk'.listed)
      BY <1>10, <3>1, WalkBothGoes
    <3>3. walk'.top = walk.top
      BY <1>10 DEF WalkBoth, Stop, Step, WalkTypes, WalkFields
    <3> QED
      BY <3>2, <3>3
  <2>4. walk'.pc = walk.pc
    BY <1>10 DEF WalkBoth, Stop, Step, WalkTypes, WalkFields
  <2> QED
    BY <1>2, <1>4, <2>1, <2>2, <2>3, <2>4
<1>11. CASE WalkRepo
  <2>1. walk.pc = "walking" /\ walk.todo # <<>> /\ UNCHANGED <<ws, outs, subrepos, mode, edits>>
    BY <1>11 DEF WalkRepo, Walking
  <2>2. WalkTypes'
    BY <1>11, WalkRepoTypes
  <2>3. Regular => Going(walk'.top, walk'.gens, walk'.todo, walk'.listed)
    <3> SUFFICES ASSUME Regular PROVE Going(walk'.top, walk'.gens, walk'.todo, walk'.listed)
      OBVIOUS
    <3>1. Goes /\ WsOK /\ WalkTypes
      BY <1>3, <2>1
    <3>2. Going(walk.top, walk'.gens, walk'.todo, walk'.listed)
      BY <1>11, <3>1, WalkRepoGoes
    <3>3. walk'.top = walk.top
      BY <1>11 DEF WalkRepo, Stop, Step, WalkTypes, WalkFields
    <3> QED
      BY <3>2, <3>3
  <2>4. walk'.pc = walk.pc
    BY <1>11 DEF WalkRepo, Stop, Step, WalkTypes, WalkFields
  <2> QED
    BY <1>2, <1>4, <2>1, <2>2, <2>3, <2>4
<1>12. CASE WalkDvc
  <2>1. walk.pc = "walking" /\ walk.todo # <<>> /\ UNCHANGED <<ws, outs, subrepos, mode, edits>>
    BY <1>12 DEF WalkDvc, Walking
  <2>2. WalkTypes'
    BY <1>12, WalkDvcTypes
  <2>3. Regular => Going(walk'.top, walk'.gens, walk'.todo, walk'.listed)
    <3> SUFFICES ASSUME Regular PROVE Going(walk'.top, walk'.gens, walk'.todo, walk'.listed)
      OBVIOUS
    <3>1. Goes /\ WsOK /\ WalkTypes
      BY <1>3, <2>1
    <3>2. Going(walk.top, walk'.gens, walk'.todo, walk'.listed)
      BY <1>12, <3>1, WalkDvcGoes
    <3>3. walk'.top = walk.top
      BY <1>12 DEF WalkDvc, Stop, WalkTypes, WalkFields
    <3> QED
      BY <3>2, <3>3
  <2>4. walk'.pc = walk.pc
    BY <1>12 DEF WalkDvc, Stop, WalkTypes, WalkFields
  <2> QED
    BY <1>2, <1>4, <2>1, <2>2, <2>3, <2>4
<1>13. CASE EnterSubrepo
  <2>1. walk.pc = "walking" /\ walk.todo # <<>> /\ UNCHANGED <<ws, outs, subrepos, mode, edits>>
    BY <1>13 DEF EnterSubrepo, Walking
  <2>2. WalkTypes'
    BY <1>13, EnterTypes
  <2>3. Regular => Going(walk'.top, walk'.gens, walk'.todo, walk'.listed)
    <3> SUFFICES ASSUME Regular PROVE Going(walk'.top, walk'.gens, walk'.todo, walk'.listed)
      OBVIOUS
    <3>1. Goes /\ WsOK /\ WalkTypes
      BY <1>3, <2>1
    <3>2. Going(walk.top, walk'.gens, walk'.todo, walk'.listed)
      BY <1>13, <3>1, EnterGoes
    <3>3. walk'.top = walk.top
      BY <1>13, SubrepoMoves
    <3> QED
      BY <3>2, <3>3
  <2>4. walk'.pc = walk.pc
    BY <1>13, SubrepoMoves
  <2> QED
    BY <1>2, <1>4, <2>1, <2>2, <2>3, <2>4
<1>14. CASE WalkEnds
  <2>1. /\ walk.pc = "walking" /\ walk.todo = <<>> /\ UNCHANGED <<ws, outs, subrepos, mode, edits>>
        /\ walk' = [walk EXCEPT !.pc = "done"]
    BY <1>14 DEF WalkEnds
  <2>2. WalkTypes'
    BY <1>14, EndTypes
  <2>3. /\ walk'.top = walk.top /\ walk'.gens = walk.gens /\ walk'.todo = walk.todo
        /\ walk'.listed = walk.listed
    BY <2>1 DEF WalkTypes, WalkFields
  <2>4. Regular => Going(walk'.top, walk'.gens, walk'.todo, walk'.listed)
    BY <1>3, <2>1, <2>3 DEF Goes
  <2>5. DoneIsEmpty' /\ walk'.pc # "failed"
    BY <1>14, <2>1, <2>3, EndTypes DEF DoneIsEmpty
  <2> QED
    BY <1>2, <2>1, <2>2, <2>4, <2>5
<1>16. CASE WalkFails
  <2>1. /\ walk.pc = "walking" /\ walk.todo # <<>> /\ Current.kind \in {"dvc", "both"}
        /\ KeyMissing /\ UNCHANGED <<ws, outs, subrepos, mode, edits>>
        /\ walk' = [walk EXCEPT !.pc = "failed"]
    BY <1>16 DEF WalkFails, Walking
  <2>2. UNCHANGED Looks
    BY <2>1 DEF Looks
  <2>3. /\ DOMAIN walk' = WalkFields /\ walk'.pc = "failed" /\ walk'.top = walk.top
        /\ walk'.gens = walk.gens /\ walk'.todo = walk.todo /\ walk'.listed = walk.listed
    BY <2>1 DEF WalkTypes, WalkFields
  <2>4. WsOK' /\ WalkTypes'
    BY <2>1, <2>3, SameWsOK DEF WalkTypes
  <2>5. WalkGoes'
    <3>1. Regular => Going(walk'.top, walk'.gens, walk'.todo, walk'.listed)
      BY <1>3, <2>1, <2>3 DEF Goes
    <3> QED
      BY <2>2, <3>1, GoesNext
  <2>6. FailsThere'
    <3>1. Regular => \E o \in Outs(RepoOf(walk.top)) : NotInOutput(o, walk.top)
      BY <1>3, <2>1, FailsIs
    <3>2. \A o, d : NotInOutput(o, d)' <=> NotInOutput(o, d)
      BY DEF NotInOutput, In, InOrEq
    <3> QED
      BY <2>2, <2>3, <3>1, <3>2, SameTrees DEF FailsThere
  <2>7. DoneIsEmpty'
    BY <2>3 DEF DoneIsEmpty
  <2> QED
    BY <2>4, <2>5, <2>6, <2>7
<1>15. CASE UNCHANGED vars
  <2>1. UNCHANGED <<ws, outs, subrepos, mode, edits>> /\ walk' = walk
    BY <1>15 DEF vars
  <2>2. WsOK' /\ UNCHANGED Looks
    BY <2>1, SameWsOK DEF Looks
  <2>3. WalkTypes' /\ DoneIsEmpty'
    BY <2>1 DEF WalkTypes, DoneIsEmpty
  <2>4. WalkGoes'
    <3>1. Regular' <=> Regular
      BY <2>2, SameTrees
    <3>2. Going(walk.top, walk.gens, walk.todo, walk.listed)'
          <=> Going(walk'.top, walk'.gens, walk'.todo, walk'.listed)
      BY <2>2, SameGoing
    <3> QED
      BY <2>1, <3>1, <3>2 DEF WalkGoes
  <2>5. FailsThere'
    <3>1. \A o, d : NotInOutput(o, d)' <=> NotInOutput(o, d)
      BY DEF NotInOutput, In, InOrEq
    <3> QED
      BY <2>1, <2>2, <3>1, SameTrees DEF FailsThere
  <2> QED
    BY <2>2, <2>3, <2>4, <2>5
<1> QED
  BY <1>5, <1>6, <1>7, <1>8, <1>9, <1>10, <1>11, <1>12, <1>13, <1>14, <1>15, <1>16 DEF Next

(* The invariant of a view: the workspace is well formed (outputs that do   *)
(* not overlap, nor reach into another repository), and the walk of it,    *)
(* RepoTree._walk (src/dvc/tree/repo.py), goes on as it should: the        *)
(* directories it still has to do are apart, each generator is at those    *)
(* that are its own, and each file is listed or below one of them.         *)
THEOREM InvHolds == Spec => []Inv
BY InvInit, InvNext, PTL DEF Spec

(* The types of the view's state, whatever paths there are: outputs below   *)
(* their repository, as `dvc add` makes them, and the generators, the turns *)
(* and the listing of a walk.                                              *)
THEOREM OverlayTypes == Spec => []TypeOK
<1>1. Inv => TypeOK
  BY TypesFollow DEF Inv, WsOK
<1> QED
  BY <1>1, InvHolds, PTL

(* A repository that is entered and has no outputs is one the walk leaves  *)
(* out.                                                                    *)
LEMMA BareIsUnwalked ==
    ASSUME NEW g \in Names, Entered(walk.top, g), Bare(walk.top, g)
    PROVE  Unwalked(g)
<1>1. InOrEq(g, g)
  BY PathOrder
<1> QED
  BY <1>1 DEF Entered, Bare, Unwalked

(* RepoTree._walk and _dvc_walk (src/dvc/tree/repo.py) take each directory  *)
(* from the generators of the two trees. When the view is regular (no file *)
(* has taken the place of a directory or the other way round, no link in a  *)
(* workspace) the generator whose next() is called is at that directory,    *)
(* and at the end of a walk every generator is at its end.                 *)
THEOREM GeneratorsInStep == Spec => []InStep
<1>1. Inv => InStep
  <2> SUFFICES ASSUME Inv, Regular, walk.pc = "walking"
               PROVE  IF walk.todo = <<>>
                      THEN \A g \in DOMAIN walk.gens :
                              Unwalked(g) \/ walk.gens[g] = [repo |-> <<>>, dvc |-> <<>>]
                      ELSE \/ Unwalked(Current.dir) \/ Current.kind = "subrepo"
                           \/ /\ Current.kind # "dvc" => Ahead(Gen.repo, Current.dir)
                              /\ Current.kind # "repo" => Ahead(Gen.dvc, Current.dir)
    BY DEF InStep
  <2>1. WalkTypes /\ Goes
    BY DEF Inv, WalkGoes, Goes
  <2>2. CASE walk.todo = <<>>
    <3> SUFFICES ASSUME NEW g \in DOMAIN walk.gens, ~Unwalked(g)
                 PROVE  walk.gens[g] = [repo |-> <<>>, dvc |-> <<>>]
      BY <2>2
    <3>1. /\ Entered(walk.top, g) /\ Matched(walk.top, g, walk.gens[g], walk.todo)
          /\ g \in Names /\ walk.gens[g] \in GenType
      BY <2>1 DEF Goes, Going, WalkTypes
    <3>2. ~Bare(walk.top, g)
      BY <3>1, BareIsUnwalked
    <3>3. PICK gen : gen = walk.gens[g]
      OBVIOUS
    <3>4. /\ Lined(gen.repo, <<>>, Of(g, {"repo", "both"}))
          /\ Lined(gen.dvc, <<>>, Of(g, {"dvc", "both"}))
      BY <2>2, <3>1, <3>2, <3>3 DEF Matched
    <3>5. /\ gen.repo \in Seq(Names) /\ gen.dvc \in Seq(Names)
          /\ gen = [repo |-> gen.repo, dvc |-> gen.dvc]
      BY <3>1, <3>3 DEF GenType
    <3>6. gen.repo = <<>> /\ gen.dvc = <<>>
      BY <3>4, <3>5, LinedAtEnd
    <3> QED
      BY <3>3, <3>5, <3>6
  <2>3. CASE walk.todo # <<>>
    <3>1. /\ Current \in TaskType(Names) /\ Current.gen \in Names
          /\ Entered(walk.top, Current.gen)
      BY <2>1, <2>3, TurnIs
    <3>2. CASE Bare(walk.top, Current.gen)
      <4>1. Current.dir = Current.gen
        BY <2>1, <2>3, <3>2, BareIsBoth
      <4>2. Unwalked(Current.gen)
        BY <3>1, <3>2, BareIsUnwalked
      <4> QED
        BY <2>3, <4>1, <4>2
    <3>3. CASE ~Bare(walk.top, Current.gen)
      <4>1. /\ Current.kind \in {"repo", "both"} => Ahead(Gen.repo, Current.dir)
            /\ Current.kind \in {"dvc", "both"} => Ahead(Gen.dvc, Current.dir)
        BY <2>1, <2>3, <3>3, AheadOfTurn DEF Ahead
      <4>2. Current.kind \in {"repo", "dvc", "both", "subrepo"}
        BY <3>1 DEF TaskType
      <4> QED
        BY <2>3, <4>1, <4>2
    <3> QED
      BY <3>2, <3>3
  <2> QED
    BY <2>2, <2>3
<1> QED
  BY <1>1, InvHolds, PTL

(* RepoTree.walk of a regular view lists every file below its top, of the   *)
(* workspace and of the outputs, those of repositories below too when it is *)
(* told to traverse them, other than those of a repository without outputs. *)
(* It fails only for a top that is in the output of a directory and has no  *)
(* entry of that output at or below it, where DvcTree._walk                 *)
(* (src/dvc/tree/dvc.py) raises KeyError.                                   *)
THEOREM WalkIsComplete == Spec => []WalkComplete
<1>1. Inv => WalkComplete
  <2> SUFFICES ASSUME Inv, Regular, walk.pc = "done", NEW p \in Node,
                      In(p, walk.top), IsFile(p), ~Unwalked(p)
               PROVE  p \in walk.listed
    BY DEF WalkComplete, Inv, FailsThere
  <2>1. Going(walk.top, walk.gens, walk.todo, walk.listed) /\ walk.todo = <<>>
    BY DEF Inv, WalkGoes, DoneIsEmpty
  <2>2. Due(walk.top, p)
    BY DEF Due, Skipped, Unwalked
  <2>3. p \in walk.listed \/ Reaches(walk.todo, p)
    BY <2>1, <2>2 DEF Going
  <2>4. ~Reaches(<<>>, p)
    BY DEF Reaches
  <2> QED
    BY <2>1, <2>3, <2>4
<1> QED
  BY <1>1, InvHolds, PTL

(* What RepoTree.walk lists of a regular view is below its top, and         *)
(* RepoTree.open of the same view opens it; it is a file, unless it is a    *)
(* link of a commit or an entry of a directory that is partly there.        *)
THEOREM WalkIsSound == Spec => []WalkSound
<1>1. Inv => WalkSound
  <2> SUFFICES ASSUME Inv, Regular, walk.pc = "done", NEW p \in walk.listed
               PROVE  Sound(walk.top, p)
    BY DEF WalkSound, Sound
  <2>1. Going(walk.top, walk.gens, walk.todo, walk.listed)
    BY DEF Inv, WalkGoes
  <2> QED
    BY <2>1 DEF Going
<1> QED
  BY <1>1, InvHolds, PTL

==============================================================================
