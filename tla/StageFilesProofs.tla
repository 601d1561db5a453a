--------------------------- MODULE StageFilesProofs ---------------------------
(* Proofs that dvc.yaml, dvc.lock, the .dvc files and .gitignore stay in     *)
(* step, for any number of commands, whichever of them overlap, fail or die. *)
(* First what networkx' searches and the active graph come to, for every     *)
(* graph without a cycle, then the commands one after the other.             *)
EXTENDS StageFiles, SequenceTheorems, FiniteSetTheorems, WellFoundedInduction, TLAPS

-------------------------------------------------------------------------------
(* Loops of any number of turns, and what a sequence keeps.                  *)

(* A set of naturals that is not empty has a least element. *)
LEMMA LeastExists ==
    ASSUME NEW S \in SUBSET Nat, S # {}
    PROVE  \E x \in S : \A y \in S : x <= y
<1> DEFINE R == {ss \in Nat \X Nat : ss[1] < ss[2]}
<1>1. IsWellFoundedOn(R, Nat)
  BY NatLessThanWellFounded DEF OpToRel
<1> HIDE DEF R
<1>2. PICK x \in S : \A y \in S : ~(<<y, x>> \in R)
  BY <1>1, WFMin
<1>3. \A y \in S : ~(y < x)
  BY <1>2 DEF R
<1> QED
  BY <1>3

(* What holds at first, and after a turn when it has held before, holds    *)
(* after each turn.                                                        *)
LEMMA Turns ==
    ASSUME NEW n \in Nat, NEW P, 0 \in P, \A i \in 1..n : i - 1 \in P => i \in P
    PROVE  \A i \in 0..n : i \in P
<1> DEFINE Bad == {i \in 0..n : i \notin P}
<1> SUFFICES ASSUME Bad # {} PROVE FALSE
  OBVIOUS
<1>1. PICK i \in Bad : \A j \in Bad : i <= j
  <2>1. Bad \in SUBSET Nat
    OBVIOUS
  <2> HIDE DEF Bad
  <2> QED
    BY <2>1, LeastExists
<1>2. i \in 1..n /\ i - 1 \notin Bad
  BY <1>1
<1> QED
  BY <1>1, <1>2

(* A loop of n turns has a function of what it has come to. *)
IsLoop(g, A, n, base, f) ==
    /\ g \in [0..n -> A]
    /\ g[0] = base
    /\ \A i \in 1..n : g[i] = f[<<g[i - 1], i>>]

LEMMA LoopExists ==
    ASSUME NEW A, NEW n \in Nat, NEW base \in A, NEW f \in [A \X (1..n) -> A]
    PROVE  \E g : IsLoop(g, A, n, base, f)
<1> DEFINE Turn(g, i) == IF i = 0 THEN base ELSE f[<<g[i - 1], i>>]
           Runs(g, k) == g \in [0..k -> A] /\ \A i \in 0..k : g[i] = Turn(g, i)
           P == {k \in 0..n : \E g : Runs(g, k)}
<1>1. 0 \in P
  <2> DEFINE g == [i \in 0..0 |-> base]
  <2>1. g \in [0..0 -> A] /\ g[0] = base /\ \A i \in 0..0 : i = 0
    OBVIOUS
  <2>2. \A i \in 0..0 : g[i] = Turn(g, i)
    BY <2>1
  <2>3. Runs(g, 0)
    BY <2>1, <2>2
  <2> HIDE DEF Runs
  <2> QED
    BY <2>3
<1>2. ASSUME NEW k \in 1..n, k - 1 \in P PROVE k \in P
  <2>1. PICK g : Runs(g, k - 1)
    BY <1>2
  <2>2. k - 1 \in 0..(k - 1) /\ g[k - 1] \in A
    BY <2>1
  <2> DEFINE last == f[<<g[k - 1], k>>]
             h == [i \in 0..k |-> IF i = k THEN last ELSE g[i]]
  <2>3. last \in A
    BY <2>2
  <2>4. h \in [0..k -> A]
    BY <2>1, <2>3
  <2>5. ASSUME NEW i \in 0..k PROVE h[i] = Turn(h, i)
    <3>1. CASE i = k
      <4>1. i # 0 /\ h[i - 1] = g[k - 1] /\ h[i] = last
        BY <3>1
      <4> QED
        BY <4>1, <3>1
    <3>2. CASE i # k
      <4>1. i \in 0..(k - 1) /\ h[i] = g[i] /\ (i # 0 => h[i - 1] = g[i - 1])
        BY <3>2
      <4>2. g[i] = Turn(g, i)
        BY <2>1, <4>1
      <4> QED
        BY <4>1, <4>2
    <3> QED
      BY <3>1, <3>2
  <2>6. Runs(h, k)
    BY <2>4, <2>5
  <2> HIDE DEF Runs
  <2> QED
    BY <2>6
<1>3. n \in P
  <2> HIDE DEF P
  <2> QED
    BY <1>1, <1>2, Turns
<1>4. PICK g : Runs(g, n)
  BY <1>3
<1>5. g[0] = base
  <2>1. 0 \in 0..n
    OBVIOUS
  <2> QED
    BY <1>4, <2>1
<1>6. ASSUME NEW i \in 1..n PROVE g[i] = f[<<g[i - 1], i>>]
  <2>1. i \in 0..n /\ i # 0
    OBVIOUS
  <2> QED
    BY <1>4, <2>1
<1> QED
  BY <1>4, <1>5, <1>6 DEF IsLoop

(* What a sequence keeps: its elements in a set, each at the place to which *)
(* an increasing function takes the place it had.                           *)
Picks(k, seq, n, S) ==
    \E m \in [1..Len(k) -> 1..n] :
        /\ \A i \in 1..Len(k) : k[i] = seq[m[i]]
        /\ \A i, j \in 1..Len(k) : i < j => m[i] < m[j]
        /\ \A q \in 1..n : seq[q] \in S <=> \E i \in 1..Len(k) : m[i] = q

LEMMA PicksNext ==
    ASSUME NEW T, NEW seq \in Seq(T), NEW S, NEW n \in 1..Len(seq),
           NEW k \in Seq(T), Picks(k, seq, n - 1, S)
    PROVE  IF seq[n] \in S THEN Append(k, seq[n]) \in Seq(T) /\ Picks(Append(k, seq[n]), seq, n, S)
           ELSE Picks(k, seq, n, S)
<1>1. PICK m \in [1..Len(k) -> 1..(n - 1)] :
         /\ \A i \in 1..Len(k) : k[i] = seq[m[i]]
         /\ \A i, j \in 1..Len(k) : i < j => m[i] < m[j]
         /\ \A q \in 1..(n - 1) : seq[q] \in S <=> \E i \in 1..Len(k) : m[i] = q
  BY DEF Picks
<1>2. Len(k) \in Nat /\ Len(seq) \in Nat /\ n \in Nat
  BY LenProperties
<1>3. CASE seq[n] \in S
  <2> DEFINE a == Append(k, seq[n])
             l == [i \in 1..(Len(k) + 1) |-> IF i = Len(k) + 1 THEN n ELSE m[i]]
  <2>1. seq[n] \in T
    BY <1>2, ElementOfSeq
  <2>2. /\ a \in Seq(T) /\ Len(a) = Len(k) + 1 /\ a[Len(k) + 1] = seq[n]
        /\ \A i \in 1..Len(k) : a[i] = k[i]
    BY <2>1, AppendProperties
  <2> HIDE DEF a
  <2>3. l \in [1..Len(a) -> 1..n]
    BY <1>2, <2>2
  <2>4. l[Len(k) + 1] = n /\ \A i \in 1..Len(k) : l[i] = m[i]
    BY <1>2
  <2> HIDE DEF l
  <2>5. \A i \in 1..Len(a) : a[i] = seq[l[i]]
    BY <1>1, <1>2, <2>2, <2>4
  <2>6. ASSUME NEW i \in 1..Len(a), NEW j \in 1..Len(a), i < j PROVE l[i] < l[j]
    <3>4. i \in Nat /\ i > 0 /\ j \in Nat /\ j <= Len(k) + 1
      BY <1>2, <2>2
    <3>5. i \in 1..Len(k)
      BY <1>2, <2>6, <3>4
    <3>1. l[i] = m[i] /\ m[i] < n
      BY <1>2, <2>4, <3>5
    <3>2. CASE j = Len(k) + 1
      <4>1. l[j] = n
        BY <2>4, <3>2
      <4> QED
        BY <3>1, <4>1
    <3>3. CASE j # Len(k) + 1
      <4>1. j \in 1..Len(k)
        BY <1>2, <2>2, <3>3
      <4> QED
        BY <1>1, <2>4, <2>6, <3>5, <4>1
    <3> QED
      BY <3>2, <3>3
  <2>7. ASSUME NEW q \in 1..n PROVE seq[q] \in S <=> \E i \in 1..Len(a) : l[i] = q
    <3>1. CASE q = n
      BY <1>2, <1>3, <2>2, <2>4, <3>1
    <3>2. CASE q # n
      <4>1. q \in 1..(n - 1)
        BY <1>2, <3>2
      <4>2. seq[q] \in S <=> \E i \in 1..Len(k) : m[i] = q
        BY <1>1, <4>1
      <4>3. \A i \in 1..Len(a) : l[i] = q <=> i \in 1..Len(k) /\ m[i] = q
        BY <1>2, <2>2, <2>4, <3>2
      <4>4. \A i \in 1..Len(k) : i \in 1..Len(a)
        BY <1>2, <2>2
      <4> QED
        BY <4>2, <4>3, <4>4
    <3> QED
      BY <3>1, <3>2
  <2>8. Picks(a, seq, n, S)
    BY <2>3, <2>5, <2>6, <2>7 DEF Picks
  <2> QED
    BY <1>3, <2>2, <2>8 DEF a
<1>4. CASE seq[n] \notin S
  <2>1. m \in [1..Len(k) -> 1..n]
    BY <1>2
  <2>2. \A q \in 1..n : seq[q] \in S <=> \E i \in 1..Len(k) : m[i] = q
    BY <1>1, <1>2, <1>4
  <2> QED
    BY <1>1, <1>4, <2>1, <2>2 DEF Picks
<1> QED
  BY <1>3, <1>4

LEMMA KeptPicks ==
    ASSUME NEW T, NEW seq \in Seq(T), NEW S
    PROVE  Kept(seq, S) \in Seq(T) /\ Picks(Kept(seq, S), seq, Len(seq), S)
<1> DEFINE n == Len(seq)
           A == Seq(T)
           Turn(g, i) == IF i = 0 THEN <<>>
                         ELSE IF seq[i] \in S THEN Append(g[i - 1], seq[i]) ELSE g[i - 1]
           Runs(g) == g = [i \in 0..n |-> Turn(g, i)]
           kept == CHOOSE g : Runs(g)
           f == [x \in A \X (1..n) |->
                    IF seq[x[2]] \in S THEN Append(x[1], seq[x[2]]) ELSE x[1]]
<1>1. n \in Nat /\ \A i \in 1..n : seq[i] \in T
  BY LenProperties, ElementOfSeq
<1>2. f \in [A \X (1..n) -> A]
  BY <1>1, AppendProperties
<1>3. <<>> \in A
  OBVIOUS
<1>8. Kept(seq, S) = kept[n]
  BY DEF Kept
<1> HIDE DEF n
<1>4. PICK g : IsLoop(g, A, n, <<>>, f)
  <2> HIDE DEF f, A
  <2> QED
    BY <1>1, <1>2, <1>3, LoopExists
<1>5. \A i \in 0..n : g[i] = Turn(g, i)
  <2> SUFFICES ASSUME NEW i \in 0..n PROVE g[i] = Turn(g, i)
    OBVIOUS
  <2>1. CASE i = 0
    BY <1>4, <2>1 DEF IsLoop
  <2>2. CASE i # 0
    <3>1. i \in 1..n /\ i - 1 \in 0..n /\ g[i - 1] \in A
      BY <1>1, <1>4, <2>2 DEF IsLoop
    <3>2. f[<<g[i - 1], i>>] = IF seq[i] \in S THEN Append(g[i - 1], seq[i]) ELSE g[i - 1]
      BY <3>1
    <3> QED
      BY <1>4, <2>2, <3>1, <3>2 DEF IsLoop
  <2> QED
    BY <2>1, <2>2
<1>6. Runs(g)
  <2>1. g \in [0..n -> A]
    BY <1>4 DEF IsLoop
  <2> HIDE DEF Turn
  <2> QED
    BY <1>5, <2>1
<1>7. Runs(kept)
  <2> HIDE DEF Runs
  <2> QED
    BY <1>6
<1> HIDE DEF kept
<1>9. \A i \in 0..n : kept[i] = Turn(kept, i)
  <2> HIDE DEF Turn
  <2> QED
    BY <1>7
<1> HIDE DEF Runs, A
<1> DEFINE P == {i \in 0..n : kept[i] \in Seq(T) /\ Picks(kept[i], seq, i, S)}
<1>10. 0 \in P
  <2>1. kept[0] = <<>>
    BY <1>1, <1>9
  <2>2. Picks(<<>>, seq, 0, S)
    <3>1. Len(<<>>) = 0 /\ ~\E i \in 1..0 : TRUE
      BY EmptySeq
    <3>2. [i \in 1..0 |-> 1] \in [1..0 -> 1..0]
      BY <3>1
    <3> QED
      BY <3>1, <3>2 DEF Picks
  <2>3. <<>> \in Seq(T)
    OBVIOUS
  <2>4. 0 \in 0..n
    BY <1>1
  <2> QED
    BY <2>1, <2>2, <2>3, <2>4
<1>11. ASSUME NEW i \in 1..n, i - 1 \in P PROVE i \in P
  <2>1. kept[i] = IF seq[i] \in S THEN Append(kept[i - 1], seq[i]) ELSE kept[i - 1]
    BY <1>1, <1>9
  <2>2. kept[i - 1] \in Seq(T) /\ Picks(kept[i - 1], seq, i - 1, S)
    BY <1>11
  <2>3. kept[i] \in Seq(T) /\ Picks(kept[i], seq, i, S)
    BY <2>1, <2>2, PicksNext DEF n
  <2> QED
    BY <2>3
<1>12. n \in P
  <2> HIDE DEF P
  <2>1. \A i \in 0..n : i \in P
    BY <1>1, <1>10, <1>11, Turns
  <2> QED
    BY <1>1, <2>1
<1> QED
  BY <1>8, <1>12 DEF n

-------------------------------------------------------------------------------
(* Sequences and graphs.                                                     *)

Once(s) == \A i, j \in DOMAIN s : s[i] = s[j] => i = j

LEMMA Appended ==
    ASSUME NEW T, NEW s \in Seq(T), NEW x \in T
    PROVE  /\ Append(s, x) \in Seq(T) /\ Len(Append(s, x)) = Len(s) + 1
           /\ \A i \in DOMAIN s : i \in DOMAIN Append(s, x) /\ Append(s, x)[i] = s[i]
           /\ Append(s, x)[Len(s) + 1] = x
           /\ DOMAIN Append(s, x) = DOMAIN s \cup {Len(s) + 1} /\ Len(s) + 1 \notin DOMAIN s
           /\ ToSet(Append(s, x)) = ToSet(s) \cup {x}
           /\ Once(s) /\ x \notin ToSet(s) => Once(Append(s, x))
<1> DEFINE a == Append(s, x)
<1>1. /\ a \in Seq(T) /\ Len(a) = Len(s) + 1 /\ a[Len(s) + 1] = x
      /\ \A i \in 1..Len(s) : a[i] = s[i]
  BY AppendProperties
<1>2. Len(s) \in Nat /\ DOMAIN s = 1..Len(s) /\ DOMAIN a = 1..Len(a)
  BY <1>1, LenProperties
<1> HIDE DEF a
<1>3. DOMAIN a = DOMAIN s \cup {Len(s) + 1} /\ Len(s) + 1 \notin DOMAIN s
  BY <1>1, <1>2
<1>4. ToSet(a) = ToSet(s) \cup {x}
  BY <1>1, <1>2, <1>3 DEF ToSet
<1>5. Once(s) /\ x \notin ToSet(s) => Once(a)
  BY <1>1, <1>2, <1>3 DEF Once, ToSet
<1> QED
  BY <1>1, <1>2, <1>3, <1>4, <1>5 DEF a

LEMMA Fronted ==
    ASSUME NEW T, NEW s \in Seq(T), s # <<>>
    PROVE  /\ Len(s) \in Nat \ {0} /\ Last(s) = s[Len(s)] /\ Last(s) \in T
           /\ Front(s) \in Seq(T) /\ Len(Front(s)) = Len(s) - 1
           /\ \A i \in 1..(Len(s) - 1) : Front(s)[i] = s[i]
           /\ ToSet(s) = ToSet(Front(s)) \cup {Last(s)}
           /\ Once(s) => Once(Front(s)) /\ Last(s) \notin ToSet(Front(s))
<1> DEFINE f == Front(s)
<1>1. Len(s) \in Nat \ {0} /\ DOMAIN s = 1..Len(s) /\ Last(s) = s[Len(s)]
  BY EmptySeq, LenProperties DEF Last
<1>2. \A i \in 1..Len(s) : s[i] \in T
  BY ElementOfSeq
<1>3. /\ f \in Seq(T) /\ Len(f) = Len(s) - 1
      /\ \A i \in 1..(Len(s) - 1) : f[i] = s[i]
  <2>1. \A i \in 1..(Len(s) - 1) : s[i] \in T
    BY <1>1, <1>2
  <2> DEFINE q == Len(s) - 1
  <2>2. 1 \in Int /\ q \in Int
    BY <1>1
  <2>3. f = SubSeq(s, 1, q)
    BY DEF Front
  <2>4. \A i \in 1..q : s[i] \in T
    BY <2>1
  <2> HIDE DEF f, q
  <2>5. /\ f \in Seq(T) /\ Len(f) = IF 1 <= q THEN q - 1 + 1 ELSE 0
        /\ \A i \in 1..(q - 1 + 1) : f[i] = s[1 + i - 1]
    BY <2>2, <2>3, <2>4, SubSeqProperties
  <2>6. q \in Nat /\ q = Len(s) - 1
    BY <1>1 DEF q
  <2>7. ASSUME NEW i \in 1..q PROVE f[i] = s[i]
    <3>1. 1 + i - 1 = i /\ i \in 1..(q - 1 + 1)
      BY <2>6
    <3> QED
      BY <2>5, <3>1
  <2>8. Len(f) = q
    BY <2>5, <2>6
  <2> QED
    BY <2>5, <2>6, <2>7, <2>8
<1>4. DOMAIN f = 1..(Len(s) - 1)
  BY <1>3, LenProperties
<1> HIDE DEF f
<1>5. ToSet(s) = ToSet(f) \cup {Last(s)}
  BY <1>1, <1>3, <1>4 DEF ToSet
<1>6. Once(s) => Once(f) /\ Last(s) \notin ToSet(f)
  BY <1>1, <1>3, <1>4 DEF Once, ToSet
<1> QED
  BY <1>1, <1>2, <1>3, <1>5, <1>6 DEF f

(* A sequence without repetition is no longer than its set is large. *)
LEMMA OnceIsShort ==
    ASSUME NEW N, IsFiniteSet(N), NEW s \in Seq(N), Once(s)
    PROVE  Len(s) \in Nat /\ Len(s) <= Cardinality(N)
<1>1. Len(s) \in Nat /\ s \in [1..Len(s) -> N] /\ DOMAIN s = 1..Len(s)
  BY LenProperties
<1>2. s \in Injection(1..Len(s), N)
  BY <1>1 DEF Injection, IsInjective, Once
<1>3. Cardinality(1..Len(s)) = Len(s)
  BY <1>1, FS_Interval
<1>4. Cardinality(1..Len(s)) <= Cardinality(N)
  BY <1>2, FS_Injection
<1> QED
  BY <1>1, <1>3, <1>4

Edge(G, x, y) == y \in ToSet(G[x])
Digraph(G, N) == IsFiniteSet(N) /\ G \in [N -> Seq(N)]
NoCycle(G, N) ==
    \A S \in SUBSET N :
        /\ \A x \in S : \E y \in S : Edge(G, x, y)
        /\ \A y \in S : \E x \in S : Edge(G, x, y)
        => S = {}
Downward(G, C) == \A x \in C : \A y : Edge(G, x, y) => y \in C

(* What a node needs is in front of it. *)
Ordered(G, s) == \A k \in DOMAIN s : \A y : Edge(G, s[k], y) => \E j \in 1..(k - 1) : s[j] = y

Searching(G, C, n, d) ==
    /\ d \in [stack : Seq(C), pre : Seq(C), post : Seq(C)]
    /\ Once(d.stack) /\ Once(d.pre) /\ Once(d.post)
    /\ ToSet(d.pre) = ToSet(d.stack) \cup ToSet(d.post)
    /\ ToSet(d.stack) \cap ToSet(d.post) = {}
    /\ \A i \in 1..(Len(d.stack) - 1) : Edge(G, d.stack[i], d.stack[i + 1])
    /\ n \in ToSet(d.pre)
    /\ Ordered(G, d.post)

LEMMA SearchStarts ==
    ASSUME NEW C, NEW G, NEW n \in C
    PROVE  Searching(G, C, n, [stack |-> <<n>>, pre |-> <<n>>, post |-> <<>>])
<1>1. <<n>> \in Seq(C) /\ <<>> \in Seq(C) /\ Len(<<n>>) = 1 /\ Len(<<>>) = 0
  OBVIOUS
<1>2. ToSet(<<n>>) = {n} /\ ToSet(<<>>) = {} /\ Once(<<n>>) /\ Once(<<>>)
  BY DEF ToSet, Once
<1>3. Ordered(G, <<>>)
  BY DEF Ordered
<1> QED
  BY <1>1, <1>2, <1>3 DEF Searching

LEMMA AllLeft ==
    ASSUME NEW N, NEW G, NEW C \in SUBSET N, NEW n, NEW d, Digraph(G, N), NoCycle(G, N),
           Searching(G, C, n, d), d.stack # <<>>,
           ~\E i \in DOMAIN G[Last(d.stack)] : G[Last(d.stack)][i] \notin ToSet(d.pre)
    PROVE  \A y : Edge(G, Last(d.stack), y) => y \in ToSet(d.post)
<1> DEFINE s == d.stack
           top == Last(s)
<1>1. s \in Seq(C) /\ \A i \in 1..(Len(s) - 1) : Edge(G, s[i], s[i + 1])
  BY DEF Searching
<1>2. Len(s) \in Nat \ {0} /\ top = s[Len(s)] /\ top \in C /\ DOMAIN s = 1..Len(s)
      /\ \A i \in 1..Len(s) : s[i] \in C
  BY <1>1, Fronted, LenProperties, ElementOfSeq
<1> SUFFICES ASSUME NEW y, Edge(G, top, y), y \notin ToSet(d.post) PROVE FALSE
  OBVIOUS
<1>3. y \in ToSet(d.pre)
  BY DEF Edge, ToSet
<1>4. y \in ToSet(s)
  BY <1>3 DEF Searching
<1>5. PICK p \in 1..Len(s) : s[p] = y
  BY <1>2, <1>4 DEF ToSet
<1>9. p \in Nat /\ 1 <= p /\ p <= Len(s) /\ Len(s) \in Nat
  BY <1>2
<1> HIDE DEF s, top
<1> DEFINE S == {s[i] : i \in p..Len(s)}
<1>6. S \in SUBSET N /\ y \in S
  BY <1>2, <1>5
<1>7. ASSUME NEW x \in S PROVE \E z \in S : Edge(G, x, z)
  <2>1. PICK i \in p..Len(s) : x = s[i]
    OBVIOUS
  <2>2. CASE i = Len(s)
    BY <1>2, <1>6, <2>1, <2>2
  <2>3. CASE i # Len(s)
    <3>1. i \in 1..(Len(s) - 1) /\ i + 1 \in p..Len(s)
      BY <1>9, <2>3
    <3> QED
      BY <1>1, <2>1, <3>1
  <2> QED
    BY <2>2, <2>3
<1>8. ASSUME NEW x \in S PROVE \E z \in S : Edge(G, z, x)
  <2>1. PICK i \in p..Len(s) : x = s[i]
    OBVIOUS
  <2>2. CASE i = p
    <3>1. top \in S
      BY <1>2, <1>5
    <3>2. x = y
      BY <1>5, <2>1, <2>2
    <3>3. Edge(G, top, x)
      BY <3>2
    <3> QED
      BY <3>1, <3>3
  <2>3. CASE i # p
    <3>1. i - 1 \in 1..(Len(s) - 1) /\ i - 1 \in p..Len(s) /\ (i - 1) + 1 = i
      BY <1>9, <2>3
    <3>2. Edge(G, s[i - 1], s[(i - 1) + 1])
      BY <1>1, <3>1
    <3> QED
      BY <2>1, <3>1, <3>2
  <2> QED
    BY <2>2, <2>3
<1> HIDE DEF S
<1> QED
  BY <1>6, <1>7, <1>8 DEF NoCycle

-------------------------------------------------------------------------------
(* The depth-first search.                                                   *)

(* What a search has met and left. *)
Met(d) == Len(d.pre) + Len(d.post)

LEMMA MetMore ==
    ASSUME NEW d, NEW v, NEW i \in {0, 1}, Len(d.pre) \in Nat, Len(d.post) \in Nat,
           Len(v.pre) = Len(d.pre) + i, Len(v.post) = Len(d.post) + 1 - i
    PROVE  Met(v) = Met(d) + 1
<1> DEFINE a == Len(d.pre)
           b == Len(d.post)
           c == Len(v.pre)
           e == Len(v.post)
<1>1. a \in Nat /\ b \in Nat /\ c = a + i /\ e = b + 1 - i
  OBVIOUS
<1>2. Met(v) = c + e /\ Met(d) = a + b
  BY DEF Met
<1> HIDE DEF a, b, c, e
<1>3. c + e = a + b + 1
  BY <1>1
<1> QED
  BY <1>2, <1>3

LEMMA VisitKeeps ==
    ASSUME NEW N, NEW G, NEW C \in SUBSET N, NEW n, NEW d,
           Digraph(G, N), NoCycle(G, N), Downward(G, C), Searching(G, C, n, d)
    PROVE  /\ Searching(G, C, n, Visit(G, d))
           /\ \/ d.stack = <<>> /\ Visit(G, d) = d
              \/ Met(Visit(G, d)) = Met(d) + 1
<1> DEFINE top  == Last(d.stack)
           next == {i \in DOMAIN G[top] : G[top][i] \notin ToSet(d.pre)}
           v    == Visit(G, d)
<1>1. /\ d \in [stack : Seq(C), pre : Seq(C), post : Seq(C)]
      /\ Once(d.stack) /\ Once(d.pre) /\ Once(d.post)
      /\ ToSet(d.pre) = ToSet(d.stack) \cup ToSet(d.post)
      /\ ToSet(d.stack) \cap ToSet(d.post) = {}
      /\ \A i \in 1..(Len(d.stack) - 1) : Edge(G, d.stack[i], d.stack[i + 1])
      /\ n \in ToSet(d.pre)
      /\ Ordered(G, d.post)
  BY DEF Searching
<1>2. d.stack \in Seq(C) /\ d.pre \in Seq(C) /\ d.post \in Seq(C)
      /\ Len(d.pre) \in Nat /\ Len(d.post) \in Nat /\ Len(d.stack) \in Nat
      /\ d = [stack |-> d.stack, pre |-> d.pre, post |-> d.post]
  BY <1>1, LenProperties
<1>3. CASE d.stack = <<>>
  BY <1>3 DEF Visit
<1>4. CASE d.stack # <<>> /\ next = {}
  <2> DEFINE f == Front(d.stack)
             q == Append(d.post, top)
  <2>1. v = [stack |-> f, pre |-> d.pre, post |-> q]
    <3>1. v = [d EXCEPT !.stack = Front(@), !.post = Append(@, top)]
      BY <1>4 DEF Visit
    <3> HIDE DEF v, top
    <3> QED
      BY <1>2, <3>1
  <2>2. /\ top = d.stack[Len(d.stack)] /\ top \in C /\ f \in Seq(C) /\ Len(f) = Len(d.stack) - 1
        /\ \A i \in 1..(Len(d.stack) - 1) : f[i] = d.stack[i]
        /\ ToSet(d.stack) = ToSet(f) \cup {top}
        /\ Once(f) /\ top \notin ToSet(f)
    BY <1>1, <1>2, <1>4, Fronted
  <2>3. top \notin ToSet(d.post)
    BY <1>1, <2>2
  <2>4. \A y : Edge(G, top, y) => y \in ToSet(d.post)
    <3>1. ~\E i \in DOMAIN G[Last(d.stack)] : G[Last(d.stack)][i] \notin ToSet(d.pre)
      BY <1>4
    <3> QED
      BY <1>4, <3>1, AllLeft
  <2> HIDE DEF top, f
  <2>5. /\ q \in Seq(C) /\ Len(q) = Len(d.post) + 1
        /\ \A i \in DOMAIN d.post : i \in DOMAIN q /\ q[i] = d.post[i]
        /\ q[Len(d.post) + 1] = top
        /\ DOMAIN q = DOMAIN d.post \cup {Len(d.post) + 1}
        /\ ToSet(q) = ToSet(d.post) \cup {top}
        /\ Once(q)
    BY <1>1, <1>2, <2>2, <2>3, Appended
  <2> HIDE DEF q
  <2>6. Ordered(G, q)
    <3> SUFFICES ASSUME NEW k \in DOMAIN q, NEW y, Edge(G, q[k], y)
                 PROVE  \E j \in 1..(k - 1) : q[j] = y
      BY DEF Ordered
    <3>1. DOMAIN d.post = 1..Len(d.post)
      BY <1>2, LenProperties
    <3>2. CASE k \in DOMAIN d.post
      <4>1. PICK j \in 1..(k - 1) : d.post[j] = y
        BY <1>1, <2>5, <3>2 DEF Ordered
      <4>2. j \in DOMAIN d.post
        BY <1>2, <3>1, <3>2
      <4> QED
        BY <2>5, <4>1, <4>2
    <3>3. CASE k = Len(d.post) + 1
      <4>1. y \in ToSet(d.post)
        BY <2>4, <2>5, <3>3
      <4>2. PICK j \in DOMAIN d.post : d.post[j] = y
        BY <4>1 DEF ToSet
      <4>3. j \in 1..(k - 1)
        BY <1>2, <3>1, <3>3
      <4> QED
        BY <2>5, <4>2, <4>3
    <3> QED
      BY <2>5, <3>2, <3>3
  <2>7. \A i \in 1..(Len(f) - 1) : Edge(G, f[i], f[i + 1])
    <3> SUFFICES ASSUME NEW i \in 1..(Len(f) - 1) PROVE Edge(G, f[i], f[i + 1])
      OBVIOUS
    <3>1. i \in 1..(Len(d.stack) - 1) /\ i + 1 \in 1..(Len(d.stack) - 1)
      BY <1>2, <2>2
    <3>2. f[i] = d.stack[i] /\ f[i + 1] = d.stack[i + 1]
      BY <2>2, <3>1
    <3> QED
      BY <1>1, <3>1, <3>2
  <2>8. /\ v \in [stack : Seq(C), pre : Seq(C), post : Seq(C)]
        /\ v.stack = f /\ v.pre = d.pre /\ v.post = q
    BY <1>2, <2>1, <2>2, <2>5
  <2>9. ToSet(d.pre) = ToSet(f) \cup ToSet(q) /\ ToSet(f) \cap ToSet(q) = {}
    BY <1>1, <2>2, <2>5
  <2> HIDE DEF v
  <2>10. Searching(G, C, n, v)
    BY <1>1, <2>2, <2>5, <2>6, <2>7, <2>8, <2>9 DEF Searching
  <2>11. Met(v) = Met(d) + 1
    <3>1. Len(v.pre) = Len(d.pre) + 0 /\ Len(v.post) = Len(d.post) + 1 - 0
      <4>1. Len(v.pre) = Len(d.pre) /\ Len(v.post) = Len(d.post) + 1
        BY <2>5, <2>8, Zenon
      <4>2. Len(d.pre) = Len(d.pre) + 0 /\ Len(d.post) + 1 = Len(d.post) + 1 - 0
        BY <1>2
      <4> QED
        BY <4>1, <4>2, Zenon
    <3>2. Len(d.pre) \in Nat /\ Len(d.post) \in Nat
      BY <1>2
    <3>3. 0 \in {0, 1} /\ 1 \in {0, 1}
      OBVIOUS
    <3> QED
      BY <3>1, <3>2, <3>3, MetMore, Zenon
  <2> QED
    BY <2>10, <2>11 DEF v
<1>5. CASE d.stack # <<>> /\ next # {}
  <2> DEFINE i0  == CHOOSE i \in next : \A j \in next : i <= j
             new == G[top][i0]
             s   == Append(d.stack, new)
             r   == Append(d.pre, new)
  <2>1. v = [stack |-> s, pre |-> r, post |-> d.post]
    <3>1. v = [d EXCEPT !.stack = Append(@, new), !.pre = Append(@, new)]
      BY <1>5 DEF Visit
    <3> HIDE DEF v, new
    <3> QED
      BY <1>2, <3>1
  <2>2. top = d.stack[Len(d.stack)] /\ top \in C /\ Len(d.stack) # 0
    BY <1>2, <1>5, Fronted
  <2>3. G[top] \in Seq(N) /\ DOMAIN G[top] = 1..Len(G[top]) /\ Len(G[top]) \in Nat
    BY <2>2, LenProperties DEF Digraph
  <2>4. i0 \in next
    <3>1. next \in SUBSET Nat /\ next # {}
      BY <1>5, <2>3
    <3> HIDE DEF next
    <3> QED
      BY <3>1, LeastExists
  <2>5. Edge(G, top, new) /\ new \notin ToSet(d.pre)
    <3> HIDE DEF i0
    <3> QED
      BY <2>4 DEF Edge, ToSet
  <2>6. new \in C
    BY <2>2, <2>5 DEF Downward
  <2> HIDE DEF i0, top, new
  <2>7. /\ s \in Seq(C) /\ Len(s) = Len(d.stack) + 1
        /\ \A i \in DOMAIN d.stack : s[i] = d.stack[i]
        /\ s[Len(d.stack) + 1] = new
        /\ ToSet(s) = ToSet(d.stack) \cup {new}
        /\ Once(s)
    BY <1>1, <1>2, <2>5, <2>6, Appended
  <2>8. /\ r \in Seq(C) /\ Len(r) = Len(d.pre) + 1
        /\ ToSet(r) = ToSet(d.pre) \cup {new}
        /\ Once(r)
    BY <1>1, <1>2, <2>5, <2>6, Appended
  <2> HIDE DEF s, r
  <2>9. \A i \in 1..(Len(s) - 1) : Edge(G, s[i], s[i + 1])
    <3> SUFFICES ASSUME NEW i \in 1..(Len(s) - 1) PROVE Edge(G, s[i], s[i + 1])
      OBVIOUS
    <3>1. DOMAIN d.stack = 1..Len(d.stack) /\ i \in 1..Len(d.stack)
      BY <1>2, <2>7, LenProperties
    <3>2. CASE i = Len(d.stack)
      <4>1. s[i] = top /\ s[i + 1] = new
        BY <2>2, <2>7, <3>1, <3>2
      <4> QED
        BY <2>5, <4>1
    <3>3. CASE i # Len(d.stack)
      <4>1. i \in 1..(Len(d.stack) - 1) /\ i + 1 \in DOMAIN d.stack
        BY <1>2, <3>1, <3>3
      <4>2. s[i] = d.stack[i] /\ s[i + 1] = d.stack[i + 1]
        BY <2>7, <3>1, <4>1
      <4> QED
        BY <1>1, <4>1, <4>2
    <3> QED
      BY <3>2, <3>3
  <2>10. /\ v \in [stack : Seq(C), pre : Seq(C), post : Seq(C)]
         /\ v.stack = s /\ v.pre = r /\ v.post = d.post
    BY <1>2, <2>1, <2>7, <2>8
  <2>11. /\ ToSet(r) = ToSet(s) \cup ToSet(d.post) /\ ToSet(s) \cap ToSet(d.post) = {}
         /\ n \in ToSet(r)
    BY <1>1, <2>5, <2>7, <2>8
  <2> HIDE DEF v
  <2>12. Searching(G, C, n, v)
    BY <1>1, <2>7, <2>8, <2>9, <2>10, <2>11 DEF Searching
  <2>13. Met(v) = Met(d) + 1
    <3>1. Len(v.pre) = Len(d.pre) + 1 /\ Len(v.post) = Len(d.post) + 1 - 1
      <4>1. Len(v.pre) = Len(d.pre) + 1 /\ Len(v.post) = Len(d.post)
        BY <2>8, <2>10, Zenon
      <4>2. Len(d.post) = Len(d.post) + 1 - 1
        BY <1>2
      <4> QED
        BY <4>1, <4>2, Zenon
    <3>2. Len(d.pre) \in Nat /\ Len(d.post) \in Nat
      BY <1>2
    <3>3. 0 \in {0, 1} /\ 1 \in {0, 1}
      OBVIOUS
    <3> QED
      BY <3>1, <3>2, <3>3, MetMore, Zenon
  <2> QED
    BY <2>12, <2>13 DEF v
<1> QED
  BY <1>3, <1>4, <1>5

(* A search comes to its end: it has met and left the same nodes, all of    *)
(* them below where it began.                                               *)
LEMMA SearchEnds ==
    ASSUME NEW N, NEW G, NEW C \in SUBSET N, NEW n \in C,
           Digraph(G, N), NoCycle(G, N), Downward(G, C)
    PROVE  LET d == Search(G, n) IN
           /\ d.pre \in Seq(C) /\ d.post \in Seq(C)
           /\ ToSet(d.pre) = ToSet(d.post) /\ n \in ToSet(d.post) /\ Once(d.post)
           /\ Ordered(G, d.post)
<1> DEFINE t == 2 * Cardinality(DOMAIN G)
           first == [stack |-> <<n>>, pre |-> <<n>>, post |-> <<>>]
           A == {d \in [stack : Seq(C), pre : Seq(C), post : Seq(C)] : Searching(G, C, n, d)}
           Turn(g, i) == IF i = 0 THEN first ELSE Visit(G, g[i - 1])
           Runs(g) == g = [i \in 0..t |-> Turn(g, i)]
           search == CHOOSE g : Runs(g)
           f == [x \in A \X (1..t) |-> Visit(G, x[1])]
<1>1. DOMAIN G = N /\ Cardinality(N) \in Nat /\ t \in Nat /\ t = 2 * Cardinality(N)
  BY FS_CardinalityType DEF Digraph
<1>2. Search(G, n) = search[t]
  BY DEF Search
<1> HIDE DEF t
<1>3. first \in A
  BY SearchStarts DEF Searching
<1>4. ASSUME NEW d \in A PROVE Visit(G, d) \in A
  <2>1. Searching(G, C, n, Visit(G, d))
    BY VisitKeeps
  <2> QED
    BY <2>1 DEF Searching
<1>5. f \in [A \X (1..t) -> A]
  <2> HIDE DEF A
  <2> QED
    BY <1>4
<1>6. PICK g : IsLoop(g, A, t, first, f)
  <2> HIDE DEF f, A, first
  <2> QED
    BY <1>1, <1>3, <1>5, LoopExists
<1>7. \A i \in 0..t : g[i] = Turn(g, i)
  <2> SUFFICES ASSUME NEW i \in 0..t PROVE g[i] = Turn(g, i)
    OBVIOUS
  <2> HIDE DEF A, first
  <2>1. CASE i = 0
    BY <1>6, <2>1 DEF IsLoop
  <2>2. CASE i # 0
    <3>1. i \in 1..t /\ i - 1 \in 0..t /\ g[i - 1] \in A
      BY <1>1, <1>6, <2>2 DEF IsLoop
    <3>2. f[<<g[i - 1], i>>] = Visit(G, g[i - 1])
      BY <3>1
    <3> QED
      BY <1>6, <2>2, <3>1, <3>2 DEF IsLoop
  <2> QED
    BY <2>1, <2>2
<1>8. Runs(g)
  <2>1. g \in [0..t -> A]
    BY <1>6 DEF IsLoop
  <2> HIDE DEF Turn, A
  <2> QED
    BY <1>7, <2>1
<1>9. Runs(search)
  <2> HIDE DEF Runs
  <2> QED
    BY <1>8
<1> HIDE DEF search
<1>10. \A i \in 0..t : search[i] = Turn(search, i)
  <2> HIDE DEF Turn
  <2> QED
    BY <1>9
<1> HIDE DEF Runs
<1> DEFINE P == {i \in 0..t : /\ Searching(G, C, n, search[i])
                              /\ \/ search[i].stack = <<>>
                                 \/ Met(search[i]) = i + 1}
<1>11. 0 \in P
  <2>1. search[0] = first /\ 0 \in 0..t
    BY <1>1, <1>10
  <2>2. Searching(G, C, n, first) /\ Met(first) = 0 + 1
    BY SearchStarts DEF Met
  <2> QED
    BY <2>1, <2>2
<1>12. ASSUME NEW i \in 1..t, i - 1 \in P PROVE i \in P
  <2> DEFINE d == search[i - 1]
  <2>1. search[i] = Visit(G, d)
    BY <1>1, <1>10
  <2>2. /\ Searching(G, C, n, d)
        /\ d.stack = <<>> \/ Met(d) = (i - 1) + 1
    BY <1>12
  <2> HIDE DEF d
  <2>3. /\ Searching(G, C, n, Visit(G, d))
        /\ \/ d.stack = <<>> /\ Visit(G, d) = d
           \/ Met(Visit(G, d)) = Met(d) + 1
    BY <2>2, VisitKeeps
  <2>4. CASE d.stack = <<>>
    <3>1. Visit(G, d).stack = <<>>
      BY <2>4 DEF Visit
    <3> QED
      BY <2>1, <2>3, <3>1
  <2>5. CASE d.stack # <<>>
    <3> DEFINE v == Visit(G, d)
    <3>1. Met(d) = (i - 1) + 1
      BY <2>2, <2>5
    <3>3. Met(v) = Met(d) + 1
      BY <2>3, <2>5
    <3> HIDE DEF v
    <3>4. i \in Int
      BY <1>1
    <3>5. Met(v) = i + 1
      BY <3>1, <3>3, <3>4
    <3> QED
      BY <2>1, <2>3, <3>5 DEF v
  <2> QED
    BY <2>4, <2>5
<1>13. t \in P
  <2> HIDE DEF P
  <2>1. \A i \in 0..t : i \in P
    BY <1>1, <1>11, <1>12, Turns
  <2> QED
    BY <1>1, <2>1
<1> DEFINE e == search[t]
<1>14. Searching(G, C, n, e) /\ (e.stack = <<>> \/ Met(e) = t + 1)
  BY <1>13
<1> HIDE DEF e, P
<1>15. e.pre \in Seq(C) /\ e.post \in Seq(C) /\ Once(e.pre) /\ Once(e.post)
       /\ ToSet(e.pre) = ToSet(e.stack) \cup ToSet(e.post) /\ n \in ToSet(e.pre)
       /\ Ordered(G, e.post)
  BY <1>14 DEF Searching
<1>16. IsFiniteSet(C) /\ Cardinality(C) <= Cardinality(N) /\ Cardinality(C) \in Nat
  BY FS_Subset, FS_CardinalityType DEF Digraph
<1>17. /\ Len(e.pre) \in Nat /\ Len(e.pre) <= Cardinality(C)
       /\ Len(e.post) \in Nat /\ Len(e.post) <= Cardinality(C)
  BY <1>15, <1>16, OnceIsShort
<1>18. e.stack = <<>>
  <2> DEFINE a == Len(e.pre)
             b == Len(e.post)
  <2>1. /\ a \in Nat /\ a <= Cardinality(C) /\ b \in Nat /\ b <= Cardinality(C)
        /\ Met(e) = a + b
    BY <1>17 DEF Met
  <2> HIDE DEF a, b
  <2>2. Met(e) # t + 1
    BY <1>1, <1>16, <2>1
  <2> QED
    BY <1>14, <2>2
<1>19. ToSet(e.stack) = {}
  BY <1>18 DEF ToSet
<1> QED
  BY <1>2, <1>15, <1>19 DEF e

-------------------------------------------------------------------------------
(* Plans, one stage after another.                                           *)

LEMMA KeptIs ==
    ASSUME NEW T, NEW seq \in Seq(T), NEW S
    PROVE  /\ Kept(seq, S) \in Seq(T) /\ ToSet(Kept(seq, S)) = ToSet(seq) \cap S
           /\ \A U : ToSet(seq) \cap S \subseteq U => Kept(seq, S) \in Seq(U)
           /\ Once(seq) => Once(Kept(seq, S))
<1> DEFINE k == Kept(seq, S)
           n == Len(seq)
<1>1. k \in Seq(T) /\ Picks(k, seq, n, S)
  BY KeptPicks
<1> HIDE DEF k
<1>2. PICK m \in [1..Len(k) -> 1..n] :
        /\ \A i \in 1..Len(k) : k[i] = seq[m[i]]
        /\ \A i, j \in 1..Len(k) : i < j => m[i] < m[j]
        /\ \A q \in 1..n : seq[q] \in S <=> \E i \in 1..Len(k) : m[i] = q
  BY <1>1 DEF Picks
<1>3. Len(k) \in Nat /\ DOMAIN k = 1..Len(k) /\ n \in Nat /\ DOMAIN seq = 1..n
      /\ k \in [1..Len(k) -> T]
  BY <1>1, LenProperties
<1> HIDE DEF n
<1>4. ToSet(k) = ToSet(seq) \cap S
  <2>1. ASSUME NEW x \in ToSet(k) PROVE x \in ToSet(seq) \cap S
    <3>1. PICK i \in 1..Len(k) : x = k[i]
      BY <1>3 DEF ToSet
    <3>2. m[i] \in 1..n /\ x = seq[m[i]] /\ x \in S
      BY <1>2, <3>1
    <3> QED
      BY <1>3, <3>2 DEF ToSet
  <2>2. ASSUME NEW x \in ToSet(seq), x \in S PROVE x \in ToSet(k)
    <3>1. PICK q \in 1..n : x = seq[q]
      BY <1>3 DEF ToSet
    <3>2. PICK i \in 1..Len(k) : m[i] = q
      BY <1>2, <2>2, <3>1
    <3>3. k[i] = x
      BY <1>2, <3>1, <3>2
    <3> QED
      BY <1>3, <3>3 DEF ToSet
  <2> QED
    BY <2>1, <2>2
<1>5. ASSUME NEW U, ToSet(seq) \cap S \subseteq U PROVE k \in Seq(U)
  <2>1. \A i \in 1..Len(k) : k[i] \in U
    BY <1>3, <1>4, <1>5 DEF ToSet
  <2> QED
    BY <1>1, <1>3, <2>1
<1>6. ASSUME Once(seq) PROVE Once(k)
  <2> SUFFICES ASSUME NEW i \in 1..Len(k), NEW j \in 1..Len(k), k[i] = k[j], i < j PROVE FALSE
    BY <1>3 DEF Once
  <2>1. m[i] < m[j] /\ m[i] \in 1..n /\ m[j] \in 1..n /\ seq[m[i]] = seq[m[j]]
    BY <1>2
  <2> QED
    BY <1>3, <1>6, <2>1 DEF Once
<1> QED
  BY <1>1, <1>4, <1>5, <1>6 DEF k

(* No stage of a plan needs a later one. *)
NoForward(G, s) == \A i, j \in DOMAIN s : i < j => ~Edge(G, s[i], s[j])

LEMMA OrderedIsDown ==
    ASSUME NEW G, NEW T, NEW s \in Seq(T), Ordered(G, s)
    PROVE  Downward(G, ToSet(s)) /\ (Once(s) => NoForward(G, s))
<1>1. Len(s) \in Nat /\ DOMAIN s = 1..Len(s)
  BY LenProperties
<1>2. Downward(G, ToSet(s))
  BY <1>1 DEF Downward, Ordered, ToSet
<1>3. ASSUME Once(s), NEW i \in DOMAIN s, NEW j \in DOMAIN s, i < j, Edge(G, s[i], s[j])
      PROVE  FALSE
  <2>1. PICK k \in 1..(i - 1) : s[k] = s[j]
    BY <1>3 DEF Ordered
  <2> QED
    BY <1>1, <1>3, <2>1 DEF Once
<1> QED
  BY <1>2, <1>3 DEF NoForward

(* One plan after another. *)
LEMMA ReverseIs ==
    ASSUME NEW G, NEW R, NEW N, NEW s \in Seq(N), Once(s), NoForward(R, s),
           \A x, y \in N : Edge(R, x, y) <=> Edge(G, y, x)
    PROVE  /\ Reverse(s) \in Seq(N) /\ Once(Reverse(s)) /\ NoForward(G, Reverse(s))
           /\ ToSet(Reverse(s)) = ToSet(s)
<1> DEFINE n == Len(s)
           r == Reverse(s)
<1>1. n \in Nat /\ DOMAIN s = 1..n /\ \A i \in 1..n : s[i] \in N
  BY LenProperties, ElementOfSeq
<1>2. r = [i \in 1..n |-> s[(n - i) + 1]]
  BY DEF Reverse
<1> HIDE DEF n, r
<1>3. \A i \in 1..n : (n - i) + 1 \in 1..n /\ (n - ((n - i) + 1)) + 1 = i
  BY <1>1
<1>4. r \in Seq(N) /\ DOMAIN r = 1..n
  BY <1>1, <1>2, <1>3
<1>5. Once(r)
  <2> SUFFICES ASSUME NEW i \in 1..n, NEW j \in 1..n, r[i] = r[j] PROVE i = j
    BY <1>4 DEF Once
  <2>1. (n - i) + 1 = (n - j) + 1
    BY <1>1, <1>2, <1>3 DEF Once
  <2> QED
    BY <1>1, <2>1
<1>6. NoForward(G, r)
  <2> SUFFICES ASSUME NEW i \in 1..n, NEW j \in 1..n, i < j PROVE ~Edge(G, r[i], r[j])
    BY <1>4 DEF NoForward
  <2>1. (n - j) + 1 < (n - i) + 1
    BY <1>1
  <2>2. ~Edge(R, s[(n - j) + 1], s[(n - i) + 1])
    BY <1>1, <1>3, <2>1 DEF NoForward
  <2> QED
    BY <1>1, <1>2, <1>3, <2>2
<1>7. ToSet(r) = ToSet(s)
  <2>1. ASSUME NEW x \in ToSet(r) PROVE x \in ToSet(s)
    <3>1. PICK i \in 1..n : x = r[i]
      BY <1>4 DEF ToSet
    <3>2. x = s[(n - i) + 1] /\ (n - i) + 1 \in DOMAIN s
      BY <1>1, <1>2, <1>3, <3>1
    <3> QED
      BY <3>2 DEF ToSet
  <2>2. ASSUME NEW x \in ToSet(s) PROVE x \in ToSet(r)
    <3>1. PICK i \in 1..n : x = s[i]
      BY <1>1 DEF ToSet
    <3>2. x = r[(n - i) + 1] /\ (n - i) + 1 \in DOMAIN r
      BY <1>2, <1>3, <1>4, <3>1
    <3> QED
      BY <3>2 DEF ToSet
  <2> QED
    BY <2>1, <2>2
<1> QED
  BY <1>4, <1>5, <1>6, <1>7 DEF r

LEMMA AddNewIs ==
    ASSUME NEW T, NEW s \in Seq(T), NEW r \in Seq(T), Once(s), Once(r)
    PROVE  /\ AddNew(s, r) \in Seq(T) /\ Once(AddNew(s, r))
           /\ ToSet(AddNew(s, r)) = ToSet(s) \cup ToSet(r)
<1> DEFINE k == Kept(r, ToSet(r) \ ToSet(s))
           a == s \o k
<1>1. k \in Seq(T) /\ ToSet(k) = ToSet(r) \ ToSet(s) /\ Once(k)
  BY KeptIs
<1>2. AddNew(s, r) = a
  BY DEF AddNew
<1> HIDE DEF k
<1>3. /\ a \in Seq(T) /\ Len(a) = Len(s) + Len(k)
      /\ \A i \in 1..Len(a) : a[i] = IF i <= Len(s) THEN s[i] ELSE k[i - Len(s)]
  BY <1>1, ConcatProperties
<1>4. Len(s) \in Nat /\ Len(k) \in Nat /\ DOMAIN s = 1..Len(s) /\ DOMAIN k = 1..Len(k)
      /\ DOMAIN a = 1..Len(a)
  BY <1>1, <1>3, LenProperties
<1> HIDE DEF a
<1>5. Once(a)
  <2> SUFFICES ASSUME NEW i \in 1..Len(a), NEW j \in 1..Len(a), a[i] = a[j], i < j PROVE FALSE
    BY <1>4 DEF Once
  <2>1. CASE j <= Len(s)
    BY <1>3, <1>4, <2>1 DEF Once
  <2>2. CASE i <= Len(s) /\ ~(j <= Len(s))
    <3>1. a[i] = s[i] /\ a[j] = k[j - Len(s)] /\ i \in DOMAIN s /\ j - Len(s) \in DOMAIN k
      BY <1>3, <1>4, <2>2
    <3>2. a[i] \in ToSet(s) /\ a[j] \in ToSet(k)
      BY <3>1 DEF ToSet
    <3> QED
      BY <1>1, <3>2
  <2>3. CASE ~(i <= Len(s))
    <3>1. a[i] = k[i - Len(s)] /\ a[j] = k[j - Len(s)]
          /\ i - Len(s) \in DOMAIN k /\ j - Len(s) \in DOMAIN k /\ i - Len(s) # j - Len(s)
      BY <1>3, <1>4, <2>3
    <3> QED
      BY <1>1, <3>1 DEF Once
  <2> QED
    BY <1>4, <2>1, <2>2, <2>3
<1>6. ToSet(a) = ToSet(s) \cup ToSet(k)
  <2>1. ASSUME NEW x \in ToSet(s) PROVE x \in ToSet(a)
    <3>1. PICK i \in 1..Len(s) : x = s[i]
      BY <1>4 DEF ToSet
    <3>2. i \in DOMAIN a /\ a[i] = s[i]
      BY <1>3, <1>4
    <3> QED
      BY <3>1, <3>2 DEF ToSet
  <2>2. ASSUME NEW x \in ToSet(k) PROVE x \in ToSet(a)
    <3>1. PICK i \in 1..Len(k) : x = k[i]
      BY <1>4 DEF ToSet
    <3>2. i + Len(s) \in DOMAIN a /\ a[i + Len(s)] = k[i]
      BY <1>3, <1>4
    <3> QED
      BY <3>1, <3>2 DEF ToSet
  <2>3. ASSUME NEW x \in ToSet(a) PROVE x \in ToSet(s) \cup ToSet(k)
    <3>1. PICK i \in 1..Len(a) : x = a[i]
      BY <1>4, <2>3 DEF ToSet
    <3>2. CASE i <= Len(s)
      BY <1>3, <1>4, <3>1, <3>2 DEF ToSet
    <3>3. CASE ~(i <= Len(s))
      <4>1. i - Len(s) \in DOMAIN k /\ x = k[i - Len(s)]
        BY <1>3, <1>4, <3>1, <3>3
      <4> QED
        BY <4>1 DEF ToSet
    <3> QED
      BY <3>2, <3>3
  <2> QED
    BY <2>1, <2>2, <2>3
<1> QED
  BY <1>1, <1>2, <1>3, <1>5, <1>6

-------------------------------------------------------------------------------
(* The reversed graph and the stages of a target.                            *)

(* The edges of a graph lead to its nodes.                                   *)
LEMMA StaysInside ==
    ASSUME NEW G, NEW K, Digraph(G, K), NEW x \in K, NEW y, Edge(G, x, y)
    PROVE  y \in K
<1>1. G \in [K -> Seq(K)] /\ G[x] \in Seq(K)
  BY DEF Digraph
<1>2. PICK i \in DOMAIN G[x] : y = G[x][i]
  BY DEF Edge, ToSet
<1> QED
  BY <1>1, <1>2, LenProperties, ElementOfSeq

LEMMA ReversedIs ==
    ASSUME NEW N, NEW K, NEW G, Digraph(G, N), NoCycle(G, N),
           NEW order \in Seq(K), N \subseteq ToSet(order)
    PROVE  /\ Digraph(Reversed(G, order), N) /\ NoCycle(Reversed(G, order), N)
           /\ \A x, y \in N : Edge(Reversed(G, order), x, y) <=> Edge(G, y, x)
<1> DEFINE S(n) == {m \in DOMAIN G : n \in ToSet(G[m])}
           R == Reversed(G, order)
<1>1. DOMAIN G = N /\ IsFiniteSet(N)
  BY DEF Digraph
<1>2. \A n \in N : ToSet(order) \cap S(n) = {m \in N : Edge(G, m, n)}
  BY <1>1 DEF Edge
<1>3. R = [n \in N |-> Kept(order, S(n))]
  BY <1>1 DEF Reversed
<1>4. ASSUME NEW n \in N PROVE R[n] \in Seq(N) /\ ToSet(R[n]) = {m \in N : Edge(G, m, n)}
  <2> DEFINE M == S(n)
  <2>1. ToSet(order) \cap M = {m \in N : Edge(G, m, n)} /\ R[n] = Kept(order, M)
    BY <1>2, <1>3
  <2> HIDE DEF M, R
  <2>2. ToSet(order) \cap M \subseteq N
    BY <2>1
  <2>3. ToSet(R[n]) = ToSet(order) \cap M /\ R[n] \in Seq(N)
    BY <2>1, <2>2, KeptIs
  <2> QED
    BY <2>1, <2>3
<1>5. R \in [N -> Seq(N)]
  <2>1. R = [n \in N |-> R[n]]
    BY <1>3
  <2> HIDE DEF R
  <2> QED
    BY <1>4, <2>1
<1> HIDE DEF R
<1>6. \A x, y \in N : Edge(R, x, y) <=> Edge(G, y, x)
  BY <1>4 DEF Edge
<1>7. NoCycle(R, N)
  <2> SUFFICES ASSUME NEW S0 \in SUBSET N,
                      \A x \in S0 : \E y \in S0 : Edge(R, x, y),
                      \A y \in S0 : \E x \in S0 : Edge(R, x, y)
               PROVE  S0 = {}
    BY DEF NoCycle
  <2>1. \A x \in S0 : \E y \in S0 : Edge(G, x, y)
    BY <1>6
  <2>2. \A y \in S0 : \E x \in S0 : Edge(G, x, y)
    BY <1>6
  <2> QED
    BY <2>1, <2>2 DEF NoCycle
<1> QED
  BY <1>1, <1>5, <1>6, <1>7 DEF Digraph, R

(* What holds of the plan of a target, and of the plans one after another:  *)
(* each stage is there once and needs no later one, and what they need, or  *)
(* what needs them, is there too.                                           *)
Planned(G, H, N, s) ==
    s \in Seq(N) /\ Once(s) /\ NoForward(G, s) /\ Downward(H, ToSet(s))

Follows(G, order, downstream) == IF downstream THEN Reversed(G, order) ELSE G

LEMMA OfTargetIs ==
    ASSUME NEW N, NEW K, NEW G, Digraph(G, N), NoCycle(G, N),
           NEW order \in Seq(K), N \subseteq ToSet(order),
           NEW downstream \in BOOLEAN, NEW n \in N
    PROVE  LET s == OfTarget(G, order, n, downstream)
           IN  /\ Planned(G, Follows(G, order, downstream), N, s)
               /\ n \in ToSet(s)
               /\ downstream /\ n \in RootsOf(G) => ToSet(s) \subseteq {n}
<1> DEFINE R == Reversed(G, order)
<1>0. DOMAIN G = N /\ \A x \in N : \A y : Edge(G, x, y) => y \in N
  BY StaysInside DEF Digraph
<1>1. CASE ~downstream
  <2> DEFINE s == Postorder(G, n)
  <2>1. Downward(G, N)
    BY <1>0 DEF Downward
  <2>2. s \in Seq(N) /\ n \in ToSet(s) /\ Once(s) /\ Ordered(G, s)
    BY <2>1, SearchEnds DEF Postorder
  <2>3. Downward(G, ToSet(s)) /\ NoForward(G, s)
    BY <2>2, OrderedIsDown
  <2> QED
    BY <1>1, <2>2, <2>3 DEF OfTarget, Planned, Follows
<1>2. CASE downstream
  <2> DEFINE q == Postorder(R, n)
             s == Reverse(q)
  <2>1. /\ Digraph(R, N) /\ NoCycle(R, N)
        /\ \A x, y \in N : Edge(R, x, y) <=> Edge(G, y, x)
    BY ReversedIs
  <2> HIDE DEF R
  <2>2. \A x \in N : \A y : Edge(R, x, y) => y \in N
    BY <2>1, StaysInside
  <2>3. ASSUME NEW C \in SUBSET N, n \in C, Downward(R, C)
        PROVE  q \in Seq(C) /\ n \in ToSet(q) /\ Once(q) /\ Ordered(R, q)
    BY <2>1, <2>3, SearchEnds DEF Postorder
  <2> HIDE DEF q
  <2>4. q \in Seq(N) /\ n \in ToSet(q) /\ Once(q) /\ Ordered(R, q)
    BY <2>2, <2>3 DEF Downward
  <2>5. Downward(R, ToSet(q)) /\ NoForward(R, q)
    BY <2>4, OrderedIsDown
  <2>6. s \in Seq(N) /\ Once(s) /\ NoForward(G, s) /\ ToSet(s) = ToSet(q)
    BY <2>1, <2>4, <2>5, ReverseIs
  <2>7. ASSUME n \in RootsOf(G) PROVE ToSet(q) \subseteq {n}
    <3>1. \A y : ~Edge(R, n, y)
      BY <1>0, <2>1, <2>2, <2>7 DEF RootsOf, Edge
    <3>2. q \in Seq({n})
      BY <2>3, <3>1 DEF Downward
    <3> QED
      BY <3>2, LenProperties, ElementOfSeq DEF ToSet
  <2>8. OfTarget(G, order, n, downstream) = s /\ Follows(G, order, downstream) = R
    BY <1>2 DEF OfTarget, Follows, q, R
  <2> HIDE DEF s
  <2> QED
    BY <2>4, <2>5, <2>6, <2>7, <2>8 DEF Planned
<1> QED
  BY <1>1, <1>2

-------------------------------------------------------------------------------
(* The stages of all targets.                                                *)

NoEdges(G, S, R) == \A x \in S, y \in R : ~Edge(G, x, y)

LEMMA AddPlanned ==
    ASSUME NEW G, NEW H, NEW N, NEW s, NEW r, Planned(G, H, N, s), Planned(G, H, N, r),
           NoEdges(G, ToSet(s), ToSet(r) \ ToSet(s))
    PROVE  Planned(G, H, N, AddNew(s, r))
<1> DEFINE k == Kept(r, ToSet(r) \ ToSet(s))
           a == s \o k
<1>1. /\ s \in Seq(N) /\ Once(s) /\ NoForward(G, s) /\ Downward(H, ToSet(s))
      /\ r \in Seq(N) /\ Once(r) /\ NoForward(G, r) /\ Downward(H, ToSet(r))
  BY DEF Planned
<1>2. a \in Seq(N) /\ Once(a) /\ ToSet(a) = ToSet(s) \cup ToSet(r)
  BY <1>1, AddNewIs DEF AddNew
<1>3. Downward(H, ToSet(a))
  BY <1>1, <1>2 DEF Downward
<1>4. k \in Seq(N) /\ ToSet(k) = ToSet(r) \ ToSet(s) /\ Picks(k, r, Len(r), ToSet(r) \ ToSet(s))
  BY <1>1, KeptIs, KeptPicks
<1>5. AddNew(s, r) = a
  BY DEF AddNew
<1> HIDE DEF k
<1>6. /\ Len(a) = Len(s) + Len(k)
      /\ \A i \in 1..Len(a) : a[i] = IF i <= Len(s) THEN s[i] ELSE k[i - Len(s)]
  BY <1>1, <1>4, ConcatProperties
<1>7. Len(s) \in Nat /\ Len(k) \in Nat /\ DOMAIN s = 1..Len(s) /\ DOMAIN k = 1..Len(k)
      /\ DOMAIN a = 1..Len(a) /\ Len(r) \in Nat /\ DOMAIN r = 1..Len(r)
  BY <1>1, <1>2, <1>4, LenProperties
<1> HIDE DEF a
<1>8. NoForward(G, k)
  <2>1. PICK m \in [1..Len(k) -> 1..Len(r)] :
          /\ \A i \in 1..Len(k) : k[i] = r[m[i]]
          /\ \A i, j \in 1..Len(k) : i < j => m[i] < m[j]
    BY <1>4 DEF Picks
  <2> SUFFICES ASSUME NEW i \in 1..Len(k), NEW j \in 1..Len(k), i < j PROVE ~Edge(G, k[i], k[j])
    BY <1>7 DEF NoForward
  <2>2. m[i] \in DOMAIN r /\ m[j] \in DOMAIN r /\ m[i] < m[j] /\ k[i] = r[m[i]] /\ k[j] = r[m[j]]
    BY <1>7, <2>1
  <2> QED
    BY <1>1, <2>2 DEF NoForward
<1>9. NoForward(G, a)
  <2> SUFFICES ASSUME NEW i \in 1..Len(a), NEW j \in 1..Len(a), i < j PROVE ~Edge(G, a[i], a[j])
    BY <1>7 DEF NoForward
  <2>1. CASE j <= Len(s)
    <3>1. i \in DOMAIN s /\ j \in DOMAIN s /\ a[i] = s[i] /\ a[j] = s[j]
      BY <1>6, <1>7, <2>1
    <3> QED
      BY <1>1, <3>1 DEF NoForward
  <2>2. CASE i <= Len(s) /\ ~(j <= Len(s))
    <3>1. a[i] = s[i] /\ a[j] = k[j - Len(s)] /\ i \in DOMAIN s /\ j - Len(s) \in DOMAIN k
      BY <1>6, <1>7, <2>2
    <3>2. a[i] \in ToSet(s) /\ a[j] \in ToSet(r) \ ToSet(s)
      BY <1>4, <3>1 DEF ToSet
    <3> QED
      BY <3>2 DEF NoEdges
  <2>3. CASE ~(i <= Len(s))
    <3>1. a[i] = k[i - Len(s)] /\ a[j] = k[j - Len(s)]
          /\ i - Len(s) \in DOMAIN k /\ j - Len(s) \in DOMAIN k /\ i - Len(s) < j - Len(s)
      BY <1>6, <1>7, <2>3
    <3> QED
      BY <1>8, <3>1 DEF NoForward
  <2> QED
    BY <1>7, <2>1, <2>2, <2>3
<1> QED
  BY <1>2, <1>3, <1>5, <1>9 DEF Planned

LEMMA GetPipelineIs ==
    ASSUME NEW N, NEW K, NEW G, Digraph(G, N), NoCycle(G, N),
           NEW order \in Seq(K), N \subseteq ToSet(order),
           NEW downstream \in BOOLEAN, NEW targets \in Seq(N),
           downstream => Len(targets) <= 1 \/ ToSet(targets) \subseteq RootsOf(G)
    PROVE  LET s == GetPipeline(G, order, targets, downstream)
           IN  /\ Planned(G, Follows(G, order, downstream), N, s)
               /\ ToSet(targets) \subseteq ToSet(s)
<1> DEFINE n == Len(targets)
           A == {s \in Seq(N) : Once(s)}
           of(i) == OfTarget(G, order, targets[i], downstream)
           Turn(g, i) == IF i = 0 THEN <<>> ELSE AddNew(g[i - 1], of(i))
           Runs(g) == g = [i \in 0..n |-> Turn(g, i)]
           plan == CHOOSE g : Runs(g)
           f == [x \in A \X (1..n) |-> AddNew(x[1], of(x[2]))]
           H == Follows(G, order, downstream)
<1>1. n \in Nat /\ \A i \in 1..n : targets[i] \in N
  BY LenProperties, ElementOfSeq
<1>2. GetPipeline(G, order, targets, downstream) = plan[n]
  BY DEF GetPipeline
<1>3. ASSUME NEW i \in 1..n
      PROVE  /\ Planned(G, H, N, of(i)) /\ targets[i] \in ToSet(of(i))
             /\ downstream /\ targets[i] \in RootsOf(G) => ToSet(of(i)) \subseteq {targets[i]}
  BY <1>1, OfTargetIs
<1> HIDE DEF of, H
<1>4. DOMAIN targets = 1..n
  BY LenProperties
<1> HIDE DEF n
<1>5. f \in [A \X (1..n) -> A]
  <2> SUFFICES ASSUME NEW s \in A, NEW i \in 1..n PROVE AddNew(s, of(i)) \in A
    OBVIOUS
  <2>1. of(i) \in Seq(N) /\ Once(of(i))
    BY <1>3 DEF Planned
  <2> QED
    BY <2>1, AddNewIs
<1>6. <<>> \in A
  BY DEF Once
<1>7. PICK g : IsLoop(g, A, n, <<>>, f)
  <2> HIDE DEF f, A
  <2> QED
    BY <1>1, <1>5, <1>6, LoopExists
<1>8. \A i \in 0..n : g[i] = Turn(g, i)
  <2> SUFFICES ASSUME NEW i \in 0..n PROVE g[i] = Turn(g, i)
    OBVIOUS
  <2> HIDE DEF A
  <2>1. CASE i = 0
    BY <1>7, <2>1 DEF IsLoop
  <2>2. CASE i # 0
    <3>1. i \in 1..n /\ i - 1 \in 0..n /\ g[i - 1] \in A
      BY <1>1, <1>7, <2>2 DEF IsLoop
    <3>2. f[<<g[i - 1], i>>] = AddNew(g[i - 1], of(i))
      BY <3>1
    <3> QED
      BY <1>7, <2>2, <3>1, <3>2 DEF IsLoop
  <2> QED
    BY <2>1, <2>2
<1>9. Runs(g)
  <2>1. g \in [0..n -> A]
    BY <1>7 DEF IsLoop
  <2> HIDE DEF Turn, A
  <2> QED
    BY <1>8, <2>1
<1>10. Runs(plan)
  <2> HIDE DEF Runs
  <2> QED
    BY <1>9
<1> HIDE DEF plan
<1>11. \A i \in 0..n : plan[i] = Turn(plan, i)
  <2> HIDE DEF Turn
  <2> QED
    BY <1>10
<1> HIDE DEF Runs
<1> DEFINE Good(s, i) == Planned(G, H, N, s) /\ \A j \in 1..i : targets[j] \in ToSet(s)
           P == {i \in 0..n : Good(plan[i], i)}
<1>12. 0 \in P
  <2>1. plan[0] = <<>> /\ 0 \in 0..n
    BY <1>1, <1>11
  <2>2. Planned(G, H, N, <<>>)
    BY DEF Planned, Once, NoForward, Downward, ToSet
  <2> QED
    BY <2>1, <2>2
<1>13. ASSUME NEW i \in 1..n, i - 1 \in P PROVE i \in P
  <2> DEFINE s == plan[i - 1]
             r == of(i)
  <2>1. plan[i] = AddNew(s, r)
    BY <1>1, <1>11
  <2>2. Planned(G, H, N, s) /\ \A j \in 1..(i - 1) : targets[j] \in ToSet(s)
    BY <1>13
  <2>3. Planned(G, H, N, r) /\ targets[i] \in ToSet(r)
        /\ (downstream /\ targets[i] \in RootsOf(G) => ToSet(r) \subseteq {targets[i]})
    BY <1>3
  <2>4. i = 1 => s = <<>>
    BY <1>1, <1>11
  <2> HIDE DEF s, r
  <2>5. ASSUME NEW x \in ToSet(s), NEW y \in ToSet(r) \ ToSet(s) PROVE ~Edge(G, x, y)
    <3>1. CASE ~downstream
      <4>1. Downward(G, ToSet(s))
        BY <2>2, <3>1 DEF Planned, H, Follows
      <4> QED
        BY <4>1 DEF Downward
    <3>2. CASE downstream
      <4>1. i # 1
        <5>1. s # <<>>
          BY DEF ToSet
        <5> QED
          BY <2>4, <5>1
      <4>2. ToSet(targets) \subseteq RootsOf(G)
        BY <1>1, <3>2, <4>1 DEF n
      <4>3. y = targets[i] /\ y \in RootsOf(G)
        BY <1>4, <2>3, <3>2, <4>2 DEF ToSet
      <4>4. x \in N /\ DOMAIN G = N
        <5>1. s \in Seq(N)
          BY <2>2 DEF Planned
        <5> QED
          BY <5>1, LenProperties, ElementOfSeq DEF ToSet, Digraph
      <4> QED
        BY <4>3, <4>4 DEF RootsOf, Edge
    <3> QED
      BY <3>1, <3>2
  <2>6. Planned(G, H, N, AddNew(s, r)) /\ ToSet(AddNew(s, r)) = ToSet(s) \cup ToSet(r)
    <3>1. NoEdges(G, ToSet(s), ToSet(r) \ ToSet(s))
      BY <2>5 DEF NoEdges
    <3>2. Planned(G, H, N, s) /\ Planned(G, H, N, r)
      BY <2>2, <2>3
    <3>3. Planned(G, H, N, AddNew(s, r))
      BY <3>1, <3>2, AddPlanned
    <3>4. ToSet(AddNew(s, r)) = ToSet(s) \cup ToSet(r)
      BY <3>2, AddNewIs DEF Planned
    <3> QED
      BY <3>3, <3>4
  <2>7. ASSUME NEW j \in 1..i PROVE targets[j] \in ToSet(AddNew(s, r))
    <3>1. CASE j = i
      BY <2>3, <2>6, <3>1
    <3>2. CASE j # i
      <4>1. j \in 1..(i - 1)
        BY <1>1, <3>2
      <4> QED
        BY <2>2, <2>6, <4>1
    <3> QED
      BY <3>1, <3>2
  <2>8. Good(plan[i], i)
    BY <2>1, <2>6, <2>7
  <2>9. i \in 0..n
    BY <1>1
  <2> HIDE DEF Good
  <2> QED
    BY <2>8, <2>9
<1>14. Good(plan[n], n)
  <2>1. \A i \in 0..n : i \in P
    <3> HIDE DEF P
    <3> QED
      BY <1>1, <1>12, <1>13, Turns
  <2> QED
    BY <1>1, <2>1
<1>15. ToSet(targets) \subseteq ToSet(plan[n])
  BY <1>4, <1>14 DEF ToSet
<1> QED
  BY <1>2, <1>14, <1>15 DEF H

-------------------------------------------------------------------------------
(* The active graph.                                                         *)

(* What the active graph has of the graph G with the nodes K: what is gone   *)
(* is needed by some stage, and of the stages that stay only those in F may  *)
(* have lost edges.                                                          *)
Below(G, K) == {y \in K : \E x \in K : Edge(G, x, y)}
Reduced(G, K, F, A) ==
    /\ A \in [nodes : SUBSET K, edges : SUBSET (K \X K), failed : BOOLEAN]
    /\ K \ A.nodes \subseteq Below(G, K)
    /\ A.edges \subseteq A.nodes \X A.nodes
    /\ \A e \in A.edges : Edge(G, e[1], e[2])
    /\ \A x \in A.nodes \ F : \A y \in K : Edge(G, x, y) => <<x, y>> \in A.edges

LEMMA DropKeeps ==
    ASSUME NEW G, NEW K, NEW F, NEW A, Reduced(G, K, F, A), NEW n \in Below(G, K)
    PROVE  Reduced(G, K, F, DropUnneeded(G, A, n))
<1>1. CASE \E e \in A.edges : e[2] = n
  BY <1>1 DEF DropUnneeded
<1>2. CASE ~\E e \in A.edges : e[2] = n
  <2> DEFINE nodes == A.nodes \ {n}
             edges == Without(A, n)
             failed == A.failed \/ n \notin A.nodes
             B == [nodes |-> nodes, edges |-> edges, failed |-> failed]
  <2>1. DropUnneeded(G, A, n) = B
    BY <1>2 DEF DropUnneeded
  <2>2. /\ A.nodes \in SUBSET K /\ A.edges \in SUBSET (K \X K) /\ A.failed \in BOOLEAN
        /\ K \ A.nodes \subseteq Below(G, K)
        /\ A.edges \subseteq A.nodes \X A.nodes
        /\ \A e \in A.edges : Edge(G, e[1], e[2])
        /\ \A x \in A.nodes \ F : \A y \in K : Edge(G, x, y) => <<x, y>> \in A.edges
    BY DEF Reduced
  <2>3. nodes \in SUBSET K /\ failed \in BOOLEAN /\ K \ nodes \subseteq Below(G, K)
    BY <2>2
  <2>4. edges = {e \in A.edges : n # e[1] /\ n # e[2]}
    BY DEF Without
  <2>5. edges \in SUBSET (K \X K) /\ edges \subseteq A.edges
    BY <2>2, <2>4
  <2>6. edges \subseteq nodes \X nodes
    BY <2>2, <2>4
  <2>7. ASSUME NEW x \in nodes \ F, NEW y \in K, Edge(G, x, y) PROVE <<x, y>> \in edges
    <3>1. <<x, y>> \in A.edges
      BY <2>2, <2>7
    <3>2. y # n
      BY <1>2, <3>1
    <3> QED
      BY <2>4, <3>1, <3>2
  <2>8. B.nodes = nodes /\ B.edges = edges /\ B.failed = failed
    OBVIOUS
  <2>9. B \in [nodes : SUBSET K, edges : SUBSET (K \X K), failed : BOOLEAN]
    <3> HIDE DEF nodes, edges, failed
    <3> QED
      BY <2>3, <2>5
  <2> HIDE DEF B, nodes, edges, failed
  <2> QED
    BY <2>1, <2>2, <2>3, <2>5, <2>6, <2>7, <2>8, <2>9 DEF Reduced
<1> QED
  BY <1>1, <1>2

LEMMA DropEachKeeps ==
    ASSUME NEW G, NEW K, NEW F, NEW A, Reduced(G, K, F, A), NEW nodes \in Seq(Below(G, K))
    PROVE  Reduced(G, K, F, DropEach(G, A, nodes))
<1> DEFINE n == Len(nodes)
           R == {B \in [nodes : SUBSET K, edges : SUBSET (K \X K), failed : BOOLEAN] :
                    Reduced(G, K, F, B)}
           Turn(g, i) == IF i = 0 THEN A ELSE DropUnneeded(G, g[i - 1], nodes[i])
           Runs(g) == g = [i \in 0..n |-> Turn(g, i)]
           left == CHOOSE g : Runs(g)
           f == [x \in R \X (1..n) |-> DropUnneeded(G, x[1], nodes[x[2]])]
<1>1. n \in Nat /\ \A i \in 1..n : nodes[i] \in Below(G, K)
  BY LenProperties, ElementOfSeq
<1>2. DropEach(G, A, nodes) = left[n]
  BY DEF DropEach
<1> HIDE DEF n
<1>3. A \in R
  BY DEF Reduced
<1>4. ASSUME NEW B \in R, NEW i \in 1..n PROVE DropUnneeded(G, B, nodes[i]) \in R
  <2>1. Reduced(G, K, F, DropUnneeded(G, B, nodes[i]))
    BY <1>1, DropKeeps
  <2> QED
    BY <2>1 DEF Reduced
<1>5. f \in [R \X (1..n) -> R]
  <2> HIDE DEF R
  <2> QED
    BY <1>4
<1>6. PICK g : IsLoop(g, R, n, A, f)
  <2> HIDE DEF f, R
  <2> QED
    BY <1>1, <1>3, <1>5, LoopExists
<1>7. \A i \in 0..n : g[i] = Turn(g, i)
  <2> SUFFICES ASSUME NEW i \in 0..n PROVE g[i] = Turn(g, i)
    OBVIOUS
  <2> HIDE DEF R
  <2>1. CASE i = 0
    BY <1>6, <2>1 DEF IsLoop
  <2>2. CASE i # 0
    <3>1. i \in 1..n /\ i - 1 \in 0..n /\ g[i - 1] \in R
      BY <1>1, <1>6, <2>2 DEF IsLoop
    <3>2. f[<<g[i - 1], i>>] = DropUnneeded(G, g[i - 1], nodes[i])
      BY <3>1
    <3> QED
      BY <1>6, <2>2, <3>1, <3>2 DEF IsLoop
  <2> QED
    BY <2>1, <2>2
<1>8. Runs(g)
  <2>1. g \in [0..n -> R]
    BY <1>6 DEF IsLoop
  <2> HIDE DEF Turn, R
  <2> QED
    BY <1>7, <2>1
<1>9. Runs(left)
  <2> HIDE DEF Runs
  <2> QED
    BY <1>8
<1> HIDE DEF left
<1>10. \A i \in 0..n : left[i] = Turn(left, i)
  <2> HIDE DEF Turn
  <2> QED
    BY <1>9
<1> HIDE DEF Runs, R
<1> DEFINE P == {i \in 0..n : left[i] \in R}
<1>11. 0 \in P
  BY <1>1, <1>3, <1>10
<1>12. ASSUME NEW i \in 1..n, i - 1 \in P PROVE i \in P
  BY <1>1, <1>4, <1>10, <1>12
<1>13. left[n] \in R
  <2> HIDE DEF P
  <2>1. \A i \in 0..n : i \in P
    BY <1>1, <1>11, <1>12, Turns
  <2> QED
    BY <1>1, <2>1 DEF P
<1> QED
  BY <1>2, <1>13 DEF R

(* What is searched from a stage that another one needs is needed.           *)
LEMMA SearchBelow ==
    ASSUME NEW G, NEW K, Digraph(G, K), NoCycle(G, K), NEW n \in Below(G, K)
    PROVE  Preorder(G, n) \in Seq(Below(G, K))
<1> DEFINE C == Below(G, K)
<1>1. C \in SUBSET K /\ n \in C
  BY DEF Below
<1>2. Downward(G, C)
  BY StaysInside DEF Downward, Below
<1> HIDE DEF C
<1>3. Search(G, n).pre \in Seq(C)
  BY <1>1, <1>2, SearchEnds
<1> QED
  BY <1>3 DEF Preorder, C

LEMMA CutKeeps ==
    ASSUME NEW G, NEW K, NEW F, NEW A, Digraph(G, K), NoCycle(G, K), Reduced(G, K, F, A),
           NEW m \in K \cap F
    PROVE  Reduced(G, K, F, CutStage(G, A, m))
<1> DEFINE n == Len(G[m])
           first == [A EXCEPT !.edges = @ \ OutEdges(G, m)]
           R == {B \in [nodes : SUBSET K, edges : SUBSET (K \X K), failed : BOOLEAN] :
                    Reduced(G, K, F, B)}
           Turn(g, i) == IF i = 0 THEN first ELSE DropEach(G, g[i - 1], Preorder(G, G[m][i]))
           Runs(g) == g = [i \in 0..n |-> Turn(g, i)]
           left == CHOOSE g : Runs(g)
           f == [x \in R \X (1..n) |-> DropEach(G, x[1], Preorder(G, G[m][x[2]]))]
<1>1. n \in Nat /\ \A i \in 1..n : Preorder(G, G[m][i]) \in Seq(Below(G, K))
  <2>1. G[m] \in Seq(K)
    BY DEF Digraph
  <2>2. n \in Nat /\ DOMAIN G[m] = 1..n
    BY <2>1, LenProperties
  <2>3. ASSUME NEW i \in 1..n PROVE G[m][i] \in Below(G, K)
    BY <2>1, <2>3, ElementOfSeq, <2>2 DEF Below, Edge, ToSet
  <2> HIDE DEF n
  <2> QED
    BY <2>2, <2>3, SearchBelow
<1>2. CutStage(G, A, m) = left[n]
  BY DEF CutStage
<1> HIDE DEF n
<1>3. first \in R
  <2> DEFINE edges == A.edges \ OutEdges(G, m)
  <2>2. /\ A.nodes \in SUBSET K /\ A.edges \in SUBSET (K \X K) /\ A.failed \in BOOLEAN
        /\ K \ A.nodes \subseteq Below(G, K)
        /\ A.edges \subseteq A.nodes \X A.nodes
        /\ \A e \in A.edges : Edge(G, e[1], e[2])
        /\ \A x \in A.nodes \ F : \A y \in K : Edge(G, x, y) => <<x, y>> \in A.edges
        /\ A = [nodes |-> A.nodes, edges |-> A.edges, failed |-> A.failed]
    BY DEF Reduced
  <2>3. first = [nodes |-> A.nodes, edges |-> edges, failed |-> A.failed]
    <3>1. first = [A EXCEPT !.edges = edges]
      OBVIOUS
    <3>2. A \in [nodes : SUBSET K, edges : SUBSET (K \X K), failed : BOOLEAN]
      BY DEF Reduced
    <3> HIDE DEF first, edges
    <3> QED
      BY <3>1, <3>2
  <2>4. edges \in SUBSET (K \X K) /\ edges \subseteq A.edges
    BY <2>2
  <2>5. ASSUME NEW x \in A.nodes \ F, NEW y \in K, Edge(G, x, y) PROVE <<x, y>> \in edges
    <3>1. <<x, y>> \in A.edges /\ x # m
      BY <2>2, <2>5
    <3>2. <<x, y>> \notin OutEdges(G, m)
      BY <3>1 DEF OutEdges
    <3> QED
      BY <3>1, <3>2
  <2> HIDE DEF edges
  <2>6. first \in [nodes : SUBSET K, edges : SUBSET (K \X K), failed : BOOLEAN]
    BY <2>2, <2>3, <2>4
  <2>7. first.nodes = A.nodes /\ first.edges = edges
    BY <2>3
  <2> HIDE DEF first
  <2> QED
    BY <2>2, <2>4, <2>5, <2>6, <2>7 DEF Reduced
<1> HIDE DEF first
<1>4. ASSUME NEW B \in R, NEW i \in 1..n PROVE DropEach(G, B, Preorder(G, G[m][i])) \in R
  <2>1. Reduced(G, K, F, DropEach(G, B, Preorder(G, G[m][i])))
    BY <1>1, DropEachKeeps
  <2> QED
    BY <2>1 DEF Reduced
<1>5. f \in [R \X (1..n) -> R]
  <2> HIDE DEF R
  <2> QED
    BY <1>4
<1>6. PICK g : IsLoop(g, R, n, first, f)
  <2> HIDE DEF f, R
  <2> QED
    BY <1>1, <1>3, <1>5, LoopExists
<1>7. \A i \in 0..n : g[i] = Turn(g, i)
  <2> SUFFICES ASSUME NEW i \in 0..n PROVE g[i] = Turn(g, i)
    OBVIOUS
  <2> HIDE DEF R
  <2>1. CASE i = 0
    BY <1>6, <2>1 DEF IsLoop
  <2>2. CASE i # 0
    <3>1. i \in 1..n /\ i - 1 \in 0..n /\ g[i - 1] \in R
      BY <1>1, <1>6, <2>2 DEF IsLoop
    <3>2. f[<<g[i - 1], i>>] = DropEach(G, g[i - 1], Preorder(G, G[m][i]))
      BY <3>1
    <3> QED
      BY <1>6, <2>2, <3>1, <3>2 DEF IsLoop
  <2> QED
    BY <2>1, <2>2
<1>8. Runs(g)
  <2>1. g \in [0..n -> R]
    BY <1>6 DEF IsLoop
  <2> HIDE DEF Turn, R
  <2> QED
    BY <1>7, <2>1
<1>9. Runs(left)
  <2> HIDE DEF Runs
  <2> QED
    BY <1>8
<1> HIDE DEF left
<1>10. \A i \in 0..n : left[i] = Turn(left, i)
  <2> HIDE DEF Turn
  <2> QED
    BY <1>9
<1> HIDE DEF Runs, R
<1> DEFINE P == {i \in 0..n : left[i] \in R}
<1>11. 0 \in P
  BY <1>1, <1>3, <1>10
<1>12. ASSUME NEW i \in 1..n, i - 1 \in P PROVE i \in P
  BY <1>1, <1>4, <1>10, <1>12
<1>13. left[n] \in R
  <2> HIDE DEF P
  <2>1. \A i \in 0..n : i \in P
    BY <1>1, <1>11, <1>12, Turns
  <2> QED
    BY <1>1, <2>1 DEF P
<1> QED
  BY <1>2, <1>13 DEF R

LEMMA ActiveGraphIs ==
    ASSUME NEW G, NEW K, NEW F, Digraph(G, K), NoCycle(G, K), NEW order \in Seq(K)
    PROVE  Reduced(G, K, F, ActiveGraph(G, order, F))
<1> DEFINE n == Len(order)
           cut(B, i) == IF order[i] \in F THEN CutStage(G, B, order[i]) ELSE B
           R == {B \in [nodes : SUBSET K, edges : SUBSET (K \X K), failed : BOOLEAN] :
                    Reduced(G, K, F, B)}
           Turn(g, i) == IF i = 0 THEN WholeGraph(G)
                         ELSE IF order[i] \in F THEN CutStage(G, g[i - 1], order[i])
                         ELSE g[i - 1]
           Runs(g) == g = [i \in 0..n |-> Turn(g, i)]
           left == CHOOSE g : Runs(g)
           f == [x \in R \X (1..n) |-> cut(x[1], x[2])]
<1>1. n \in Nat /\ \A i \in 1..n : order[i] \in K
  BY LenProperties, ElementOfSeq
<1>2. ActiveGraph(G, order, F) = left[n]
  BY DEF ActiveGraph
<1> HIDE DEF n
<1>3. WholeGraph(G) \in R
  <2> DEFINE edges == UNION {OutEdges(G, x) : x \in K}
  <2>1. DOMAIN G = K
    BY DEF Digraph
  <2>2. WholeGraph(G) = [nodes |-> K, edges |-> edges, failed |-> FALSE]
    BY <2>1 DEF WholeGraph
  <2>3. \A e : e \in edges <=> \E x \in K : \E y \in ToSet(G[x]) : e = <<x, y>>
    BY DEF OutEdges
  <2> HIDE DEF edges
  <2>4. \A e \in edges : e \in K \X K /\ Edge(G, e[1], e[2])
    BY <2>3, StaysInside DEF Edge
  <2>5. \A x \in K \ F : \A y \in K : Edge(G, x, y) => <<x, y>> \in edges
    BY <2>3 DEF Edge
  <2>6. WholeGraph(G) \in [nodes : SUBSET K, edges : SUBSET (K \X K), failed : BOOLEAN]
    BY <2>2, <2>4
  <2>7. WholeGraph(G).nodes = K /\ WholeGraph(G).edges = edges
    BY <2>2
  <2> QED
    BY <2>4, <2>5, <2>6, <2>7 DEF Reduced
<1>4. ASSUME NEW B \in R, NEW i \in 1..n PROVE cut(B, i) \in R
  <2>1. CASE order[i] \in F
    <3>1. order[i] \in K \cap F
      BY <1>1, <2>1
    <3>2. Reduced(G, K, F, CutStage(G, B, order[i]))
      BY <3>1, CutKeeps
    <3> QED
      BY <2>1, <3>2 DEF Reduced
  <2>2. CASE order[i] \notin F
    BY <2>2
  <2> QED
    BY <2>1, <2>2
<1>5. f \in [R \X (1..n) -> R]
  <2> HIDE DEF R, cut
  <2> QED
    BY <1>4
<1>6. PICK g : IsLoop(g, R, n, WholeGraph(G), f)
  <2> HIDE DEF f, R
  <2> QED
    BY <1>1, <1>3, <1>5, LoopExists
<1>7. \A i \in 0..n : g[i] = Turn(g, i)
  <2> SUFFICES ASSUME NEW i \in 0..n PROVE g[i] = Turn(g, i)
    OBVIOUS
  <2> HIDE DEF R
  <2>1. CASE i = 0
    BY <1>6, <2>1 DEF IsLoop
  <2>2. CASE i # 0
    <3>1. i \in 1..n /\ i - 1 \in 0..n /\ g[i - 1] \in R
      BY <1>1, <1>6, <2>2 DEF IsLoop
    <3>2. f[<<g[i - 1], i>>] = cut(g[i - 1], i)
      BY <3>1
    <3> QED
      BY <1>6, <2>2, <3>1, <3>2 DEF IsLoop
  <2> QED
    BY <2>1, <2>2
<1>8. Runs(g)
  <2>1. g \in [0..n -> R]
    BY <1>6 DEF IsLoop
  <2> HIDE DEF Turn, R
  <2> QED
    BY <1>7, <2>1
<1>9. Runs(left)
  <2> HIDE DEF Runs
  <2> QED
    BY <1>8
<1> HIDE DEF left
<1>10. \A i \in 0..n : left[i] = Turn(left, i)
  <2> HIDE DEF Turn
  <2> QED
    BY <1>9
<1> HIDE DEF Runs, R
<1> DEFINE P == {i \in 0..n : left[i] \in R}
<1>11. 0 \in P
  BY <1>1, <1>3, <1>10
<1>12. ASSUME NEW i \in 1..n, i - 1 \in P PROVE i \in P
  BY <1>1, <1>4, <1>10, <1>12
<1>13. left[n] \in R
  <2> HIDE DEF P
  <2>1. \A i \in 0..n : i \in P
    BY <1>1, <1>11, <1>12, Turns
  <2> QED
    BY <1>1, <2>1 DEF P
<1> QED
  BY <1>2, <1>13 DEF R

-------------------------------------------------------------------------------
(* The graph of the files and the plan of dvc repro.                         *)

(* What the edges that are left make a graph again.                          *)
LEMMA SuccessorsAre ==
    ASSUME NEW G, NEW K, NEW F, NEW A, Digraph(G, K), NoCycle(G, K), Reduced(G, K, F, A)
    PROVE  /\ Digraph(Successors(A, G), A.nodes) /\ NoCycle(Successors(A, G), A.nodes)
           /\ \A x \in A.nodes : \A y : Edge(Successors(A, G), x, y) <=> <<x, y>> \in A.edges
<1> DEFINE S(n) == {m \in DOMAIN G : <<n, m>> \in A.edges}
           H == Successors(A, G)
           N == A.nodes
<1>1. /\ DOMAIN G = K /\ N \in SUBSET K /\ A.edges \subseteq N \X N
      /\ \A e \in A.edges : Edge(G, e[1], e[2])
      /\ G \in [K -> Seq(K)] /\ IsFiniteSet(K)
  BY DEF Digraph, Reduced
<1>2. IsFiniteSet(N)
  BY <1>1, FS_Subset
<1>3. H = [n \in N |-> Kept(G[n], S(n))]
  BY DEF Successors
<1>4. ASSUME NEW n \in N PROVE H[n] \in Seq(N) /\ ToSet(H[n]) = {y \in N : <<n, y>> \in A.edges}
  <2> DEFINE M == S(n)
  <2>1. H[n] = Kept(G[n], M)
    BY <1>3
  <2>2. ToSet(G[n]) \cap M = {y \in N : <<n, y>> \in A.edges}
    <3>1. \A y : <<n, y>> \in A.edges => y \in N /\ Edge(G, n, y)
      BY <1>1
    <3> QED
      BY <1>1, <3>1 DEF Edge
  <2>3. G[n] \in Seq(K)
    BY <1>1
  <2> HIDE DEF M, H, N
  <2>4. ToSet(G[n]) \cap M \subseteq N
    BY <2>2
  <2>5. ToSet(H[n]) = ToSet(G[n]) \cap M /\ H[n] \in Seq(N)
    BY <2>1, <2>3, <2>4, KeptIs
  <2> QED
    BY <2>2, <2>5
<1>5. H \in [N -> Seq(N)]
  <2>1. H = [n \in N |-> H[n]]
    BY <1>3
  <2> HIDE DEF H, N
  <2> QED
    BY <1>4, <2>1
<1> HIDE DEF H, N
<1>6. \A x \in N : \A y : Edge(H, x, y) <=> <<x, y>> \in A.edges
  BY <1>1, <1>4 DEF Edge
<1>7. NoCycle(H, N)
  <2> SUFFICES ASSUME NEW S0 \in SUBSET N,
                      \A x \in S0 : \E y \in S0 : Edge(H, x, y),
                      \A y \in S0 : \E x \in S0 : Edge(H, x, y)
               PROVE  S0 = {}
    BY DEF NoCycle
  <2>1. ASSUME NEW x \in S0, NEW y \in S0, Edge(H, x, y) PROVE Edge(G, x, y)
    <3>1. <<x, y>> \in A.edges
      BY <1>6, <2>1
    <3> QED
      BY <1>1, <3>1
  <2>2. \A x \in S0 : \E y \in S0 : Edge(G, x, y)
    BY <2>1
  <2>3. \A y \in S0 : \E x \in S0 : Edge(G, x, y)
    BY <2>1
  <2> QED
    BY <1>1, <2>2, <2>3 DEF NoCycle
<1> QED
  BY <1>2, <1>5, <1>6, <1>7 DEF Digraph, H, N

(* The graph of the files.                                                   *)
LEMMA StagesAre ==
    ASSUME TypeOK
    PROVE  /\ Stages \subseteq Stage /\ KeysOf(Stages) \subseteq Paths
           /\ \A s, t \in Stages : s.key = t.key => s = t
           /\ \A s \in Stages : s.key \in KeysOf(Stages) /\ ByKey(Stages, s.key) = s
           /\ \A k \in KeysOf(Stages) : ByKey(Stages, k) \in Stages /\ ByKey(Stages, k).key = k
<1>1. Stages \subseteq Stage /\ KeysOf(Stages) \subseteq Paths
  BY DEF TypeOK, Stages, KeysOf, Stage
<1>2. \A s, t \in Stages : s.key = t.key => s = t
  BY DEF TypeOK, Stages, OneRecordEach
<1>3. \A k \in KeysOf(Stages) : ByKey(Stages, k) \in Stages /\ ByKey(Stages, k).key = k
  BY DEF KeysOf, ByKey
<1>4. \A s \in Stages : s.key \in KeysOf(Stages) /\ ByKey(Stages, s.key) = s
  BY <1>2, <1>3 DEF KeysOf
<1> QED
  BY <1>1, <1>2, <1>3, <1>4

LEMMA ListedIs ==
    ASSUME TypeOK, NEW order \in Orders
    PROVE  /\ Listed(order) \in Seq(KeysOf(Stages)) /\ ToSet(Listed(order)) = KeysOf(Stages)
           /\ IsFiniteSet(KeysOf(Stages))
<1> DEFINE K == KeysOf(Stages)
<1>1. order \in Seq(Paths) /\ Paths \subseteq ToSet(order) /\ K \subseteq Paths
  BY ListedPaths, StagesAre
<1> HIDE DEF K
<1>2. ToSet(order) \cap K = K
  BY <1>1
<1>3. Kept(order, K) \in Seq(K) /\ ToSet(Kept(order, K)) = K
  <2>1. ToSet(Kept(order, K)) = ToSet(order) \cap K
    BY <1>1, KeptIs
  <2>2. Kept(order, K) \in Seq(K)
    BY <1>1, <1>2, KeptIs
  <2> QED
    BY <1>2, <2>1, <2>2
<1>4. IsFiniteSet(ToSet(order))
  <2>1. Len(order) \in Nat /\ DOMAIN order = 1..Len(order)
    BY <1>1, LenProperties
  <2>2. IsFiniteSet(1..Len(order))
    BY <2>1, FS_Interval
  <2>3. ToSet(order) = {order[i] : i \in 1..Len(order)}
    BY <2>1 DEF ToSet
  <2> DEFINE n == Len(order)
             h == [i \in 1..n |-> order[i]]
             V == ToSet(order)
  <2>4. h \in [1..n -> V] /\ V = {h[i] : i \in 1..n} /\ IsFiniteSet(1..n)
    BY <2>2, <2>3
  <2>5. h \in Surjection(1..n, V)
    BY <2>4 DEF Surjection
  <2> HIDE DEF h, V, n
  <2>6. IsFiniteSet(V)
    BY <2>4, <2>5, FS_Surjection
  <2> QED
    BY <2>6 DEF V
<1>5. IsFiniteSet(K)
  BY <1>1, <1>2, <1>4, FS_Subset
<1> QED
  BY <1>3, <1>5 DEF Listed, K

LEMMA GraphIs ==
    ASSUME TypeOK, ValidGraph(Stages), NEW order \in Orders
    PROVE  LET G == GraphOf(Stages, Listed(order))
               K == KeysOf(Stages)
           IN  /\ Digraph(G, K) /\ NoCycle(G, K)
               /\ \A s, t \in Stages : Edge(G, s.key, t.key) <=> Depends(s, t)
<1> DEFINE K == KeysOf(Stages)
           L == Listed(order)
           G == GraphOf(Stages, L)
           S(k) == {s.key : s \in {t \in Stages : Depends(ByKey(Stages, k), t)}}
<1>1. L \in Seq(K) /\ ToSet(L) = K /\ IsFiniteSet(K)
  BY ListedIs
<1>2. G = [k \in K |-> Kept(L, S(k))]
  BY DEF GraphOf, KeysOf
<1> HIDE DEF L
<1>3. ASSUME NEW k \in K PROVE G[k] \in Seq(K) /\ ToSet(G[k]) = S(k)
  <2> DEFINE M == S(k)
  <2>1. M \subseteq K /\ G[k] = Kept(L, M)
    BY <1>2 DEF KeysOf
  <2> HIDE DEF M, G, K
  <2> QED
    BY <1>1, <2>1, KeptIs DEF M
<1>4. G \in [K -> Seq(K)]
  <2>1. G = [k \in K |-> G[k]]
    BY <1>2
  <2> HIDE DEF G, K
  <2> QED
    BY <1>3, <2>1
<1> HIDE DEF G
<1>5. \A s, t \in Stages : Edge(G, s.key, t.key) <=> Depends(s, t)
  <2> SUFFICES ASSUME NEW s \in Stages, NEW t \in Stages PROVE Edge(G, s.key, t.key) <=> Depends(s, t)
    OBVIOUS
  <2>1. s.key \in K /\ ByKey(Stages, s.key) = s
    BY StagesAre
  <2>2. ToSet(G[s.key]) = {u.key : u \in {v \in Stages : Depends(s, v)}}
    BY <1>3, <2>1
  <2>3. \A u \in Stages : u.key = t.key => u = t
    BY StagesAre
  <2> QED
    BY <2>2, <2>3 DEF Edge
<1>6. NoCycle(G, K)
  <2> SUFFICES ASSUME NEW C \in SUBSET K, \A x \in C : \E y \in C : Edge(G, x, y)
               PROVE  C = {}
    BY DEF NoCycle
  <2> DEFINE T == {s \in Stages : s.key \in C}
  <2>1. ASSUME NEW s \in T PROVE \E t \in T : Depends(s, t)
    <3>1. PICK y \in C : Edge(G, s.key, y)
      OBVIOUS
    <3>2. PICK t \in Stages : t.key = y
      BY DEF KeysOf
    <3> QED
      BY <1>5, <3>1, <3>2
  <2>2. T = {}
    <3> HIDE DEF T
    <3>1. T \in SUBSET Stages
      BY DEF T
    <3> QED
      BY <2>1, <3>1 DEF ValidGraph, Acyclic
  <2> QED
    BY <2>2 DEF KeysOf
<1> QED
  BY <1>1, <1>4, <1>5, <1>6 DEF Digraph, G, L

(* What dvc repro reads from the graph, and the edges of it.                 *)
LEMMA ActiveIs ==
    ASSUME TypeOK, ValidGraph(Stages), NEW order \in Orders
    PROVE  LET K == KeysOf(Stages)
               G == GraphOf(Stages, Listed(order))
               A == ActiveGraph(G, Listed(order), Frozen(Stages))
               H == Successors(A, G)
           IN  /\ A.nodes \in SUBSET K /\ Digraph(H, A.nodes) /\ NoCycle(H, A.nodes)
               /\ \A s, t \in Stages : s.key \in A.nodes /\ ~s.frozen /\ Depends(s, t) =>
                     t.key \in A.nodes /\ Edge(H, s.key, t.key)
               /\ \A s, t \in Stages : s.key \in A.nodes /\ Edge(H, s.key, t.key) => Depends(s, t)
               /\ Roots \subseteq RootsOf(H)
<1> DEFINE K == KeysOf(Stages)
           L == Listed(order)
           G == GraphOf(Stages, L)
           F == Frozen(Stages)
           A == ActiveGraph(G, L, F)
           H == Successors(A, G)
           N == A.nodes
<1>1. L \in Seq(K) /\ ToSet(L) = K
  BY ListedIs
<1>2. /\ Digraph(G, K) /\ NoCycle(G, K)
      /\ \A s, t \in Stages : Edge(G, s.key, t.key) <=> Depends(s, t)
  BY GraphIs
<1> HIDE DEF L, G
<1>3. Reduced(G, K, F, A)
  <2> HIDE DEF K, F, A
  <2> QED
    BY <1>1, <1>2, ActiveGraphIs DEF A
<1> HIDE DEF A
<1>4. /\ Digraph(H, N) /\ NoCycle(H, N)
      /\ \A x \in N : \A y : Edge(H, x, y) <=> <<x, y>> \in A.edges
  <2> HIDE DEF K, F
  <2> QED
    BY <1>2, <1>3, SuccessorsAre
<1>5. /\ N \in SUBSET K /\ K \ N \subseteq Below(G, K)
      /\ A.edges \subseteq N \X N
      /\ \A e \in A.edges : Edge(G, e[1], e[2])
      /\ \A x \in N \ F : \A y \in K : Edge(G, x, y) => <<x, y>> \in A.edges
  BY <1>3 DEF Reduced
<1> HIDE DEF H, N
<1>6. \A s \in Stages : s.key \in K /\ (s.key \in F <=> s.frozen)
  BY StagesAre DEF Frozen, KeysOf
<1> HIDE DEF F
<1>7. ASSUME NEW s \in Stages, NEW t \in Stages, s.key \in N, ~s.frozen, Depends(s, t)
      PROVE  t.key \in N /\ Edge(H, s.key, t.key)
  <2>1. <<s.key, t.key>> \in A.edges
    BY <1>2, <1>5, <1>6, <1>7
  <2> QED
    BY <1>4, <1>5, <1>7, <2>1
<1>8. ASSUME NEW s \in Stages, NEW t \in Stages, s.key \in N, Edge(H, s.key, t.key)
      PROVE  Depends(s, t)
  <2>1. <<s.key, t.key>> \in A.edges
    BY <1>4, <1>8
  <2> QED
    BY <1>2, <1>5, <2>1
<1>9. \A k \in K : \E s \in Stages : s.key = k
  BY DEF KeysOf
<1>10. ASSUME NEW r \in Roots PROVE r \in RootsOf(H)
  <2>1. PICK x \in Stages : x.key = r /\ \A y \in Stages : ~Depends(y, x)
    BY DEF Roots
  <2>2. r \in N
    <3>1. r \in K /\ ~\E z \in K : Edge(G, z, r)
      BY <1>2, <1>6, <1>9, <2>1
    <3> QED
      BY <1>5, <3>1 DEF Below
  <2>3. ASSUME NEW z \in N PROVE ~Edge(H, z, r)
    <3>1. PICK y \in Stages : y.key = z
      BY <1>5, <1>9
    <3> QED
      BY <1>8, <2>1, <3>1
  <2>4. DOMAIN H = N
    BY <1>4 DEF Digraph
  <2> QED
    BY <2>2, <2>3, <2>4 DEF RootsOf, Edge
<1> QED
  BY <1>4, <1>5, <1>7, <1>8, <1>10 DEF H, N, A, F, G, L

PlanOrdered(work) ==
    \A i, j \in DOMAIN work : i < j => work[i].frozen \/ ~Depends(work[i], work[j])

Wanted(target, downstream) ==
    LET targets == IF target = All THEN Roots ELSE {target}
    IN  IF downstream
        THEN {n \in Needed(Roots) : targets \cap Needed({n}) # {}}
        ELSE Needed(targets)

LEMMA PlanFound ==
    ASSUME TypeOK, ValidGraph(Stages), NEW order \in Orders,
           NEW target \in KeysOf(Stages) \cup {All}, NEW downstream \in BOOLEAN,
           Work(order, target, downstream) # <<>>
    PROVE  /\ Work(order, target, downstream) \in Seq(Stages)
           /\ PlanOrdered(Work(order, target, downstream))
           /\ Wanted(target, downstream) \subseteq KeysOf(ToSet(Work(order, target, downstream)))
<1> DEFINE K == KeysOf(Stages)
           L == Listed(order)
           G == GraphOf(Stages, L)
           A == ActiveGraph(G, L, Frozen(Stages))
           H == Successors(A, G)
           N == A.nodes
           targets == IF target = All THEN Kept(L, RootsOf(H)) ELSE <<target>>
           plan == Plan(L, target, downstream)
           work == Work(order, target, downstream)
           goals == IF target = All THEN Roots ELSE {target}
           B == Follows(H, L, downstream)
<1>1. L \in Seq(K) /\ ToSet(L) = K
  BY ListedIs
<1>2. /\ N \in SUBSET K /\ Digraph(H, N) /\ NoCycle(H, N)
      /\ \A s, t \in Stages : s.key \in N /\ ~s.frozen /\ Depends(s, t) =>
            t.key \in N /\ Edge(H, s.key, t.key)
      /\ \A s, t \in Stages : s.key \in N /\ Edge(H, s.key, t.key) => Depends(s, t)
      /\ Roots \subseteq RootsOf(H)
  BY ActiveIs
<1>3. /\ plan = IF A.failed \/ ~(ToSet(targets) \subseteq N) THEN <<>>
                ELSE GetPipeline(H, L, targets, downstream)
      /\ work = [i \in DOMAIN plan |-> ByKey(Stages, plan[i])]
  BY DEF Plan, Work
<1> HIDE DEF L, G, A, H, plan
<1>4. ToSet(targets) \subseteq N /\ plan = GetPipeline(H, L, targets, downstream)
  <2>1. plan # <<>>
    <3> SUFFICES ASSUME plan = <<>> PROVE FALSE
      OBVIOUS
    <3>1. work = [i \in {} |-> ByKey(Stages, plan[i])]
      BY <1>3
    <3>2. work = <<>>
      BY <3>1
    <3> QED
      BY <3>2
  <2> QED
    BY <1>3, <2>1
<1> HIDE DEF work, N
<1>5. DOMAIN H = N /\ RootsOf(H) \subseteq N
  BY <1>2 DEF Digraph, RootsOf
<1>6. /\ targets \in Seq(N) /\ goals \subseteq ToSet(targets)
      /\ Len(targets) <= 1 \/ ToSet(targets) \subseteq RootsOf(H)
  <2>1. CASE target = All
    <3>1. ToSet(L) \cap RootsOf(H) = RootsOf(H)
      BY <1>1, <1>2, <1>5
    <3>2. targets \in Seq(N) /\ ToSet(targets) = RootsOf(H)
      <4>1. ToSet(L) \cap RootsOf(H) \subseteq N
        BY <1>5
      <4>2. targets = Kept(L, RootsOf(H))
        BY <2>1
      <4> HIDE DEF targets, K
      <4> QED
        BY <1>1, <3>1, <4>1, <4>2, KeptIs
    <3> QED
      BY <1>2, <2>1, <3>2
  <2>2. CASE target # All
    <3>1. targets = <<target>> /\ goals = {target} /\ ToSet(<<target>>) = {target}
      BY <2>2 DEF ToSet
    <3>2. target \in N
      BY <1>4, <3>1
    <3>3. <<target>> \in Seq(N) /\ Len(<<target>>) = 1
      BY <3>2
    <3> HIDE DEF targets, goals
    <3> QED
      BY <3>1, <3>3
  <2> QED
    BY <2>1, <2>2
<1> HIDE DEF targets, goals
<1>7. /\ plan \in Seq(N) /\ NoForward(H, plan) /\ Downward(B, ToSet(plan))
      /\ goals \subseteq ToSet(plan)
  <2>1. N \subseteq ToSet(L)
    BY <1>1, <1>2
  <2>2. Planned(H, B, N, GetPipeline(H, L, targets, downstream))
    <3>1. /\ Digraph(H, N) /\ NoCycle(H, N) /\ L \in Seq(K) /\ targets \in Seq(N)
          /\ downstream => Len(targets) <= 1 \/ ToSet(targets) \subseteq RootsOf(H)
      BY <1>1, <1>2, <1>6
    <3> HIDE DEF K, B
    <3>2. Planned(H, Follows(H, L, downstream), N, GetPipeline(H, L, targets, downstream))
      BY <2>1, <3>1, GetPipelineIs
    <3> QED
      BY <3>2 DEF B
  <2>3. ToSet(targets) \subseteq ToSet(GetPipeline(H, L, targets, downstream))
    <3> HIDE DEF K
    <3> QED
      BY <1>1, <1>2, <1>6, <2>1, GetPipelineIs
  <2> QED
    BY <1>4, <1>6, <2>2, <2>3 DEF Planned
<1>8. /\ DOMAIN plan = 1..Len(plan) /\ Len(plan) \in Nat /\ DOMAIN work = DOMAIN plan
      /\ \A i \in DOMAIN plan : plan[i] \in N /\ plan[i] \in K
                                /\ work[i] = ByKey(Stages, plan[i])
      /\ \A i \in DOMAIN plan : work[i] \in Stages /\ work[i].key = plan[i]
  <2>1. DOMAIN plan = 1..Len(plan) /\ Len(plan) \in Nat
    BY <1>7, LenProperties
  <2>2. \A i \in DOMAIN plan : plan[i] \in N /\ plan[i] \in K
    BY <1>2, <1>7, <2>1, ElementOfSeq
  <2>3. DOMAIN work = DOMAIN plan /\ \A i \in DOMAIN plan : work[i] = ByKey(Stages, plan[i])
    BY <1>3
  <2> QED
    BY <2>1, <2>2, <2>3, StagesAre
<1>9. work \in Seq(Stages)
  <2> DEFINE n == Len(plan)
  <2>1. n \in Nat /\ work = [i \in 1..n |-> work[i]] /\ \A i \in 1..n : work[i] \in Stages
    BY <1>3, <1>8
  <2> HIDE DEF n
  <2> QED
    BY <2>1
<1>10. PlanOrdered(work)
  <2> SUFFICES ASSUME NEW i \in DOMAIN work, NEW j \in DOMAIN work, i < j,
                      ~work[i].frozen, Depends(work[i], work[j])
               PROVE  FALSE
    BY DEF PlanOrdered
  <2>1. Edge(H, plan[i], plan[j])
    BY <1>2, <1>8
  <2> QED
    BY <1>7, <1>8, <2>1 DEF NoForward
<1>11. KeysOf(ToSet(work)) = ToSet(plan)
  BY <1>8 DEF KeysOf, ToSet
<1>12. ToSet(plan) \subseteq N
  BY <1>8 DEF ToSet
<1>13. Wanted(target, downstream) \subseteq ToSet(plan)
  <2> DEFINE U == ToSet(plan)
  <2>1. Wanted(target, downstream) =
          IF downstream THEN {n \in Needed(Roots) : goals \cap Needed({n}) # {}} ELSE Needed(goals)
    BY DEF Wanted, goals
  <2>2. ASSUME NEW roots, NEW C \in SUBSET K, roots \subseteq C, Closed(C)
        PROVE  Needed(roots) \subseteq C
    BY <2>2 DEF Needed
  <2>3. CASE ~downstream
    <3>1. Closed(U)
      <4>1. Downward(H, U)
        BY <1>7, <2>3 DEF Follows
      <4> QED
        BY <1>2, <1>12, <4>1 DEF Closed, Downward
    <3>2. U \in SUBSET K /\ goals \subseteq U
      BY <1>2, <1>7, <1>12
    <3> HIDE DEF U
    <3> QED
      BY <2>1, <2>2, <2>3, <3>1, <3>2 DEF U
  <2>4. CASE downstream
    <3>1. B = Reversed(H, L)
      BY <2>4 DEF Follows
    <3>2. \A x, y \in N : Edge(B, x, y) <=> Edge(H, y, x)
      <4>1. N \subseteq ToSet(L)
        BY <1>1, <1>2
      <4> HIDE DEF K
      <4> QED
        BY <1>1, <1>2, <3>1, <4>1, ReversedIs
    <3>3. Needed(Roots) \subseteq N
      <4>1. Closed(N)
        BY <1>2 DEF Closed
      <4>2. Roots \subseteq N
        BY <1>2, <1>5
      <4> QED
        BY <1>2, <2>2, <4>1, <4>2
    <3>4. ASSUME NEW n \in Needed(Roots), n \notin U PROVE goals \cap Needed({n}) = {}
      <4> DEFINE C == N \ U
      <4>1. ASSUME NEW s \in Stages, NEW t \in Stages, s.key \in C, ~s.frozen, Depends(s, t)
            PROVE  t.key \in C
        <5>1. s.key \in N /\ s.key \notin U
          BY <4>1
        <5>2. t.key \in N /\ Edge(H, s.key, t.key)
          BY <1>2, <4>1, <5>1
        <5>3. Edge(B, t.key, s.key)
          BY <3>2, <5>1, <5>2
        <5>4. t.key \notin U
          BY <1>7, <5>1, <5>3 DEF Downward
        <5> QED
          BY <5>2, <5>4
      <4>2. Closed(C)
        BY <4>1 DEF Closed
      <4>3. C \in SUBSET K /\ {n} \subseteq C
        BY <1>2, <3>3, <3>4
      <4>4. Needed({n}) \subseteq C
        <5> HIDE DEF C
        <5> QED
          BY <2>2, <4>2, <4>3
      <4> QED
        BY <1>7, <4>4
    <3> HIDE DEF U
    <3> QED
      BY <2>1, <2>4, <3>4 DEF U
  <2> QED
    BY <2>3, <2>4
<1> QED
  BY <1>9, <1>10, <1>11, <1>13 DEF work

-------------------------------------------------------------------------------
(* Sequences of what is in hand.                                             *)

LEMMA FirstAndRest ==
    ASSUME NEW S, NEW w \in Seq(S), w # <<>>
    PROVE  /\ Head(w) \in S /\ Head(w) = w[1] /\ 1 \in DOMAIN w
           /\ Tail(w) \in Seq(S)
           /\ \A i \in DOMAIN Tail(w) : i + 1 \in DOMAIN w /\ Tail(w)[i] = w[i + 1]
<1>1. Len(w) \in Nat /\ Len(w) > 0
  BY EmptySeq
<1>2. Tail(w) \in Seq(S) /\ Len(Tail(w)) = Len(w) - 1
  BY HeadTailProperties
<1> QED
  BY <1>1, <1>2, HeadTailProperties

LEMMA LongerHasRest ==
    ASSUME NEW S, NEW w \in Seq(S), Len(w) > 1
    PROVE  Tail(w) # <<>>
<1>1. Len(w) \in Nat /\ w # <<>>
  BY LenProperties
<1>2. Tail(w) \in Seq(S) /\ Len(Tail(w)) = Len(w) - 1
  BY <1>1, HeadTailProperties
<1>3. Len(Tail(w)) # 0
  BY <1>1, <1>2
<1>4. Len(<<>>) = 0
  BY EmptySeq
<1> QED
  BY <1>3, <1>4, Zenon

LEMMA RestOfSet ==
    ASSUME NEW S, NEW w \in Seq(S), w # <<>>
    PROVE  Head(w) \in ToSet(w) /\ ToSet(Tail(w)) \subseteq ToSet(w)
BY FirstAndRest DEF ToSet

LEMMA OneStage ==
    ASSUME NEW s \in Stage
    PROVE  /\ <<s>> \in Seq(Stage) /\ Head(<<s>>) = s /\ Tail(<<s>>) = <<>> /\ <<s>> # <<>>
           /\ ToSet(<<s>>) = {s}
           /\ \A i \in DOMAIN <<s>> : <<s>>[i] = s
BY DEF ToSet

(* The stages that are data.                                                 *)
LEMMA DataStages ==
    ASSUME NEW path \in Targets \cup Imports \cup MoveTo, NEW frozen \in BOOLEAN
    PROVE  /\ Record(path, {}, {path}, frozen) \in Stage
           /\ Record(path, {}, {path}, frozen).key = path
           /\ Record(path, {}, {path}, frozen).outs = {path}
           /\ path \in Paths /\ ~PipelineKey(path)
BY DataPaths DEF Record, Stage, Paths

LEMMA EntryOf ==
    ASSUME NEW s \in Stage
    PROVE  LockEntry(s) \in Entry /\ LockEntry(s).key = s.key /\ LockEntry(s).outs = s.outs
BY DEF LockEntry, Stage, Entry

(* What dump and remove_stage do to the records of a file.                   *)
LEMMA PutKeepsOne ==
    ASSUME NEW records, OneRecordEach(records), NEW s
    PROVE  OneRecordEach(PutRecord(records, s))
BY DEF OneRecordEach, PutRecord

LEMMA FewerKeepOne ==
    ASSUME NEW records, OneRecordEach(records), NEW fewer \in SUBSET records
    PROVE  OneRecordEach(fewer)
BY DEF OneRecordEach

LEMMA DropIsFewer ==
    ASSUME NEW records, NEW keys
    PROVE  Drop(records, keys) \subseteq records
BY DEF Drop

(* What one process does leaves to the others what they do.                  *)
Same(q) == \E b \in BOOLEAN : op'[q] = [op[q] EXCEPT !.overtaken = b]
Unmoved(q) == Active(q) /\ ~op'[q].overtaken => ~op[q].overtaken /\ yaml' = yaml /\ dvc' = dvc
Turn(p, new) ==
    /\ op' \in [Proc -> Operation]
    /\ op'[p] = new
    /\ \A q \in Proc \ {p} : Same(q) /\ Unmoved(q)
    /\ Recall

LEMMA OvertakenOnly ==
    ASSUME NEW o \in Operation, NEW b \in BOOLEAN
    PROVE  [o EXCEPT !.overtaken = b] \in Operation
BY DEF Operation

LEMMA BecomeTurns ==
    ASSUME TypeOK, NEW p \in Proc, NEW new \in Operation, Become(p, new)
    PROVE  Turn(p, new)
<1> DEFINE late(q) == op[q].overtaken \/ (Active(q) /\ <<yaml', dvc'>> # <<yaml, dvc>>)
<1>1. op' = [q \in Proc |-> IF q = p THEN new ELSE [op[q] EXCEPT !.overtaken = late(q)]]
      /\ Recall
  BY DEF Become
<1>2. \A q \in Proc : late(q) \in BOOLEAN
  BY DEF TypeOK, Operation
<1>3. \A q \in Proc : op[q] \in Operation
  BY DEF TypeOK
<1>4. \A q \in Proc : Active(q) /\ ~late(q) => ~op[q].overtaken /\ yaml' = yaml /\ dvc' = dvc
  OBVIOUS
<1> HIDE DEF late
<1>5. \A q \in Proc \ {p} : op'[q] = [op[q] EXCEPT !.overtaken = late(q)] /\ op'[q].overtaken = late(q)
  BY <1>1, <1>3 DEF Operation
<1>6. \A q \in Proc \ {p} : op'[q] \in Operation
  <2> SUFFICES ASSUME NEW q \in Proc \ {p} PROVE op'[q] \in Operation
    OBVIOUS
  <2>1. op[q] \in Operation /\ late(q) \in BOOLEAN /\ op'[q] = [op[q] EXCEPT !.overtaken = late(q)]
    BY <1>2, <1>3, <1>5
  <2> QED
    BY <2>1, OvertakenOnly
<1>7. op'[p] = new /\ op' \in [Proc -> Operation]
  BY <1>1, <1>2, <1>3, <1>5, <1>6
<1> QED
  BY <1>1, <1>2, <1>4, <1>5, <1>7 DEF Turn, Same, Unmoved

LEMMA SameKeeps ==
    ASSUME TypeOK, NEW q \in Proc, Same(q)
    PROVE  /\ op'[q].cmd = op[q].cmd /\ op'[q].pc = op[q].pc /\ op'[q].work = op[q].work
           /\ op'[q].later = op[q].later /\ op'[q].names = op[q].names
           /\ op'[q].noExec = op[q].noExec /\ op'[q].mine = op[q].mine
<1>1. PICK b \in BOOLEAN : op'[q] = [op[q] EXCEPT !.overtaken = b]
  BY DEF Same
<1>2. op[q] \in Operation
  BY DEF TypeOK
<1> QED
  BY <1>1, <1>2 DEF Operation

(* What has to be shown of a step for Base to be kept.                       *)
Turned(p) ==
    /\ Turn(p, op'[p])
    /\ InHand(op'[p]) /\ InFile(op'[p])
    /\ Holds(op'[p]) => holder' = p
    /\ holder \in {p, "none"} \/ holder' = holder

FilesTyped ==
    /\ yaml \subseteq Stage /\ dvc \subseteq Stage /\ lock \subseteq Entry
    /\ \A s \in yaml : PipelineKey(s.key)
    /\ \A s \in dvc : ~PipelineKey(s.key)
    /\ OneRecordEach(yaml) /\ OneRecordEach(dvc) /\ OneRecordEach(lock)
    /\ ignored \subseteq Paths /\ exposed \subseteq Paths
    /\ broken \subseteq Paths \cup {YamlFile, LockFile}
    /\ holder \in Proc \cup {"none"}
    /\ torn \in BOOLEAN

(* What the command of p has put into .gitignore: nothing, or also something *)
(* that was not there.                                                       *)
Claims(p) ==
    \/ op'[p].mine = {}
    \/ /\ Active(p) /\ op'[p].cmd = op[p].cmd
       /\ op'[p].mine \subseteq op[p].mine \cup (Paths \ ignored)

LEMMA MemoryKept ==
    ASSUME Base, NEW p \in Proc, Turned(p), Claims(p)
    PROVE  \A q \in Proc : Remembers(q)'
<1> SUFFICES ASSUME NEW q \in Proc PROVE Remembers(q)'
  OBVIOUS
<1>1. found'[q] = IF op'[q].cmd \in {"idle", "ended"} THEN {}
                  ELSE (IF Active(q) THEN found[q] ELSE ignored) \cap ignored'
  BY DEF Turned, Turn, Recall
<1>2. found[q] \subseteq ignored /\ op[q].mine \cap found[q] = {} /\ (~Active(q) => op[q].mine = {})
  BY DEF Base, Remembers
<1>3. \/ op'[q].mine = {}
      \/ /\ Active(q) /\ op'[q].cmd = op[q].cmd
         /\ op'[q].mine \subseteq op[q].mine \cup (Paths \ ignored)
  <2>1. CASE q = p
    BY <2>1 DEF Claims
  <2>2. CASE q # p
    <3>1. op'[q].cmd = op[q].cmd /\ op'[q].mine = op[q].mine
      BY <2>2, SameKeeps DEF Turned, Turn, Base
    <3> QED
      BY <1>2, <3>1
  <2> QED
    BY <2>1, <2>2
<1> QED
  BY <1>1, <1>2, <1>3 DEF Remembers, Active

LEMMA BaseKept ==
    ASSUME Base, NEW p \in Proc, Turned(p), FilesTyped', Claims(p)
    PROVE  Base'
<1>1. op' \in [Proc -> Operation] /\ \A q \in Proc \ {p} : Same(q)
  BY DEF Turned, Turn
<1>2. found' \in [Proc -> SUBSET Paths]
  <2>1. \A q \in Proc : found[q] \subseteq Paths /\ ignored \subseteq Paths
    BY DEF Base, TypeOK
  <2> QED
    BY <2>1 DEF Turned, Turn, Recall
<1>20. TypeOK'
  BY <1>1, <1>2 DEF FilesTyped, TypeOK
<1>3. \A q \in Proc : InHand(op'[q]) /\ InFile(op'[q])
  <2> SUFFICES ASSUME NEW q \in Proc PROVE InHand(op'[q]) /\ InFile(op'[q])
    OBVIOUS
  <2>1. CASE q = p
    BY <2>1 DEF Turned
  <2>2. CASE q # p
    BY <1>1, <2>2, SameKeeps DEF Base, InHand, InFile
  <2> QED
    BY <2>1, <2>2
<1>4. \A q \in Proc : Holds(op'[q]) => holder' = q
  <2> SUFFICES ASSUME NEW q \in Proc, q # p, Holds(op'[q]) PROVE holder' = q
    BY DEF Turned
  <2>1. Holds(op[q])
    BY <1>1, SameKeeps DEF Base, Holds
  <2> QED
    BY <2>1, ProcessNames DEF Base, Held, Turned
<1> QED
  BY <1>20, <1>3, <1>4, MemoryKept DEF Base, Held

(* The ends of a command, and its next stage.                                *)
LEMMA NoOpIs ==
    NoOp \in Operation /\ NoOp.pc = "none" /\ NoOp.cmd = "idle" /\ NoOp.work = <<>>
    /\ NoOp.later = <<>> /\ NoOp.names = {} /\ NoOp.mine = {} /\ ~NoOp.overtaken
BY DEF NoOp, Operation, Commands, Phases

LEMMA EndedIs ==
    /\ Ended \in Operation /\ InHand(Ended) /\ InFile(Ended) /\ ~Holds(Ended)
    /\ Ended.pc = "none" /\ Ended.cmd = "ended" /\ Ended.work = <<>> /\ Ended.names = {}
    /\ Ended.mine = {}
<1>1. Ended \in Operation /\ Ended.pc = "none" /\ Ended.cmd = "ended" /\ Ended.work = <<>>
      /\ Ended.later = <<>> /\ Ended.names = {} /\ Ended.mine = {}
  BY NoOpIs DEF Ended, Operation, Commands, Phases
<1> QED
  BY <1>1 DEF InHand, InFile, PhasesOf, Holds

LEMMA EndTurns ==
    ASSUME Base, NEW p \in Proc, holder \in {p, "none"} \/ holder' = holder,
           Become(p, Ended)
    PROVE  Turned(p) /\ op'[p] = Ended
<1>1. Turn(p, Ended)
  BY EndedIs, BecomeTurns DEF Base
<1> QED
  BY <1>1, EndedIs DEF Turned, Turn

Following(p) ==
    \/ op'[p] = Ended
    \/ /\ op'[p] = [op[p] EXCEPT !.work = Tail(op[p].work),
                      !.pc = IF op[p].cmd = "repro" THEN "next" ELSE "save"]
       /\ Tail(op[p].work) # <<>>
    \/ /\ op'[p] = [op[p] EXCEPT !.work = Tail(op[p].work), !.pc = "create"]
       /\ op[p].cmd = "add"

LEMMA NextStageTurns ==
    ASSUME Base, NEW p \in Proc, holder = p, op[p].work # <<>>, NextStage(p),
           op[p].cmd \in {"run", "add", "import", "update", "remove", "move", "repro"}
    PROVE  /\ Turned(p) /\ Following(p)
           /\ holder' \in {p, "none"}
<1> DEFINE o == op[p]
           rest == Tail(o.work)
<1>1. o \in Operation /\ InHand(o) /\ InFile(o)
  BY DEF Base, TypeOK
<1>2. /\ rest \in Seq(Stage)
      /\ \A i \in DOMAIN rest : i + 1 \in DOMAIN o.work /\ rest[i] = o.work[i + 1]
  BY <1>1, FirstAndRest DEF Operation
<1> HIDE DEF rest
<1>3. CASE rest # <<>>
  <2> DEFINE new == [o EXCEPT !.work = rest, !.pc = IF o.cmd = "repro" THEN "next" ELSE "save"]
  <2>1. Become(p, new) /\ holder' = holder
    BY <1>3 DEF NextStage, rest
  <2>2. /\ new \in Operation /\ new.work = rest /\ new.cmd = o.cmd /\ new.names = o.names
        /\ new.later = o.later /\ new.pc = IF o.cmd = "repro" THEN "next" ELSE "save"
    BY <1>1, <1>2 DEF Operation, Phases
  <2> HIDE DEF new
  <2>3. o.cmd \in {"add", "move", "repro"}
    BY <1>1, <1>3 DEF InHand, rest
  <2>4. new.pc \in PhasesOf(new.cmd)
    BY <2>2, <2>3 DEF PhasesOf
  <2>5. InHand(new)
    BY <1>1, <1>2, <1>3, <2>2, <2>3, <2>4 DEF InHand
  <2>6. InFile(new)
    BY <1>1, <1>2, <2>2, <2>3 DEF InFile
  <2>7. Turn(p, new)
    BY <2>1, <2>2, BecomeTurns DEF Base
  <2> QED
    BY <1>3, <2>1, <2>5, <2>6, <2>7 DEF Turned, Turn, Following, new, rest
<1>4. CASE rest = <<>> /\ o.later # <<>>
  <2> DEFINE new == [o EXCEPT !.work = rest, !.pc = "create"]
  <2>1. Become(p, new) /\ holder' = holder
    BY <1>4 DEF NextStage, rest
  <2>2. /\ new \in Operation /\ new.work = rest /\ new.cmd = o.cmd /\ new.names = o.names
        /\ new.later = o.later /\ new.pc = "create"
    BY <1>1, <1>2 DEF Operation, Phases
  <2> HIDE DEF new
  <2>3. o.cmd = "add"
    BY <1>1, <1>4 DEF InHand
  <2>4. new.pc \in PhasesOf(new.cmd)
    BY <2>2, <2>3 DEF PhasesOf
  <2>5. InHand(new)
    BY <1>1, <1>2, <1>4, <2>2, <2>3, <2>4 DEF InHand
  <2>6. InFile(new)
    BY <1>1, <1>2, <2>2, <2>3 DEF InFile
  <2>7. Turn(p, new)
    BY <2>1, <2>2, BecomeTurns DEF Base
  <2> QED
    BY <2>1, <2>3, <2>5, <2>6, <2>7 DEF Turned, Turn, Following, new, rest
<1>5. CASE rest = <<>> /\ o.later = <<>>
  <2>1. Become(p, Ended) /\ holder' = "none"
    BY <1>5 DEF NextStage, rest
  <2> QED
    BY <2>1, EndTurns DEF Following
<1> QED
  BY <1>3, <1>4, <1>5

(* A command that goes on with the stage in hand.                            *)
LEMMA GotoTurns ==
    ASSUME Base, NEW p \in Proc, NEW pc \in Phases, Goto(p, pc),
           pc \in PhasesOf(op[p].cmd), op[p].work # <<>>,
           pc \notin {"none", "exec"} => holder' = p,
           holder \in {p, "none"} \/ holder' = holder,
           pc \in {"yaml", "lock", "droplock", "dropyaml"} => PipelineKey(Current(p).key),
           pc \in {"dvc", "dropdvc"} => ~PipelineKey(Current(p).key),
           pc \notin {"unignore", "create"}
    PROVE  Turned(p) /\ op'[p] = [op[p] EXCEPT !.pc = pc]
<1> DEFINE o == op[p]
           new == [o EXCEPT !.pc = pc]
<1>1. o \in Operation /\ InHand(o) /\ InFile(o)
  BY DEF Base, TypeOK
<1>2. /\ new \in Operation /\ new.work = o.work /\ new.cmd = o.cmd /\ new.names = o.names
      /\ new.later = o.later /\ new.pc = pc
  BY <1>1 DEF Operation
<1>3. Become(p, new)
  BY DEF Goto
<1> HIDE DEF new
<1>4. InHand(new)
  BY <1>1, <1>2 DEF InHand
<1>5. pc \in {"droplock", "dropyaml", "dropdvc"} => o.cmd = "remove"
  BY DEF PhasesOf
<1>6. InFile(new)
  BY <1>1, <1>2, <1>5 DEF InFile, Current
<1>7. Turn(p, new)
  BY <1>2, <1>3, BecomeTurns DEF Base
<1> QED
  BY <1>2, <1>4, <1>6, <1>7 DEF Turned, Turn, Holds, new

-------------------------------------------------------------------------------
(* Every step keeps Base.                                                    *)

LEMMA FilesStay ==
    ASSUME Base, UNCHANGED <<files, torn>>, ignored' \subseteq Paths, exposed' \subseteq Paths,
           holder' \in Proc \cup {"none"}
    PROVE  FilesTyped'
BY DEF Base, TypeOK, FilesTyped, files

LEMMA HandTyped ==
    ASSUME Base, NEW p \in Proc
    PROVE  /\ op[p] \in Operation /\ InHand(op[p]) /\ InFile(op[p])
           /\ op[p].mine \subseteq Paths
           /\ op[p].work # <<>> => Current(p) \in Stage /\ Current(p).outs \subseteq Paths
                                   /\ Current(p).key \in Paths
                                   /\ Current(p).key \in op[p].names
           /\ Holds(op[p]) => holder = p
<1>1. op[p] \in Operation /\ InHand(op[p]) /\ InFile(op[p])
  BY DEF Base, TypeOK
<1>2. op[p].work \in Seq(Stage) /\ op[p].mine \subseteq Paths
  BY <1>1 DEF Operation
<1>3. op[p].work # <<>> => Current(p) \in Stage /\ Current(p) = op[p].work[1]
                           /\ 1 \in DOMAIN op[p].work
  BY <1>2, FirstAndRest DEF Current
<1>4. op[p].work # <<>> => Current(p).outs \subseteq Paths /\ Current(p).key \in Paths
  BY <1>3 DEF Stage
<1> QED
  BY <1>1, <1>2, <1>3, <1>4 DEF InHand, Base, Held

LEMMA RefuseTurns ==
    ASSUME Base, NEW p \in Proc, Refuse(p)
    PROVE  Turned(p) /\ FilesTyped' /\ op'[p] = Ended
<1>1. Become(p, Ended) /\ UNCHANGED <<files, ignored, holder, torn, exposed>>
  BY DEF Refuse
<1>2. UNCHANGED <<yaml, dvc>>
  BY <1>1 DEF files
<1> QED
  BY <1>1, <1>2, EndTurns, FilesStay DEF Base, TypeOK

LEMMA CutShortIs ==
    ASSUME NEW paths, IgnoreCutShort(paths)
    PROVE  /\ ignored' \subseteq ignored /\ exposed \subseteq exposed'
           /\ exposed' \subseteq exposed \cup ignored
           /\ ignored \cup exposed \subseteq ignored' \cup exposed'
BY DEF IgnoreCutShort

LEMMA FailTurns ==
    ASSUME Base, NEW p \in Proc, Fail(p), holder \in {p, "none"}
    PROVE  /\ Turned(p) /\ op'[p] = Ended /\ holder' = "none" /\ torn' = torn
           /\ ignored' \subseteq Paths /\ exposed' \subseteq Paths
           /\ ignored \cup exposed \subseteq ignored' \cup exposed' /\ exposed \subseteq exposed'
<1>1. op[p].mine \subseteq Paths /\ ignored \subseteq Paths /\ exposed \subseteq Paths
  BY HandTyped DEF Base, TypeOK
<1>2. TakenBack(p) \subseteq Paths /\ TakenBack(p) \cap found[p] = {}
  BY <1>1 DEF TakenBack, Base, Remembers
<1>3. Become(p, Ended) /\ holder' = "none" /\ torn' = torn
  BY DEF Fail
<1>4. Turned(p) /\ op'[p] = Ended
  BY <1>3, EndTurns
<1>5. CASE IgnoreCutShort(TakenBack(p))
  BY <1>1, <1>3, <1>4, <1>5, CutShortIs
<1>6. CASE /\ ignored' = ignored \ TakenBack(p)
           /\ exposed' = exposed \cup (TakenBack(p) \ found[p])
  BY <1>1, <1>2, <1>3, <1>4, <1>6
<1> QED
  BY <1>5, <1>6 DEF Fail

(* A command that starts with one stage in hand.                             *)
LEMMA StartTurns ==
    ASSUME Base, NEW p \in Proc, holder = "none", NEW new \in Operation,
           InHand(new), InFile(new), Holds(new) => holder' = p,
           Become(p, new)
    PROVE  Turned(p) /\ op'[p] = new
<1>1. Turn(p, new)
  BY BecomeTurns DEF Base
<1> QED
  BY <1>1 DEF Turned, Turn

LEMMA RunTurns ==
    ASSUME Base, NEW p \in Proc, Run(p)
    PROVE  /\ Turned(p) /\ FilesTyped' /\ UNCHANGED <<files, ignored, torn, exposed>>
           /\ \/ op'[p] = Ended
              \/ \E d \in RunDefs, force \in BOOLEAN :
                    /\ force \/ d.key \notin KeysOf(Stages)
                    /\ ValidGraph(WithNewStage(Stages, d, force))
                    /\ op'[p].work = <<d>> /\ op'[p].cmd = "run" /\ op'[p].pc \in {"exec", "save"}
<1>1. holder = "none"
  BY DEF Run, Start
<1>2. CASE Refuse(p)
  BY <1>2, RefuseTurns DEF Refuse
<1>3. CASE ~Refuse(p)
  <2>1. PICK d \in RunDefs, force \in BOOLEAN, noExec \in BOOLEAN :
           /\ force \/ d.key \notin KeysOf(Stages)
           /\ ValidGraph(WithNewStage(Stages, d, force))
           /\ Become(p, [NoOp EXCEPT !.cmd = "run", !.work = <<d>>,
                        !.names = {d.key}, !.noExec = noExec,
                        !.pc = IF noExec THEN "save" ELSE "exec"])
           /\ holder' = IF noExec THEN p ELSE "none"
           /\ UNCHANGED <<files, ignored, torn, exposed>>
    BY <1>3 DEF Run, RunAccepted
  <2> DEFINE new == [NoOp EXCEPT !.cmd = "run", !.work = <<d>>, !.names = {d.key},
                       !.noExec = noExec, !.pc = IF noExec THEN "save" ELSE "exec"]
  <2>2. d \in Stage /\ d.key \in Paths
    BY GivenStages DEF Given, Stage
  <2>3. /\ new \in Operation /\ new.cmd = "run" /\ new.work = <<d>> /\ new.names = {d.key}
        /\ new.later = <<>> /\ new.pc = IF noExec THEN "save" ELSE "exec"
    BY <2>2, OneStage, NoOpIs DEF Operation, Commands, Phases
  <2>4. Become(p, new)
    BY <2>1
  <2> HIDE DEF new
  <2>5. InHand(new) /\ InFile(new)
    BY <2>2, <2>3, OneStage DEF InHand, InFile, PhasesOf
  <2>6. Holds(new) => holder' = p
    BY <2>1, <2>3 DEF Holds
  <2>7. Turned(p) /\ op'[p] = new
    BY <1>1, <2>1, <2>3, <2>4, <2>5, <2>6, StartTurns DEF files
  <2> QED
    BY <2>1, <2>3, <2>7, FilesStay DEF Base, TypeOK
<1> QED
  BY <1>2, <1>3

LEMMA ExecTurns ==
    ASSUME Base, NEW p \in Proc, ExecOk(p) \/ ExecFails(p)
    PROVE  /\ Turned(p) /\ FilesTyped'
           /\ ExecOk(p) => op'[p] = [op[p] EXCEPT !.pc = "save"]
<1>1. op[p].work # <<>> /\ op[p].cmd \in {"run", "repro"}
  BY HandTyped DEF ExecOk, ExecFails, InHand, PhasesOf
<1>2. CASE ExecOk(p)
  <2>1. Goto(p, "save") /\ holder' = p /\ holder = "none"
    BY <1>2 DEF ExecOk
  <2>2. "save" \in Phases /\ "save" \in PhasesOf(op[p].cmd)
    BY <1>1 DEF Phases, PhasesOf
  <2>3. Turned(p) /\ op'[p] = [op[p] EXCEPT !.pc = "save"]
    BY <1>1, <2>1, <2>2, GotoTurns
  <2> QED
    BY <1>2, <2>1, <2>3, FilesStay DEF ExecOk, Base, TypeOK
<1>3. CASE ExecFails(p)
  <2>1. holder = "none" /\ Fail(p) /\ UNCHANGED files /\ op[p].pc = "exec"
    BY <1>3 DEF ExecFails
  <2>2. ~ExecOk(p)
    BY <2>1, ProcessNames DEF ExecOk, Fail
  <2> QED
    BY <2>1, <2>2, FailTurns, FilesStay DEF Base, TypeOK
<1> QED
  BY <1>2, <1>3

LEMMA SaveTurns ==
    ASSUME Base, NEW p \in Proc, Save(p)
    PROVE  /\ Turned(p) /\ FilesTyped' /\ holder = p
           /\ op'[p] = [op[p] EXCEPT !.pc = FirstDump(p),
                          !.mine = @ \cup (Current(p).outs \ ignored)]
           /\ op[p].work # <<>>
           /\ FirstDump(p) \in {"dvc", "yaml", "lock"}
<1> DEFINE o == op[p]
           new == [o EXCEPT !.pc = FirstDump(p), !.mine = @ \cup (Current(p).outs \ ignored)]
<1>1. o.pc = "save" /\ UNCHANGED <<files, holder, torn>>
      /\ ignored' = ignored \cup Current(p).outs /\ exposed' = exposed \ Current(p).outs
  BY DEF Save
<1>2. o \in Operation /\ InHand(o) /\ InFile(o) /\ holder = p /\ o.work # <<>>
      /\ Current(p).outs \subseteq Paths /\ o.mine \subseteq Paths
  BY <1>1, HandTyped DEF Holds, InHand
<1>3. FirstDump(p) \in {"dvc", "yaml", "lock"} /\ FirstDump(p) \in Phases
  BY DEF FirstDump, Phases
<1>4. /\ new \in Operation /\ new.work = o.work /\ new.cmd = o.cmd /\ new.names = o.names
      /\ new.later = o.later /\ new.pc = FirstDump(p)
  BY <1>2, <1>3 DEF Operation
<1>5. Become(p, new)
  BY DEF Save
<1> HIDE DEF new
<1>6. o.cmd \in {"run", "add", "import", "update", "repro", "move"}
  BY <1>1, <1>2 DEF InHand, PhasesOf, Operation, Commands
<1>7. /\ FirstDump(p) = "dvc" => ~PipelineKey(Current(p).key)
      /\ FirstDump(p) # "dvc" => PipelineKey(Current(p).key)
      /\ FirstDump(p) = "yaml" => o.cmd = "run"
      /\ FirstDump(p) = "lock" => o.cmd # "run"
  BY DEF FirstDump
<1>8. PipelineKey(Current(p).key) => o.cmd \in {"run", "repro"}
  <2>1. o.work \in Seq(Stage)
    BY <1>2 DEF Operation
  <2>2. Current(p) = o.work[1] /\ 1 \in DOMAIN o.work
    BY <1>2, <2>1, FirstAndRest DEF Current
  <2> QED
    BY <1>2, <1>6, <2>2 DEF InFile
<1>9. new.pc \in PhasesOf(new.cmd)
  BY <1>3, <1>4, <1>6, <1>7, <1>8 DEF PhasesOf
<1>10. InHand(new)
  BY <1>2, <1>3, <1>4, <1>9 DEF InHand
<1>11. InFile(new)
  BY <1>2, <1>3, <1>4, <1>7 DEF InFile, Current
<1>12. Turned(p) /\ op'[p] = new
  <2>1. Turn(p, new)
    BY <1>4, <1>5, BecomeTurns DEF Base
  <2> QED
    BY <1>1, <1>2, <1>10, <1>11, <2>1 DEF Turned, Turn
<1>13. FilesTyped'
  <2>1. ignored' \subseteq Paths /\ exposed' \subseteq Paths /\ holder' \in Proc \cup {"none"}
    BY <1>1, <1>2 DEF Base, TypeOK
  <2> QED
    BY <1>1, <2>1, FilesStay
<1> QED
  BY <1>2, <1>3, <1>12, <1>13 DEF new

(* A dump: what is written, and that the command goes on.                    *)
LEMMA DumpYamlTurns ==
    ASSUME Base, NEW p \in Proc, DumpYaml(p)
    PROVE  /\ Turned(p) /\ FilesTyped' /\ holder = p /\ op[p].cmd = "run"
           /\ op[p].work # <<>> /\ Current(p) \in Stage /\ PipelineKey(Current(p).key)
           /\ yaml' = PutRecord(yaml, Current(p)) /\ UNCHANGED <<lock, dvc, ignored, torn, exposed>>
           /\ \/ op'[p] = [op[p] EXCEPT !.pc = "lock"]
              \/ Following(p)
<1>1. op[p].pc = "yaml" /\ yaml' = PutRecord(yaml, Current(p))
      /\ UNCHANGED <<lock, dvc, broken, ignored, torn, exposed>>
  BY DEF DumpYaml, Modified
<1>2. /\ op[p].work # <<>> /\ op[p].cmd = "run" /\ holder = p /\ PipelineKey(Current(p).key)
      /\ Current(p) \in Stage
  BY <1>1, HandTyped DEF InHand, InFile, Current, PhasesOf, Holds
<1>3. /\ Turned(p) /\ holder' \in {p, "none"}
      /\ op'[p] = [op[p] EXCEPT !.pc = "lock"] \/ Following(p)
  <2>1. CASE ~op[p].noExec
    <3>1. Goto(p, "lock") /\ holder' = holder
      BY <1>2, <2>1 DEF DumpYaml
    <3>2. "lock" \in Phases /\ "lock" \in PhasesOf(op[p].cmd)
      BY <1>2 DEF Phases, PhasesOf
    <3> QED
      BY <1>2, <3>1, <3>2, GotoTurns
  <2>2. CASE op[p].noExec
    <3>1. NextStage(p)
      BY <2>2 DEF DumpYaml
    <3> QED
      BY <1>2, <3>1, NextStageTurns
  <2> QED
    BY <2>1, <2>2
<1>4. FilesTyped'
  <2>1. OneRecordEach(yaml')
    BY <1>1, PutKeepsOne DEF Base, TypeOK
  <2>2. yaml' \subseteq Stage /\ \A s \in yaml' : PipelineKey(s.key)
    BY <1>1, <1>2 DEF Base, TypeOK, PutRecord
  <2>3. holder' \in Proc \cup {"none"}
    BY <1>3
  <2> QED
    BY <1>1, <2>1, <2>2, <2>3 DEF Base, TypeOK, FilesTyped
<1> QED
  BY <1>1, <1>2, <1>3, <1>4

LEMMA DumpLockTurns ==
    ASSUME Base, NEW p \in Proc, DumpLock(p)
    PROVE  /\ Turned(p) /\ FilesTyped' /\ holder = p /\ op[p].cmd \in {"run", "repro"}
           /\ op[p].work # <<>> /\ Current(p) \in Stage /\ PipelineKey(Current(p).key)
           /\ lock' = PutRecord(lock, LockEntry(Current(p)))
           /\ UNCHANGED <<yaml, dvc, ignored, torn, exposed>>
           /\ Following(p)
<1>1. op[p].pc = "lock" /\ lock' = PutRecord(lock, LockEntry(Current(p)))
      /\ UNCHANGED <<yaml, dvc, broken, ignored, torn, exposed>> /\ NextStage(p)
  BY DEF DumpLock
<1>2. op[p].work # <<>> /\ holder = p /\ PipelineKey(Current(p).key) /\ Current(p) \in Stage
      /\ op[p].cmd \in Commands /\ InHand(op[p])
  BY <1>1, HandTyped DEF InHand, InFile, Current, Holds, Operation
<1>3. op[p].cmd \in {"run", "repro"}
  BY <1>1, <1>2 DEF InHand, PhasesOf, Commands
<1>4. Turned(p) /\ holder' \in {p, "none"} /\ Following(p)
  BY <1>1, <1>2, <1>3, NextStageTurns
<1>5. FilesTyped'
  <2>1. OneRecordEach(lock')
    BY <1>1, PutKeepsOne DEF Base, TypeOK
  <2>2. lock' \subseteq Entry
    BY <1>1, <1>2, EntryOf DEF Base, TypeOK, PutRecord
  <2>3. holder' \in Proc \cup {"none"}
    BY <1>4
  <2> QED
    BY <1>1, <2>1, <2>2, <2>3 DEF Base, TypeOK, FilesTyped
<1> QED
  BY <1>1, <1>2, <1>3, <1>4, <1>5

LEMMA DumpDvcTurns ==
    ASSUME Base, NEW p \in Proc, DumpDvc(p)
    PROVE  /\ Turned(p) /\ FilesTyped' /\ holder = p
           /\ op[p].work # <<>> /\ Current(p) \in Stage /\ ~PipelineKey(Current(p).key)
           /\ dvc' = PutRecord(dvc, Current(p)) /\ UNCHANGED <<yaml, lock, ignored, torn, exposed>>
           /\ Following(p)
<1>1. op[p].pc = "dvc" /\ dvc' = PutRecord(dvc, Current(p)) /\ broken' \subseteq broken
      /\ UNCHANGED <<yaml, lock, ignored, torn, exposed>> /\ NextStage(p)
  BY DEF DumpDvc
<1>2. op[p].work # <<>> /\ holder = p /\ ~PipelineKey(Current(p).key) /\ Current(p) \in Stage
      /\ op[p].cmd \in Commands /\ InHand(op[p])
  BY <1>1, HandTyped DEF InHand, InFile, Current, Holds, Operation
<1>3. op[p].cmd \in {"run", "add", "import", "update", "move", "repro"}
  BY <1>1, <1>2 DEF InHand, PhasesOf, Commands
<1>4. Turned(p) /\ holder' \in {p, "none"} /\ Following(p)
  BY <1>1, <1>2, <1>3, NextStageTurns
<1>5. FilesTyped'
  <2>1. OneRecordEach(dvc')
    BY <1>1, PutKeepsOne DEF Base, TypeOK
  <2>2. dvc' \subseteq Stage /\ \A s \in dvc' : ~PipelineKey(s.key)
    BY <1>1, <1>2 DEF Base, TypeOK, PutRecord
  <2>3. holder' \in Proc \cup {"none"}
    BY <1>4
  <2> QED
    BY <1>1, <2>1, <2>2, <2>3 DEF Base, TypeOK, FilesTyped
<1> QED
  BY <1>1, <1>2, <1>4, <1>5

(* A failure of a command that holds the lock, with the files as they were.  *)
LEMMA FailuresTurn ==
    ASSUME Base, NEW p \in Proc, SaveFails(p) \/ DumpFails(p) \/ CreateFails(p)
    PROVE  /\ Turned(p) /\ FilesTyped' /\ holder = p /\ Fail(p)
           /\ op[p].pc \in {"save", "yaml", "lock", "create"} /\ UNCHANGED files
<1>1. Fail(p) /\ UNCHANGED files /\ op[p].pc \in {"save", "yaml", "lock", "create"}
  BY DEF SaveFails, DumpFails, CreateFails
<1>2. holder = p
  BY <1>1, HandTyped DEF Holds
<1>3. torn' = torn
  BY <1>1 DEF Fail
<1> QED
  BY <1>1, <1>2, <1>3, FailTurns, FilesStay

LEMMA AddTurns ==
    ASSUME Base, NEW p \in Proc, Add(p)
    PROVE  /\ Turned(p) /\ FilesTyped' /\ op'[p].pc = "create" /\ op'[p].cmd = "add"
<1>1. holder = "none"
  BY DEF Add, Start
<1>2. PICK groups \in AddGroups :
         /\ Become(p, [NoOp EXCEPT !.cmd = "add", !.pc = "create",
                      !.names = UNION {ToSet(g) : g \in ToSet(groups)},
                      !.later = groups])
         /\ holder' = p
         /\ UNCHANGED <<files, ignored, torn, exposed>>
  BY DEF Add
<1> DEFINE paths == UNION {ToSet(g) : g \in ToSet(groups)}
           new == [NoOp EXCEPT !.cmd = "add", !.pc = "create", !.names = paths, !.later = groups]
<1>3. groups \in Seq(Seq(Targets)) /\ groups # <<>>
  BY AddedGroups
<1>4. /\ \A i \in DOMAIN groups : ToSet(groups[i]) \subseteq paths
      /\ paths \subseteq Targets
  <2>1. \A i \in DOMAIN groups : groups[i] \in Seq(Targets)
    BY <1>3
  <2>2. \A g \in Seq(Targets) : ToSet(g) \subseteq Targets
    BY DEF ToSet
  <2>3. \A i \in DOMAIN groups : groups[i] \in ToSet(groups)
    BY DEF ToSet
  <2>4. \A g \in ToSet(groups) : g \in Seq(Targets)
    BY <2>1 DEF ToSet
  <2> QED
    BY <2>2, <2>3, <2>4
<1>5. paths \subseteq Paths
  BY <1>4 DEF Paths
<1> HIDE DEF paths
<1>6. /\ new \in Operation /\ new.cmd = "add" /\ new.work = <<>> /\ new.names = paths
      /\ new.later = groups /\ new.pc = "create"
  BY <1>3, <1>5, NoOpIs DEF Operation, Commands, Phases
<1>7. Become(p, new)
  BY <1>2 DEF paths
<1> HIDE DEF new
<1>8. InHand(new) /\ InFile(new)
  BY <1>3, <1>4, <1>6 DEF InHand, InFile, PhasesOf
<1>9. Turned(p) /\ op'[p] = new
  BY <1>1, <1>2, <1>6, <1>7, <1>8, StartTurns DEF files
<1> QED
  BY <1>2, <1>6, <1>9, FilesStay DEF Base, TypeOK

(* The stages of a group are the data stages of the targets that are kept,   *)
(* for every length of it: by the least length for which they were not.      *)
LEMMA MadeHasType ==
    ASSUME NEW group \in Seq(Targets), NEW kept
    PROVE  Made(group, kept) \in Seq({DataStage(t) : t \in kept \cap ToSet(group)})
<1> DEFINE Staying == {DataStage(t) : t \in kept \cap ToSet(group)}
           Body(f, m) == IF m = 0 THEN <<>>
                         ELSE IF group[m] \in kept THEN Append(f[m - 1], DataStage(group[m]))
                         ELSE f[m - 1]
           Adds(f, n) == f = [m \in 0..n |-> Body(f, m)]
<1>1. Len(group) \in Nat
  BY LenProperties
<1>2. \A n \in 0..Len(group) : \E f : Adds(f, n)
  <2> DEFINE Bad == {n \in 0..Len(group) : ~\E f : Adds(f, n)}
  <2> SUFFICES ASSUME Bad # {} PROVE FALSE
    OBVIOUS
  <2>1. PICK n \in Bad : \A m \in Bad : n <= m
    <3>1. Bad \in SUBSET Nat
      BY <1>1
    <3> HIDE DEF Bad
    <3> QED
      BY <3>1, LeastExists
  <2>2. CASE n = 0
    <3> DEFINE f == [m \in 0..0 |-> <<>>]
    <3>1. Adds(f, 0)
      OBVIOUS
    <3> QED
      BY <2>1, <2>2, <3>1
  <2>3. CASE n # 0
    <3>5. n \in 0..Len(group)
      BY <2>1
    <3>1. n - 1 \in 0..Len(group) /\ n - 1 \notin Bad /\ n \in Nat
      <4> HIDE DEF Bad
      <4> QED
        BY <1>1, <2>1, <2>3, <3>5
    <3>2. PICK f : Adds(f, n - 1)
      BY <3>1
    <3> DEFINE g == [m \in 0..n |->
                       IF m = n THEN IF group[n] \in kept THEN Append(f[n - 1], DataStage(group[n]))
                                     ELSE f[n - 1]
                       ELSE f[m]]
    <3>3. \A m \in 0..n : g[m] = Body(g, m)
      <4> SUFFICES ASSUME NEW m \in 0..n PROVE g[m] = Body(g, m)
        OBVIOUS
      <4>1. CASE m = n
        BY <3>1, <4>1, <2>3
      <4>2. CASE m # n
        <5>1. m \in 0..(n - 1) /\ (m # 0 => m - 1 \in 0..n /\ m - 1 # n)
          BY <3>1, <4>2
        <5>2. f[m] = Body(f, m)
          BY <3>2, <5>1
        <5>3. g[m] = f[m] /\ (m # 0 => g[m - 1] = f[m - 1])
          BY <4>2, <5>1
        <5> QED
          BY <5>2, <5>3
      <4> QED
        BY <4>1, <4>2
    <3>4. Adds(g, n)
      <4>1. g = [m \in 0..n |-> g[m]]
        OBVIOUS
      <4> HIDE DEF g
      <4>2. [m \in 0..n |-> g[m]] = [m \in 0..n |-> Body(g, m)]
        BY <3>3
      <4> QED
        BY <4>1, <4>2
    <3> QED
      BY <2>1, <3>4
  <2> QED
    BY <2>2, <2>3
<1> DEFINE made == CHOOSE f : Adds(f, Len(group))
<1>3. Adds(made, Len(group))
  <2> HIDE DEF Adds
  <2>1. \E f : Adds(f, Len(group))
    BY <1>1, <1>2
  <2> QED
    BY <2>1
<1>4. Made(group, kept) = made[Len(group)]
  BY DEF Made
<1> HIDE DEF made
<1>5. \A n \in 0..Len(group) : made[n] = Body(made, n)
  BY <1>3
<1> HIDE DEF Adds
<1>6. \A n \in 0..Len(group) : made[n] \in Seq(Staying)
  <2> DEFINE Bad == {n \in 0..Len(group) : made[n] \notin Seq(Staying)}
  <2> SUFFICES ASSUME Bad # {} PROVE FALSE
    OBVIOUS
  <2>1. PICK n \in Bad : \A m \in Bad : n <= m
    <3>1. Bad \in SUBSET Nat
      BY <1>1
    <3> HIDE DEF Bad
    <3> QED
      BY <3>1, LeastExists
  <2>2. made[n] = IF n = 0 THEN <<>>
                  ELSE IF group[n] \in kept THEN Append(made[n - 1], DataStage(group[n]))
                  ELSE made[n - 1]
    BY <1>5, <2>1
  <2>3. n # 0
    BY <2>1, <2>2, EmptySeq
  <2>4. n - 1 \in 0..Len(group) /\ n - 1 \notin Bad /\ n \in 1..Len(group)
    BY <1>1, <2>1, <2>3
  <2>5. made[n - 1] \in Seq(Staying)
    BY <2>4
  <2>7. group[n] \in kept => DataStage(group[n]) \in Staying
    BY <2>4 DEF ToSet
  <2> HIDE DEF Staying
  <2>6. made[n] \in Seq(Staying)
    BY <2>2, <2>3, <2>4, <2>5, <2>7
  <2> QED
    BY <2>1, <2>6
<1> QED
  BY <1>1, <1>4, <1>6

(* dvc add takes the next group: its files go, and either its new stages are *)
(* in hand and fit, or there are none, or the command fails.                 *)
Created(p, kept) ==
    \/ /\ op'[p].pc = "save" /\ op'[p].cmd = "add" /\ CreateFits(kept)
       /\ op'[p].work \in Seq({DataStage(t) : t \in kept})
       /\ UNCHANGED <<ignored, exposed>>
    \/ /\ op'[p].pc = "create" /\ op'[p].cmd = "add"
       /\ UNCHANGED <<ignored, exposed>>
    \/ /\ op'[p] = Ended
       /\ ignored \cup exposed \subseteq ignored' \cup exposed' /\ exposed \subseteq exposed'

LEMMA CreateTurns ==
    ASSUME Base, NEW p \in Proc, Create(p)
    PROVE  /\ Turned(p) /\ FilesTyped' /\ holder = p /\ op[p].cmd = "add"
           /\ UNCHANGED <<yaml, lock, broken, torn>>
           /\ \E kept \in SUBSET (op[p].names \cap Targets) :
                 dvc' = Drop(dvc, kept) /\ Created(p, kept)
<1> DEFINE o == op[p]
           group == Head(o.later)
<1>1. o.pc = "create" /\ UNCHANGED <<yaml, lock, broken, torn>>
  BY DEF Create
<1>2. /\ o \in Operation /\ InHand(o) /\ InFile(o) /\ holder = p /\ o.later # <<>>
      /\ o.cmd \in Commands
  BY <1>1, HandTyped DEF Holds, InHand, Operation
<1>3. o.cmd = "add"
  BY <1>1, <1>2 DEF InHand, PhasesOf, Commands
<1>4. /\ o.later \in Seq(Seq(Targets)) /\ group \in Seq(Targets) /\ group = o.later[1]
      /\ 1 \in DOMAIN o.later
      /\ Tail(o.later) \in Seq(Seq(Targets))
      /\ \A g \in DOMAIN Tail(o.later) :
            g + 1 \in DOMAIN o.later /\ Tail(o.later)[g] = o.later[g + 1]
  <2>1. o.later \in Seq(Seq(Targets))
    BY <1>2 DEF Operation
  <2> QED
    BY <1>2, <2>1, FirstAndRest
<1>5. ToSet(group) \subseteq o.names \cap Targets
  <2>1. ToSet(group) \subseteq Targets
    BY <1>4 DEF ToSet
  <2> QED
    BY <1>2, <1>4, <2>1 DEF InHand
<1> DEFINE there == {t \in ToSet(group) : MaybeCached(DataStage(t))}
<1>6. PICK skipped \in SUBSET there :
         LET kept == ToSet(group) \ skipped
             work == Made(group, kept)
         IN  /\ dvc' = Drop(dvc, kept)
             /\ \/ /\ CreateFits(kept)
                   /\ work # <<>>
                   /\ Become(p, [o EXCEPT !.work = work, !.pc = "save", !.later = Tail(@)])
                   /\ UNCHANGED <<ignored, holder, exposed>>
                \/ /\ IF Len(o.later) > 1
                      THEN /\ Become(p, [o EXCEPT !.later = Tail(@)])
                           /\ UNCHANGED holder
                      ELSE Become(p, Ended) /\ holder' = "none"
                   /\ UNCHANGED <<ignored, exposed>>
                \/ Fail(p)
  BY DEF Create
<1> DEFINE kept == ToSet(group) \ skipped
           work == Made(group, kept)
<1>7. kept \in SUBSET (o.names \cap Targets) /\ kept \cap ToSet(group) = kept
  BY <1>5
<1>8. work \in Seq({DataStage(t) : t \in kept})
  BY <1>4, <1>7, MadeHasType
<1>9. dvc' = Drop(dvc, kept)
  BY <1>6
<1>10. \/ /\ CreateFits(kept)
          /\ work # <<>>
          /\ Become(p, [o EXCEPT !.work = work, !.pc = "save", !.later = Tail(@)])
          /\ UNCHANGED <<ignored, holder, exposed>>
       \/ /\ Len(o.later) > 1
          /\ Become(p, [o EXCEPT !.later = Tail(@)])
          /\ UNCHANGED <<ignored, holder, exposed>>
       \/ Become(p, Ended) /\ holder' = "none" /\ UNCHANGED <<ignored, exposed>>
       \/ Fail(p)
  BY <1>6
<1> HIDE DEF kept, work, group
<1>11. /\ work \in Seq(Stage)
       /\ \A i \in DOMAIN work : work[i].key \in kept /\ ~PipelineKey(work[i].key)
  <2>1. \A t \in kept : /\ DataStage(t) \in Stage /\ DataStage(t).key = t
                        /\ ~PipelineKey(DataStage(t).key)
    BY <1>7, DataStages DEF DataStage
  <2>2. {DataStage(t) : t \in kept} \subseteq Stage
    BY <2>1
  <2>3. \A i \in DOMAIN work : \E t \in kept : work[i] = DataStage(t)
    BY <1>8
  <2> QED
    BY <1>8, <2>1, <2>2, <2>3
<1>12. ASSUME CreateFits(kept), work # <<>>,
              Become(p, [o EXCEPT !.work = work, !.pc = "save", !.later = Tail(@)]),
              UNCHANGED <<ignored, holder, exposed>>
       PROVE  Turned(p) /\ Created(p, kept)
  <2> DEFINE new == [o EXCEPT !.work = work, !.pc = "save", !.later = Tail(@)]
  <2>1. /\ new \in Operation /\ new.work = work /\ new.cmd = "add" /\ new.names = o.names
        /\ new.later = Tail(o.later) /\ new.pc = "save"
    BY <1>2, <1>3, <1>4, <1>11 DEF Operation, Phases
  <2>2. Become(p, new)
    BY <1>12
  <2> HIDE DEF new
  <2>3. InHand(new) /\ InFile(new)
    BY <1>2, <1>4, <1>7, <1>11, <1>12, <2>1 DEF InHand, InFile, PhasesOf
  <2>4. Turn(p, new)
    BY <2>1, <2>2, BecomeTurns DEF Base
  <2>5. Turned(p) /\ op'[p] = new
    BY <1>2, <1>12, <2>3, <2>4 DEF Turned, Turn
  <2>6. Created(p, kept)
    BY <1>8, <1>12, <2>1, <2>5 DEF Created
  <2> QED
    BY <1>12, <2>5, <2>6
<1>13. ASSUME Len(o.later) > 1, Become(p, [o EXCEPT !.later = Tail(@)]),
              UNCHANGED <<ignored, holder, exposed>>
       PROVE  Turned(p) /\ Created(p, kept)
  <2> DEFINE new == [o EXCEPT !.later = Tail(@)]
  <2>1. /\ new \in Operation /\ new.work = o.work /\ new.cmd = "add" /\ new.names = o.names
        /\ new.later = Tail(o.later) /\ new.pc = "create"
    BY <1>1, <1>2, <1>3, <1>4 DEF Operation
  <2>2. Become(p, new)
    BY <1>13
  <2> HIDE DEF new
  <2>3. Tail(o.later) # <<>>
    BY <1>4, <1>13, LongerHasRest
  <2>4. InHand(new)
    <3>1. new.pc \in PhasesOf(new.cmd)
      BY <2>1 DEF PhasesOf
    <3> QED
      BY <1>2, <1>4, <2>1, <2>3, <3>1 DEF InHand
  <2>8. InFile(new)
    BY <1>2, <1>3, <2>1 DEF InFile
  <2>5. Turn(p, new)
    BY <2>1, <2>2, BecomeTurns DEF Base
  <2>6. Turned(p) /\ op'[p] = new
    BY <1>2, <1>13, <2>4, <2>5, <2>8 DEF Turned, Turn
  <2>7. Created(p, kept)
    BY <1>13, <2>1, <2>6 DEF Created
  <2> QED
    BY <1>13, <2>6, <2>7
<1>14. ASSUME Become(p, Ended), UNCHANGED <<ignored, exposed>>
       PROVE  Turned(p) /\ Created(p, kept)
  BY <1>2, <1>14, EndTurns DEF Created
<1>15. ASSUME Fail(p)
       PROVE  Turned(p) /\ Created(p, kept)
  BY <1>2, <1>15, FailTurns DEF Created
<1>16. Turned(p) /\ Created(p, kept)
  BY <1>10, <1>12, <1>13, <1>14, <1>15
<1>17. FilesTyped'
  <2>1. holder' \in Proc \cup {"none"} /\ ignored' \subseteq Paths /\ exposed' \subseteq Paths
    <3>1. CASE Fail(p)
      BY <1>2, <3>1, FailTurns
    <3>2. CASE ~Fail(p)
      BY <1>10, <1>2, <3>2 DEF Base, TypeOK
    <3> QED
      BY <3>1, <3>2
  <2>2. dvc' \subseteq dvc
    BY <1>9, DropIsFewer
  <2>3. OneRecordEach(dvc')
    BY <2>2, FewerKeepOne DEF Base, TypeOK
  <2> QED
    BY <1>1, <2>1, <2>2, <2>3 DEF Base, TypeOK, FilesTyped
<1> QED
  BY <1>1, <1>2, <1>3, <1>7, <1>9, <1>16, <1>17

(* An ended command that has changed one record names it.                    *)
LEMMA EndedNames ==
    ASSUME NEW key \in Paths
    PROVE  LET new == [Ended EXCEPT !.names = {key}]
           IN  /\ new \in Operation /\ InHand(new) /\ InFile(new) /\ ~Holds(new)
               /\ new.names = {key} /\ new.pc = "none" /\ new.cmd = "ended" /\ new.work = <<>>
<1> DEFINE new == [Ended EXCEPT !.names = {key}]
<1>1. /\ new \in Operation /\ new.names = {key} /\ new.pc = "none" /\ new.cmd = "ended"
      /\ new.work = <<>> /\ new.later = <<>>
  BY NoOpIs DEF Ended, Operation, Commands, Phases
<1> HIDE DEF new
<1>2. InHand(new) /\ InFile(new) /\ ~Holds(new)
  BY <1>1 DEF InHand, InFile, PhasesOf, Holds
<1> QED
  BY <1>1, <1>2 DEF new

(* A command that saves one stage of data, or has it to remove.              *)
LEMMA OneInHand ==
    ASSUME NEW s \in Stage, NEW cmd \in {"import", "update", "remove"},
           cmd # "remove" => ~PipelineKey(s.key)
    PROVE  LET new == [NoOp EXCEPT !.cmd = cmd,
                         !.pc = IF cmd = "remove" THEN "unignore" ELSE "save",
                         !.names = {s.key}, !.work = <<s>>]
           IN  /\ new \in Operation /\ InHand(new) /\ InFile(new)
               /\ new.names = {s.key} /\ new.cmd = cmd /\ new.work = <<s>>
               /\ new.pc = IF cmd = "remove" THEN "unignore" ELSE "save"
<1> DEFINE new == [NoOp EXCEPT !.cmd = cmd,
                     !.pc = IF cmd = "remove" THEN "unignore" ELSE "save",
                     !.names = {s.key}, !.work = <<s>>]
<1>1. s.key \in Paths /\ <<s>> \in Seq(Stage)
  BY OneStage DEF Stage
<1>2. /\ new \in Operation /\ new.names = {s.key} /\ new.cmd = cmd /\ new.work = <<s>>
      /\ new.later = <<>> /\ new.pc = IF cmd = "remove" THEN "unignore" ELSE "save"
  BY <1>1, NoOpIs DEF Operation, Commands, Phases
<1> HIDE DEF new
<1>3. InHand(new)
  BY <1>2, OneStage DEF InHand, PhasesOf
<1>4. InFile(new)
  BY <1>2, OneStage DEF InFile
<1> QED
  BY <1>2, <1>3, <1>4 DEF new

Imported(p, s) ==
    /\ dvc' = Drop(dvc, {s.key}) /\ UNCHANGED <<yaml, lock, broken, ignored, torn, exposed>>
    /\ op'[p].names = {s.key}
    /\ \/ op'[p].cmd = "ended" /\ op'[p].pc = "none"
       \/ /\ op'[p].cmd = "import" /\ op'[p].pc = "save" /\ op'[p].work = <<s>>
          /\ ValidGraph(yaml \cup Drop(dvc, {s.key}) \cup {s})

LEMMA ImportTurns ==
    ASSUME Base, NEW p \in Proc, Import(p)
    PROVE  /\ Turned(p) /\ FilesTyped'
           /\ Refuse(p) \/ \E s \in Stage : Imported(p, s)
<1>1. holder = "none"
  BY DEF Import, Start
<1>2. CASE Refuse(p)
  BY <1>2, RefuseTurns
<1>3. CASE ~Refuse(p)
  <2>1. PICK path \in Imports :
           /\ dvc' = Drop(dvc, {path})
           /\ UNCHANGED <<yaml, lock, broken, ignored, torn, exposed>>
           /\ \/ Become(p, [Ended EXCEPT !.names = {path}]) /\ holder' = holder
              \/ /\ ValidGraph(yaml \cup Drop(dvc, {path}) \cup {Record(path, {}, {path}, TRUE)})
                 /\ holder' = p
                 /\ Become(p, [NoOp EXCEPT !.cmd = "import", !.pc = "save",
                                !.names = {path}, !.work = <<Record(path, {}, {path}, TRUE)>>])
    BY <1>3 DEF Import
  <2> DEFINE s == Record(path, {}, {path}, TRUE)
  <2>2. s \in Stage /\ s.key = path /\ ~PipelineKey(s.key) /\ path \in Paths
    BY DataStages
  <2> HIDE DEF s
  <2>3. CASE Become(p, [Ended EXCEPT !.names = {path}]) /\ holder' = holder
    <3> DEFINE new == [Ended EXCEPT !.names = {path}]
    <3>1. new \in Operation /\ InHand(new) /\ InFile(new) /\ ~Holds(new)
          /\ new.names = {path} /\ new.pc = "none" /\ new.cmd = "ended"
      BY <2>2, EndedNames
    <3>2. Become(p, new)
      BY <2>3
    <3> HIDE DEF new
    <3>3. Turned(p) /\ op'[p] = new
      BY <1>1, <3>1, <3>2, StartTurns
    <3>4. Imported(p, s)
      BY <2>1, <2>2, <3>1, <3>3 DEF Imported
    <3>5. FilesTyped'
      BY <2>1, <2>3, DropIsFewer, FewerKeepOne DEF Base, TypeOK, FilesTyped
    <3> QED
      BY <2>2, <3>3, <3>4, <3>5
  <2>4. CASE /\ ValidGraph(yaml \cup Drop(dvc, {path}) \cup {Record(path, {}, {path}, TRUE)})
             /\ holder' = p
             /\ Become(p, [NoOp EXCEPT !.cmd = "import", !.pc = "save",
                            !.names = {path}, !.work = <<Record(path, {}, {path}, TRUE)>>])
    <3> DEFINE new == [NoOp EXCEPT !.cmd = "import", !.pc = "save",
                         !.names = {path}, !.work = <<s>>]
    <3>1. /\ new \in Operation /\ InHand(new) /\ InFile(new)
          /\ new.names = {path} /\ new.cmd = "import" /\ new.work = <<s>> /\ new.pc = "save"
      BY <2>2, OneInHand
    <3>2. Become(p, new)
      BY <2>4 DEF s
    <3> HIDE DEF new
    <3>3. Turned(p) /\ op'[p] = new
      BY <1>1, <2>4, <3>1, <3>2, StartTurns
    <3>4. Imported(p, s)
      BY <2>1, <2>2, <2>4, <3>1, <3>3 DEF Imported, s
    <3>5. FilesTyped'
      BY <2>1, <2>4, DropIsFewer, FewerKeepOne DEF Base, TypeOK, FilesTyped
    <3> QED
      BY <2>2, <3>3, <3>4, <3>5
  <2> QED
    BY <2>1, <2>3, <2>4
<1> QED
  BY <1>2, <1>3

LEMMA UpdateTurns ==
    ASSUME Base, NEW p \in Proc, Update(p)
    PROVE  /\ Turned(p) /\ FilesTyped' /\ UNCHANGED <<files, ignored, torn, exposed>>
           /\ \/ op'[p] = Ended
              \/ \E s \in dvc : /\ op'[p].work = <<s>> /\ op'[p].cmd = "update"
                                /\ op'[p].pc = "save"
<1>1. holder = "none"
  BY DEF Update, Start
<1>2. CASE Refuse(p)
  BY <1>2, RefuseTurns DEF Refuse
<1>3. CASE ~Refuse(p)
  <2>1. PICK s \in dvc :
           /\ Become(p, [NoOp EXCEPT !.cmd = "update", !.pc = "save",
                        !.names = {s.key}, !.work = <<s>>])
           /\ holder' = p
           /\ UNCHANGED <<files, ignored, torn, exposed>>
    BY <1>3 DEF Update
  <2> DEFINE new == [NoOp EXCEPT !.cmd = "update", !.pc = "save",
                       !.names = {s.key}, !.work = <<s>>]
  <2>2. s \in Stage /\ ~PipelineKey(s.key)
    BY DEF Base, TypeOK
  <2>3. /\ new \in Operation /\ InHand(new) /\ InFile(new)
        /\ new.cmd = "update" /\ new.work = <<s>> /\ new.pc = "save"
    BY <2>2, OneInHand
  <2>4. Become(p, new)
    BY <2>1
  <2> HIDE DEF new
  <2>5. Turned(p) /\ op'[p] = new
    BY <1>1, <2>1, <2>3, <2>4, StartTurns DEF files
  <2> QED
    BY <2>1, <2>3, <2>5, FilesStay DEF Base, TypeOK
<1> QED
  BY <1>2, <1>3

LEMMA RemoveStageTurns ==
    ASSUME Base, NEW p \in Proc, RemoveStage(p)
    PROVE  /\ Turned(p) /\ FilesTyped' /\ UNCHANGED <<files, ignored, torn, exposed>>
           /\ op'[p].pc \in {"none", "unignore"} /\ op'[p].cmd \in {"ended", "remove"}
<1>1. holder = "none"
  BY DEF RemoveStage, Start
<1>2. CASE Refuse(p)
  BY <1>2, RefuseTurns, EndedIs DEF Refuse
<1>3. CASE ~Refuse(p)
  <2>1. PICK s \in Stages :
           /\ Become(p, [NoOp EXCEPT !.cmd = "remove", !.pc = "unignore",
                        !.names = {s.key}, !.work = <<s>>])
           /\ holder' = p
           /\ UNCHANGED <<files, ignored, torn, exposed>>
    BY <1>3 DEF RemoveStage
  <2> DEFINE new == [NoOp EXCEPT !.cmd = "remove", !.pc = "unignore",
                       !.names = {s.key}, !.work = <<s>>]
  <2>2. s \in Stage
    BY DEF Base, TypeOK, Stages
  <2>3. /\ new \in Operation /\ InHand(new) /\ InFile(new)
        /\ new.cmd = "remove" /\ new.work = <<s>> /\ new.pc = "unignore"
    BY <2>2, OneInHand
  <2>4. Become(p, new)
    BY <2>1
  <2> HIDE DEF new
  <2>5. Turned(p) /\ op'[p] = new
    BY <1>1, <2>1, <2>3, <2>4, StartTurns DEF files
  <2> QED
    BY <2>1, <2>3, <2>5, FilesStay DEF Base, TypeOK
<1> QED
  BY <1>2, <1>3

LEMMA UnignoreTurns ==
    ASSUME Base, NEW p \in Proc, Unignore(p)
    PROVE  /\ Turned(p) /\ FilesTyped' /\ holder = p /\ UNCHANGED files
           /\ op[p].pc = "unignore" /\ op[p].work # <<>>
           /\ ignored' = ignored \ Current(p).outs
           /\ exposed' = exposed \cup Shared(Current(p))
           /\ \/ op[p].cmd = "move" /\ op'[p] = [op[p] EXCEPT !.work = Tail(@), !.pc = "save"]
              \/ /\ op[p].cmd = "remove"
                 /\ op'[p] = [op[p] EXCEPT !.pc = IF PipelineKey(Current(p).key) THEN "droplock"
                                                  ELSE "dropdvc"]
<1> DEFINE o == op[p]
<1>1. /\ o.pc = "unignore" /\ UNCHANGED <<files, holder, torn>>
      /\ ignored' = ignored \ Current(p).outs /\ exposed' = exposed \cup Shared(Current(p))
  BY DEF Unignore
<1>2. /\ o \in Operation /\ InHand(o) /\ InFile(o) /\ holder = p /\ o.work # <<>>
      /\ Current(p).outs \subseteq Paths /\ o.cmd \in Commands /\ o.work \in Seq(Stage)
  BY <1>1, HandTyped DEF Holds, InHand, Operation
<1>3. o.cmd \in {"move", "remove"}
  BY <1>1, <1>2 DEF InHand, PhasesOf, Commands
<1>4. FilesTyped'
  <2>1. Shared(Current(p)) \subseteq Paths
    BY <1>2 DEF Shared
  <2>2. ignored' \subseteq Paths /\ exposed' \subseteq Paths /\ holder' \in Proc \cup {"none"}
    BY <1>1, <1>2, <2>1 DEF Base, TypeOK
  <2> QED
    BY <1>1, <2>2, FilesStay
<1>5. CASE o.cmd = "move"
  <2> DEFINE new == [o EXCEPT !.work = Tail(@), !.pc = "save"]
  <2>1. /\ Tail(o.work) \in Seq(Stage)
        /\ \A i \in DOMAIN Tail(o.work) :
              i + 1 \in DOMAIN o.work /\ Tail(o.work)[i] = o.work[i + 1]
    BY <1>2, FirstAndRest
  <2>2. /\ new \in Operation /\ new.work = Tail(o.work) /\ new.cmd = o.cmd
        /\ new.names = o.names /\ new.later = o.later /\ new.pc = "save"
    BY <1>2, <2>1 DEF Operation, Phases
  <2>3. Become(p, new)
    BY <1>5 DEF Unignore
  <2> HIDE DEF new
  <2>4. InHand(new)
    BY <1>1, <1>2, <1>5, <2>1, <2>2 DEF InHand, InFile, PhasesOf
  <2>5. InFile(new)
    BY <1>2, <1>5, <2>1, <2>2 DEF InFile
  <2>6. Turn(p, new)
    BY <2>2, <2>3, BecomeTurns DEF Base
  <2>7. Turned(p) /\ op'[p] = new
    BY <1>1, <1>2, <2>4, <2>5, <2>6 DEF Turned, Turn
  <2> QED
    BY <1>1, <1>2, <1>4, <1>5, <2>7 DEF new
<1>6. CASE o.cmd = "remove"
  <2> DEFINE pc == IF PipelineKey(Current(p).key) THEN "droplock" ELSE "dropdvc"
  <2>1. Goto(p, pc)
    BY <1>6 DEF Unignore, Goto
  <2>2. pc \in {"droplock", "dropdvc"} /\ pc \in Phases /\ pc \in PhasesOf(o.cmd)
        /\ (pc = "droplock" => PipelineKey(Current(p).key))
        /\ (pc = "dropdvc" => ~PipelineKey(Current(p).key))
    BY <1>6 DEF PhasesOf, Phases
  <2>3. Turned(p) /\ op'[p] = [o EXCEPT !.pc = pc]
    BY <1>1, <1>2, <2>1, <2>2, GotoTurns
  <2> QED
    BY <1>1, <1>2, <1>4, <1>6, <2>3
<1> QED
  BY <1>3, <1>5, <1>6

LEMMA UnignoreCutShortTurns ==
    ASSUME Base, NEW p \in Proc, UnignoreCutShort(p)
    PROVE  /\ Turned(p) /\ FilesTyped' /\ holder = p /\ UNCHANGED files
           /\ op[p].pc = "unignore" /\ op'[p] = Ended
<1>1. /\ op[p].pc = "unignore" /\ UNCHANGED <<files, torn>> /\ holder' = "none"
      /\ IgnoreCutShort(Current(p).outs) /\ Become(p, Ended)
  BY DEF UnignoreCutShort
<1>2. holder = p
  BY <1>1, HandTyped DEF Holds
<1>3. Turned(p) /\ op'[p] = Ended
  BY <1>1, <1>2, EndTurns
<1>4. ignored' \subseteq Paths /\ exposed' \subseteq Paths
  BY <1>1, CutShortIs DEF Base, TypeOK
<1> QED
  BY <1>1, <1>2, <1>3, <1>4, FilesStay

LEMMA DropLockTurns ==
    ASSUME Base, NEW p \in Proc, DropLock(p)
    PROVE  /\ Turned(p) /\ FilesTyped' /\ holder = p /\ op[p].work # <<>>
           /\ op[p].pc = "droplock" /\ op'[p] = [op[p] EXCEPT !.pc = "dropyaml"]
           /\ op[p].cmd = "remove"
           /\ op[p].names = {Current(p).key} /\ PipelineKey(Current(p).key)
           /\ lock' = Drop(lock, op[p].names)
           /\ UNCHANGED <<yaml, dvc, ignored, torn, exposed>>
<1>1. /\ op[p].pc = "droplock" /\ lock' = Drop(lock, op[p].names)
      /\ UNCHANGED <<yaml, dvc, broken, ignored, holder, torn, exposed>> /\ Goto(p, "dropyaml")
  BY DEF DropLock
<1>2. /\ op[p].work # <<>> /\ holder = p /\ PipelineKey(Current(p).key) /\ InHand(op[p])
      /\ op[p].names = {Current(p).key} /\ op[p].cmd \in Commands
  BY <1>1, HandTyped DEF InHand, InFile, Current, Holds, Operation
<1>3. op[p].cmd = "remove"
  BY <1>1, <1>2 DEF InHand, PhasesOf, Commands
<1>4. "dropyaml" \in Phases /\ "dropyaml" \in PhasesOf(op[p].cmd)
  BY <1>3 DEF Phases, PhasesOf
<1>5. Turned(p) /\ op'[p] = [op[p] EXCEPT !.pc = "dropyaml"]
  BY <1>1, <1>2, <1>4, GotoTurns
<1>6. FilesTyped'
  BY <1>1, DropIsFewer, FewerKeepOne DEF Base, TypeOK, FilesTyped
<1> QED
  BY <1>1, <1>2, <1>3, <1>5, <1>6

LEMMA DropStageTurns ==
    ASSUME Base, NEW p \in Proc, DropYaml(p) \/ DropDvc(p)
    PROVE  /\ Turned(p) /\ FilesTyped' /\ holder = p /\ op[p].work # <<>>
           /\ op'[p] = Ended /\ op[p].names = {Current(p).key}
           /\ UNCHANGED <<lock, ignored, torn, exposed>>
           /\ \/ /\ DropYaml(p) /\ op[p].pc = "dropyaml" /\ PipelineKey(Current(p).key)
                 /\ yaml' = Drop(yaml, op[p].names) /\ dvc' = dvc
              \/ /\ DropDvc(p) /\ op[p].pc = "dropdvc" /\ ~PipelineKey(Current(p).key)
                 /\ dvc' = Drop(dvc, op[p].names) /\ yaml' = yaml
<1>1. /\ op[p].pc \in {"dropyaml", "dropdvc"}
      /\ UNCHANGED <<lock, broken, ignored, torn, exposed>> /\ NextStage(p)
  BY DEF DropYaml, DropDvc
<1>2. /\ op[p].work # <<>> /\ holder = p /\ InHand(op[p])
      /\ op[p].names = {Current(p).key} /\ op[p].cmd \in Commands
      /\ op[p].pc = "dropyaml" => PipelineKey(Current(p).key)
      /\ op[p].pc = "dropdvc" => ~PipelineKey(Current(p).key)
  BY <1>1, HandTyped DEF InHand, InFile, Current, Holds, Operation
<1>3. op[p].cmd = "remove"
  BY <1>1, <1>2 DEF InHand, PhasesOf, Commands
<1>4. Turned(p) /\ holder' \in {p, "none"} /\ Following(p)
  BY <1>1, <1>2, <1>3, NextStageTurns
<1>5. op'[p] = Ended
  BY <1>2, <1>3, <1>4 DEF Following, InHand
<1>6. \/ /\ DropYaml(p) /\ op[p].pc = "dropyaml" /\ yaml' = Drop(yaml, op[p].names) /\ dvc' = dvc
      \/ /\ DropDvc(p) /\ op[p].pc = "dropdvc" /\ dvc' = Drop(dvc, op[p].names) /\ yaml' = yaml
  BY DEF DropYaml, DropDvc
<1>7. yaml' \subseteq yaml /\ dvc' \subseteq dvc
  BY <1>6, DropIsFewer
<1>8. OneRecordEach(yaml') /\ OneRecordEach(dvc')
  BY <1>7, FewerKeepOne DEF Base, TypeOK
<1>9. FilesTyped'
  BY <1>1, <1>4, <1>7, <1>8 DEF Base, TypeOK, FilesTyped
<1> QED
  BY <1>1, <1>2, <1>4, <1>5, <1>6, <1>9

LEMMA MoveTurns ==
    ASSUME Base, NEW p \in Proc, Move(p)
    PROVE  /\ Turned(p) /\ FilesTyped'
           /\ \/ Refuse(p)
              \/ \E s \in dvc :
                    /\ dvc' = Drop(dvc, {s.key})
                    /\ UNCHANGED <<yaml, lock, broken, ignored, torn, exposed>>
                    /\ op'[p].cmd = "move" /\ op'[p].pc = "unignore" /\ Head(op'[p].work) = s
                    /\ s.key \in op'[p].names
<1>1. holder = "none"
  BY DEF Move, Start
<1>2. CASE Refuse(p)
  BY <1>2, RefuseTurns
<1>3. CASE ~Refuse(p)
  <2>1. PICK s \in dvc, to \in MoveTo :
           /\ dvc' = Drop(dvc, {s.key})
           /\ holder' = p
           /\ UNCHANGED <<yaml, lock, broken, ignored, torn, exposed>>
           /\ Become(p, [NoOp EXCEPT !.cmd = "move", !.pc = "unignore",
                          !.names = {s.key, to},
                          !.work = <<s, Record(to, {}, {to}, s.frozen)>>])
    BY <1>3 DEF Move
  <2> DEFINE t == Record(to, {}, {to}, s.frozen)
             new == [NoOp EXCEPT !.cmd = "move", !.pc = "unignore", !.names = {s.key, to},
                       !.work = <<s, t>>]
  <2>2. s \in Stage /\ ~PipelineKey(s.key) /\ s.key \in Paths /\ s.frozen \in BOOLEAN
    BY DEF Base, TypeOK, Stage
  <2>3. t \in Stage /\ t.key = to /\ to \in Paths /\ ~PipelineKey(to)
    BY <2>2, DataStages
  <2>4. Become(p, new)
    BY <2>1
  <2> HIDE DEF t
  <2>5. /\ <<s, t>> \in Seq(Stage) /\ <<s, t>> # <<>> /\ Head(<<s, t>>) = s
        /\ Tail(<<s, t>>) # <<>>
        /\ \A i \in DOMAIN <<s, t>> : <<s, t>>[i] \in {s, t}
    BY <2>2, <2>3
  <2>6. /\ new \in Operation /\ new.names = {s.key, to} /\ new.cmd = "move"
        /\ new.work = <<s, t>> /\ new.later = <<>> /\ new.pc = "unignore"
    BY <2>2, <2>3, <2>5, NoOpIs DEF Operation, Commands, Phases
  <2> HIDE DEF new
  <2>7. InHand(new)
    BY <2>3, <2>5, <2>6 DEF InHand, PhasesOf
  <2>8. InFile(new)
    BY <2>2, <2>3, <2>5, <2>6 DEF InFile
  <2>9. Turned(p) /\ op'[p] = new
    BY <1>1, <2>1, <2>4, <2>6, <2>7, <2>8, StartTurns
  <2>10. FilesTyped'
    BY <2>1, DropIsFewer, FewerKeepOne DEF Base, TypeOK, FilesTyped
  <2> QED
    BY <2>1, <2>5, <2>6, <2>9, <2>10
<1> QED
  BY <1>2, <1>3

LEMMA FreezeTurns ==
    ASSUME Base, NEW p \in Proc, Freeze(p)
    PROVE  /\ Turned(p) /\ FilesTyped'
           /\ \/ Refuse(p)
              \/ \E s \in Stages : \E frozen \in BOOLEAN :
                    /\ IF PipelineKey(s.key)
                       THEN yaml' = PutRecord(yaml, [s EXCEPT !.frozen = frozen]) /\ dvc' = dvc
                       ELSE dvc' = PutRecord(dvc, [s EXCEPT !.frozen = frozen]) /\ yaml' = yaml
                    /\ UNCHANGED <<lock, broken, ignored, torn, exposed>>
                    /\ op'[p].names = {s.key} /\ op'[p].pc = "none" /\ op'[p].cmd = "ended"
<1>1. holder = "none"
  BY DEF Freeze, Start
<1>2. CASE Refuse(p)
  BY <1>2, RefuseTurns
<1>3. CASE ~Refuse(p)
  <2>1. PICK s \in Stages :
           /\ IF PipelineKey(s.key)
              THEN yaml' = PutRecord(yaml, [s EXCEPT !.frozen = ~@]) /\ UNCHANGED dvc
              ELSE dvc' = PutRecord(dvc, [s EXCEPT !.frozen = ~@]) /\ UNCHANGED yaml
           /\ UNCHANGED <<lock, broken, ignored, holder, torn, exposed>>
           /\ Become(p, [Ended EXCEPT !.names = {s.key}])
    BY <1>3 DEF Freeze, Modified
  <2> DEFINE new == [Ended EXCEPT !.names = {s.key}]
             t == [s EXCEPT !.frozen = ~@]
  <2>2. s \in Stage /\ s.key \in Paths /\ s.frozen \in BOOLEAN
    BY DEF Base, TypeOK, Stage, Stages
  <2>3. t \in Stage /\ t.key = s.key /\ (~s.frozen) \in BOOLEAN
    BY <2>2 DEF Stage
  <2>4. new \in Operation /\ InHand(new) /\ InFile(new) /\ ~Holds(new)
        /\ new.names = {s.key} /\ new.pc = "none" /\ new.cmd = "ended"
    BY <2>2, EndedNames
  <2>5. Become(p, new)
    BY <2>1
  <2> HIDE DEF new
  <2>6. Turned(p) /\ op'[p] = new
    BY <1>1, <2>4, <2>5, StartTurns
  <2>7. FilesTyped'
    <3> HIDE DEF t
    <3>1. IF PipelineKey(s.key) THEN yaml' = PutRecord(yaml, t) /\ dvc' = dvc
          ELSE dvc' = PutRecord(dvc, t) /\ yaml' = yaml
      BY <2>1 DEF t
    <3>2. OneRecordEach(PutRecord(yaml, t)) /\ OneRecordEach(PutRecord(dvc, t))
      BY PutKeepsOne DEF Base, TypeOK
    <3>3. \A u \in PutRecord(yaml, t) : u \in Stage /\ (u \in yaml \/ u = t)
      BY <2>3 DEF PutRecord, Base, TypeOK
    <3>4. \A u \in PutRecord(dvc, t) : u \in Stage /\ (u \in dvc \/ u = t)
      BY <2>3 DEF PutRecord, Base, TypeOK
    <3> QED
      BY <2>1, <2>3, <3>1, <3>2, <3>3, <3>4 DEF Base, TypeOK, FilesTyped
  <2> QED
    BY <2>1, <2>3, <2>4, <2>6, <2>7
<1> QED
  BY <1>2, <1>3

(* What dvc repro has in hand: stages of the files, those that are wanted,   *)
(* none before what it needs.                                                *)
LEMMA ReproTurns ==
    ASSUME Base, NEW p \in Proc, Repro(p)
    PROVE  /\ Turned(p) /\ FilesTyped' /\ UNCHANGED <<files, ignored, torn, exposed>>
           /\ \/ op'[p] = Ended
              \/ /\ op'[p].cmd = "repro" /\ op'[p].pc = "next"
                 /\ op'[p].work \in Seq(Stages) /\ ValidGraph(Stages)
                 /\ PlanOrdered(op'[p].work)
                 /\ Wanted(op'[p].target, op'[p].downstream) \subseteq op'[p].names
<1>1. holder = "none" /\ op[p].cmd = "idle"
  BY DEF Repro, Start
<1>2. CASE Refuse(p)
  BY <1>2, RefuseTurns DEF Refuse
<1>3. CASE ~Refuse(p)
  <2>20. /\ ValidGraph(Stages)
         /\ \E order \in Orders, target \in KeysOf(Stages) \cup {All}, downstream \in BOOLEAN :
              /\ Work(order, target, downstream) # <<>>
              /\ Become(p, [NoOp EXCEPT !.cmd = "repro", !.pc = "next",
                           !.work = Work(order, target, downstream),
                           !.names = KeysOf(ToSet(Work(order, target, downstream))),
                           !.target = target, !.downstream = downstream])
              /\ holder' = p
              /\ UNCHANGED <<files, ignored, torn, exposed>>
    BY <1>3, Zenon DEF Repro
  <2>21. PICK order \in Orders, target \in KeysOf(Stages) \cup {All}, downstream \in BOOLEAN :
           /\ Work(order, target, downstream) # <<>>
           /\ Become(p, [NoOp EXCEPT !.cmd = "repro", !.pc = "next",
                        !.work = Work(order, target, downstream),
                        !.names = KeysOf(ToSet(Work(order, target, downstream))),
                        !.target = target, !.downstream = downstream])
           /\ holder' = p
           /\ UNCHANGED <<files, ignored, torn, exposed>>
    BY <2>20
  <2>1. PICK work :
           /\ work # <<>> /\ ValidGraph(Stages)
           /\ work \in Seq(Stages) /\ PlanOrdered(work)
           /\ Wanted(target, downstream) \subseteq KeysOf(ToSet(work))
           /\ Become(p, [NoOp EXCEPT !.cmd = "repro", !.pc = "next",
                        !.work = work,
                        !.names = KeysOf(ToSet(work)), !.target = target,
                        !.downstream = downstream])
           /\ holder' = p
           /\ UNCHANGED <<files, ignored, torn, exposed>>
    <3> DEFINE w == Work(order, target, downstream)
    <3>1. /\ w \in Seq(Stages) /\ PlanOrdered(w)
          /\ Wanted(target, downstream) \subseteq KeysOf(ToSet(w))
      BY <2>20, <2>21, PlanFound DEF Base
    <3> QED
      BY <2>20, <2>21, <3>1
  <2> DEFINE new == [NoOp EXCEPT !.cmd = "repro", !.pc = "next", !.work = work,
                       !.names = KeysOf(ToSet(work)), !.target = target,
                       !.downstream = downstream]
  <2>2. Become(p, new)
    BY <2>1
  <2>3. /\ new.cmd = "repro" /\ new.work = work /\ new.pc = "next" /\ new.later = <<>>
        /\ new.names = KeysOf(ToSet(work))
        /\ new.target = target /\ new.downstream = downstream
    BY NoOpIs DEF Operation
  <2>4. work \in Seq(Stages)
    BY <2>1
  <2>5. Stages \subseteq Stage
    BY DEF Base, TypeOK, Stages
  <2>6. /\ work \in Seq(Stage)
        /\ \A i \in DOMAIN work : work[i].key \in KeysOf(ToSet(work))
        /\ KeysOf(ToSet(work)) \subseteq Paths
    <3>1. \A i \in DOMAIN work : work[i] \in Stage
      BY <2>4, <2>5
    <3>2. work \in Seq(Stage)
      BY <2>4, <2>5
    <3>3. \A i \in DOMAIN work : work[i].key \in Paths
      BY <3>1 DEF Stage
    <3> QED
      BY <3>2, <3>3 DEF KeysOf, ToSet
  <2>7. target \in Paths \cup {All, <<>>}
    BY <2>5 DEF KeysOf, Stage
  <2>8. new \in Operation
    BY <2>6, <2>7, NoOpIs DEF Operation, Commands, Phases
  <2> HIDE DEF new
  <2>9. InHand(new) /\ InFile(new)
    BY <2>1, <2>3, <2>6 DEF InHand, InFile, PhasesOf
  <2>10. Turned(p) /\ op'[p] = new
    BY <1>1, <2>1, <2>2, <2>8, <2>9, StartTurns DEF files
  <2> QED
    BY <2>1, <2>3, <2>4, <2>10, FilesStay DEF Base, TypeOK
<1> QED
  BY <1>2, <1>3

LEMMA ReproduceTurns ==
    ASSUME Base, NEW p \in Proc, Reproduce(p)
    PROVE  /\ Turned(p) /\ FilesTyped' /\ UNCHANGED <<files, torn>> /\ holder = p
           /\ op[p].work # <<>> /\ op[p].cmd = "repro" /\ op[p].pc = "next"
           /\ \/ Fail(p)
              \/ /\ UNCHANGED <<ignored, exposed>>
                 /\ \/ Following(p)
                    \/ \E pc \in {"exec", "save"} : op'[p] = [op[p] EXCEPT !.pc = pc]
<1>1. op[p].pc = "next" /\ UNCHANGED <<files, torn>>
  BY DEF Reproduce
<1>2. op[p].work # <<>> /\ holder = p /\ InHand(op[p]) /\ op[p].cmd \in Commands
  BY <1>1, HandTyped DEF InHand, Holds, Operation
<1>3. op[p].cmd = "repro"
  BY <1>1, <1>2 DEF InHand, PhasesOf, Commands
<1>4. CASE Fail(p)
  BY <1>1, <1>2, <1>3, <1>4, FailTurns, FilesStay
<1>5. CASE NextStage(p) /\ UNCHANGED <<ignored, exposed>>
  <2>1. Turned(p) /\ Following(p) /\ holder' \in {p, "none"}
    BY <1>2, <1>3, <1>5, NextStageTurns
  <2> QED
    BY <1>1, <1>2, <1>3, <1>5, <2>1, FilesStay DEF Base, TypeOK
<1>6. CASE Goto(p, "exec") /\ holder' = "none" /\ UNCHANGED <<ignored, exposed>>
  <2>1. "exec" \in Phases /\ "exec" \in PhasesOf(op[p].cmd)
    BY <1>3 DEF Phases, PhasesOf
  <2>2. Turned(p) /\ op'[p] = [op[p] EXCEPT !.pc = "exec"]
    BY <1>2, <1>6, <2>1, GotoTurns
  <2> QED
    BY <1>1, <1>2, <1>3, <1>6, <2>2, FilesStay DEF Base, TypeOK
<1>7. CASE Goto(p, "save") /\ UNCHANGED <<holder, ignored, exposed>>
  <2>1. "save" \in Phases /\ "save" \in PhasesOf(op[p].cmd)
    BY <1>3 DEF Phases, PhasesOf
  <2>2. Turned(p) /\ op'[p] = [op[p] EXCEPT !.pc = "save"]
    BY <1>2, <1>7, <2>1, GotoTurns
  <2> QED
    BY <1>1, <1>2, <1>3, <1>7, <2>2, FilesStay DEF Base, TypeOK
<1> QED
  BY <1>4, <1>5, <1>6, <1>7 DEF Reproduce

(* A process that dies: what it has in hand to remove is given up.           *)
Died(p) ==
    /\ op'[p] = Ended /\ ignored' = ignored
    /\ exposed' = exposed \cup IF op[p].pc \in {"droplock", "dropyaml", "dropdvc"}
                               THEN Current(p).outs ELSE {}

LEMMA DieTurns ==
    ASSUME Base, NEW p \in Proc, Die(p), Become(p, Ended), UNCHANGED ignored
    PROVE  /\ Turned(p) /\ Died(p)
           /\ holder' \in Proc \cup {"none"} /\ ignored' \subseteq Paths /\ exposed' \subseteq Paths
<1>1. holder \in {p, "none"} \/ holder' = holder
  BY DEF Die
<1>2. Turned(p) /\ op'[p] = Ended
  BY <1>1, EndTurns
<1>3. op[p].pc \in {"droplock", "dropyaml", "dropdvc"} => op[p].work # <<>>
  BY HandTyped DEF InHand
<1>4. op[p].work # <<>> => Current(p).outs \subseteq Paths
  BY HandTyped
<1> QED
  BY <1>2, <1>3, <1>4 DEF Die, Died, Base, TypeOK

LEMMA CrashTurns ==
    ASSUME Base, NEW p \in Proc, Crash(p)
    PROVE  Turned(p) /\ FilesTyped' /\ Died(p) /\ UNCHANGED <<files, torn>>
<1>1. Die(p) /\ Become(p, Ended) /\ UNCHANGED <<files, ignored, torn>>
  BY DEF Crash
<1> QED
  BY <1>1, DieTurns, FilesStay

LEMMA CrashWritingTurns ==
    ASSUME Base, NEW p \in Proc, CrashWriting(p)
    PROVE  /\ Turned(p) /\ FilesTyped' /\ Died(p) /\ torn' = TRUE /\ holder = p
           /\ op[p].work # <<>> /\ Current(p) \in Stage
           /\ \/ /\ op[p].pc = "yaml" /\ yaml' \in SUBSET PutRecord(yaml, Current(p))
                 /\ PipelineKey(Current(p).key) /\ lock' = lock /\ dvc' = dvc
              \/ /\ op[p].pc = "lock" /\ lock' \in SUBSET PutRecord(lock, LockEntry(Current(p)))
                 /\ yaml' = yaml /\ dvc' = dvc
              \/ yaml' \subseteq yaml /\ lock' \subseteq lock /\ dvc' \subseteq dvc
<1> DEFINE s == Current(p)
<1>1. op[p].pc \in {"yaml", "lock", "dvc", "droplock", "dropyaml"}
      /\ torn' = TRUE /\ Die(p) /\ Become(p, Ended) /\ UNCHANGED ignored
  BY DEF CrashWriting
<1>2. /\ op[p].work # <<>> /\ s \in Stage /\ holder = p /\ s.key \in Paths
      /\ op[p].pc = "yaml" => PipelineKey(s.key)
  BY <1>1, HandTyped DEF InHand, InFile, Holds, Current
<1>3. /\ Turned(p) /\ Died(p)
      /\ holder' \in Proc \cup {"none"} /\ ignored' \subseteq Paths /\ exposed' \subseteq Paths
  BY <1>1, DieTurns
<1>4. /\ broken' \subseteq broken \cup {YamlFile, LockFile, s.key}
      /\ \/ op[p].pc = "yaml" /\ yaml' \in SUBSET PutRecord(yaml, s) /\ lock' = lock /\ dvc' = dvc
         \/ op[p].pc = "lock" /\ lock' \in SUBSET PutRecord(lock, LockEntry(s))
            /\ yaml' = yaml /\ dvc' = dvc
         \/ yaml' \subseteq yaml /\ lock' \subseteq lock /\ dvc' \subseteq dvc
  <2> DEFINE new == IF op[p].pc = "yaml" THEN PutRecord(yaml, s)
                    ELSE IF op[p].pc = "lock" THEN PutRecord(lock, LockEntry(s))
                    ELSE IF op[p].pc = "droplock" THEN Drop(lock, op[p].names)
                    ELSE Drop(yaml, op[p].names)
  <2>1. CASE /\ op[p].pc \in {"yaml", "dropyaml"}
             /\ \/ yaml' \in SUBSET new /\ UNCHANGED broken
                \/ yaml' = {} /\ broken' = broken \cup {YamlFile}
             /\ UNCHANGED <<lock, dvc>>
    BY <2>1, DropIsFewer
  <2>2. CASE /\ op[p].pc \in {"lock", "droplock"}
             /\ \/ lock' \in SUBSET new /\ UNCHANGED broken
                \/ lock' = {} /\ broken' = broken \cup {LockFile}
             /\ UNCHANGED <<yaml, dvc>>
    BY <2>2, DropIsFewer
  <2>3. CASE /\ op[p].pc = "dvc"
             /\ \/ dvc' = Drop(dvc, {s.key}) /\ UNCHANGED broken
                \/ dvc' = Drop(dvc, {s.key}) /\ broken' = broken \cup {s.key}
             /\ UNCHANGED <<yaml, lock>>
    BY <2>3, DropIsFewer
  <2> QED
    BY <2>1, <2>2, <2>3 DEF CrashWriting
<1>5. /\ OneRecordEach(PutRecord(yaml, s)) /\ OneRecordEach(PutRecord(lock, LockEntry(s)))
      /\ PutRecord(yaml, s) \subseteq Stage /\ PutRecord(lock, LockEntry(s)) \subseteq Entry
      /\ PipelineKey(s.key) => \A t \in PutRecord(yaml, s) : PipelineKey(t.key)
  <2> HIDE DEF s
  <2>1. PutRecord(lock, LockEntry(s)) \subseteq Entry
    BY <1>2, EntryOf DEF PutRecord, Base, TypeOK
  <2>2. PutRecord(yaml, s) \subseteq Stage
        /\ (PipelineKey(s.key) => \A t \in PutRecord(yaml, s) : PipelineKey(t.key))
    BY <1>2 DEF PutRecord, Base, TypeOK
  <2> QED
    BY <2>1, <2>2, PutKeepsOne DEF Base, TypeOK
<1>6. /\ OneRecordEach(yaml') /\ OneRecordEach(lock') /\ OneRecordEach(dvc')
      /\ yaml' \subseteq Stage /\ lock' \subseteq Entry /\ dvc' \subseteq Stage
      /\ (\A t \in yaml' : PipelineKey(t.key)) /\ (\A t \in dvc' : ~PipelineKey(t.key))
  BY <1>2, <1>4, <1>5, FewerKeepOne DEF Base, TypeOK
<1>7. FilesTyped'
  BY <1>1, <1>2, <1>3, <1>4, <1>6 DEF Base, TypeOK, FilesTyped
<1> QED
  BY <1>1, <1>2, <1>3, <1>4, <1>7

LEMMA StepTurns ==
    ASSUME Base, NEW p \in Proc, Step(p)
    PROVE  Turned(p) /\ FilesTyped'
<1>1. CASE Run(p) \/ ExecOk(p) \/ ExecFails(p) \/ Save(p) \/ SaveFails(p)
  BY <1>1, RunTurns, ExecTurns, SaveTurns, FailuresTurn
<1>2. CASE DumpYaml(p) \/ DumpLock(p) \/ DumpDvc(p) \/ DumpFails(p)
  BY <1>2, DumpYamlTurns, DumpLockTurns, DumpDvcTurns, FailuresTurn
<1>3. CASE Add(p) \/ Create(p) \/ CreateFails(p) \/ Import(p) \/ Update(p)
  BY <1>3, AddTurns, CreateTurns, FailuresTurn, ImportTurns, UpdateTurns
<1>4. CASE \/ RemoveStage(p) \/ Unignore(p) \/ UnignoreCutShort(p)
           \/ DropLock(p) \/ DropYaml(p) \/ DropDvc(p)
  BY <1>4, RemoveStageTurns, UnignoreTurns, UnignoreCutShortTurns, DropLockTurns, DropStageTurns
<1>5. CASE Move(p) \/ Freeze(p) \/ Repro(p) \/ Reproduce(p) \/ Crash(p) \/ CrashWriting(p)
  BY <1>5, MoveTurns, FreezeTurns, ReproTurns, ReproduceTurns, CrashTurns, CrashWritingTurns
<1> QED
  BY <1>1, <1>2, <1>3, <1>4, <1>5, Zenon DEF Step

(* Only save_outs puts entries into .gitignore, and remembers what was not   *)
(* there (scm/git/__init__.py:119).                                          *)
LEMMA GoingClaims ==
    ASSUME Base, NEW p \in Proc, op[p].pc # "none",
           NEW work, NEW later, NEW pc,
           \/ op'[p] = [op[p] EXCEPT !.pc = pc]
           \/ op'[p] = [op[p] EXCEPT !.later = later]
           \/ op'[p] = [op[p] EXCEPT !.work = work, !.pc = pc]
           \/ op'[p] = [op[p] EXCEPT !.work = work, !.pc = pc, !.later = later]
    PROVE  Claims(p)
<1>1. op[p] \in Operation /\ InHand(op[p])
  BY HandTyped
<1>2. Active(p)
  BY <1>1 DEF InHand, PhasesOf, Active
<1>3. op'[p].cmd = op[p].cmd /\ op'[p].mine = op[p].mine
  BY <1>1 DEF Operation
<1> QED
  BY <1>2, <1>3 DEF Claims

LEMMA EndedClaims ==
    ASSUME NEW p \in Proc, op'[p] = Ended
    PROVE  Claims(p)
BY EndedIs DEF Claims

LEMMA FollowingClaims ==
    ASSUME Base, NEW p \in Proc, op[p].pc # "none", Following(p)
    PROVE  Claims(p)
BY GoingClaims, EndedClaims DEF Following

LEMMA StartClaims ==
    ASSUME Base, NEW p \in Proc,
           \/ Run(p) \/ Add(p) \/ Import(p) \/ Update(p) \/ RemoveStage(p) \/ Move(p)
           \/ Freeze(p) \/ Repro(p)
    PROVE  Claims(p)
<1> DEFINE Clean(o) == o.mine = {}
<1>1. /\ NoOp.mine = {} /\ Ended.mine = {}
  BY NoOpIs DEF NoOp, Ended
<1>2. ASSUME NEW new, Become(p, new), new.mine = {} PROVE Claims(p)
  BY <1>2 DEF Become, Claims
<1>3. CASE Refuse(p)
  BY <1>1, <1>2, <1>3 DEF Refuse
<1>4. CASE ~Refuse(p)
  <2>1. CASE Run(p)
    BY <1>2, <1>4, <2>1 DEF Run, NoOp
  <2>2. CASE Add(p)
    BY <1>2, <1>4, <2>2 DEF Add, NoOp
  <2>3. CASE Import(p)
    BY <1>2, <1>4, <2>3 DEF Import, NoOp, Ended
  <2>4. CASE Update(p)
    BY <1>2, <1>4, <2>4 DEF Update, NoOp
  <2>5. CASE RemoveStage(p)
    BY <1>2, <1>4, <2>5 DEF RemoveStage, NoOp
  <2>6. CASE Move(p)
    BY <1>2, <1>4, <2>6 DEF Move, NoOp
  <2>7. CASE Freeze(p)
    BY <1>2, <1>4, <2>7 DEF Freeze, NoOp, Ended
  <2>8. CASE Repro(p)
    BY <1>2, <1>4, <2>8 DEF Repro, NoOp
  <2> QED
    BY <2>1, <2>2, <2>3, <2>4, <2>5, <2>6, <2>7, <2>8
<1> QED
  BY <1>3, <1>4

LEMMA CreateClaims ==
    ASSUME Base, NEW p \in Proc, Create(p)
    PROVE  Claims(p)
<1>1. op[p].pc = "create" /\ holder = p
  BY HandTyped DEF Create, Holds
<1>2. PICK work :
        \/ Become(p, [op[p] EXCEPT !.work = work, !.pc = "save", !.later = Tail(op[p].later)])
        \/ Become(p, [op[p] EXCEPT !.later = Tail(op[p].later)])
        \/ Become(p, Ended)
        \/ Fail(p)
  <2>1. op[p] \in Operation
    BY HandTyped
  <2> QED
    BY <2>1, Zenon DEF Create
<1>3. CASE Become(p, [op[p] EXCEPT !.work = work, !.pc = "save", !.later = Tail(op[p].later)])
  <2>1. op'[p] = [op[p] EXCEPT !.work = work, !.pc = "save", !.later = Tail(op[p].later)]
    BY <1>3 DEF Become
  <2> QED
    BY <1>1, <2>1, GoingClaims
<1>4. CASE Become(p, [op[p] EXCEPT !.later = Tail(op[p].later)])
  <2>1. op'[p] = [op[p] EXCEPT !.later = Tail(op[p].later)]
    BY <1>4 DEF Become
  <2> QED
    BY <1>1, <2>1, GoingClaims
<1>5. CASE Become(p, Ended) \/ Fail(p)
  <2>1. op'[p] = Ended
    BY <1>5 DEF Become, Fail
  <2> QED
    BY <2>1, EndedClaims
<1> QED
  BY <1>2, <1>3, <1>4, <1>5

LEMMA SaveClaimed ==
    ASSUME Base, NEW p \in Proc, Save(p)
    PROVE  Claims(p)
<1>1. /\ op[p] \in Operation /\ InHand(op[p]) /\ op[p].pc = "save" /\ op[p].work # <<>>
      /\ Current(p).outs \subseteq Paths
  BY SaveTurns, HandTyped DEF Save
<1>2. op'[p] = [op[p] EXCEPT !.pc = FirstDump(p), !.mine = @ \cup (Current(p).outs \ ignored)]
  BY SaveTurns
<1>3. op'[p].cmd = op[p].cmd /\ op'[p].mine = op[p].mine \cup (Current(p).outs \ ignored)
  BY <1>1, <1>2 DEF Operation
<1>4. Active(p)
  BY <1>1 DEF InHand, PhasesOf, Active
<1> QED
  BY <1>1, <1>3, <1>4 DEF Claims

LEMMA StepClaims ==
    ASSUME Base, NEW p \in Proc, Step(p)
    PROVE  Claims(p)
<1>1. CASE \/ Run(p) \/ Add(p) \/ Import(p) \/ Update(p) \/ RemoveStage(p) \/ Move(p)
           \/ Freeze(p) \/ Repro(p)
  BY <1>1, StartClaims
<1>2. CASE Save(p) \/ Create(p)
  BY <1>2, SaveClaimed, CreateClaims
<1>3. CASE ExecFails(p) \/ SaveFails(p) \/ DumpFails(p) \/ CreateFails(p)
  <2>1. op'[p] = Ended
    BY <1>3, EndTurns, HandTyped
       DEF ExecFails, SaveFails, DumpFails, CreateFails, Fail, Holds
  <2> QED
    BY <2>1, EndedClaims
<1>4. CASE ExecOk(p) \/ DropLock(p)
  <2>1. op[p].pc # "none" /\ \E pc : op'[p] = [op[p] EXCEPT !.pc = pc]
    BY <1>4 DEF ExecOk, DropLock, Goto, Become
  <2> QED
    BY <2>1, GoingClaims
<1>5. CASE DumpYaml(p) \/ DumpLock(p) \/ DumpDvc(p)
  <2>1. op[p].pc # "none" /\ (op'[p] = [op[p] EXCEPT !.pc = "lock"] \/ Following(p))
    BY <1>5, DumpYamlTurns, DumpLockTurns, DumpDvcTurns DEF DumpYaml, DumpLock, DumpDvc
  <2> QED
    BY <2>1, GoingClaims, FollowingClaims
<1>6. CASE Unignore(p)
  <2>1. op[p].pc # "none" /\ op[p] \in Operation
    BY <1>6, UnignoreTurns, HandTyped
  <2>2. CASE op'[p] = [op[p] EXCEPT !.work = Tail(op[p].work), !.pc = "save"]
    BY <2>1, <2>2, GoingClaims
  <2>3. ASSUME NEW pc, op'[p] = [op[p] EXCEPT !.pc = pc] PROVE Claims(p)
    BY <2>1, <2>3, GoingClaims
  <2> QED
    BY <1>6, <2>2, <2>3, UnignoreTurns
<1>7. CASE UnignoreCutShort(p) \/ DropYaml(p) \/ DropDvc(p) \/ Crash(p) \/ CrashWriting(p)
  <2>1. op'[p] = Ended
    BY <1>7, UnignoreCutShortTurns, DropStageTurns, CrashTurns, CrashWritingTurns DEF Died
  <2> QED
    BY <2>1, EndedClaims
<1>8. CASE Reproduce(p)
  <2>1. /\ op[p].pc # "none" /\ holder = p
        /\ \/ Fail(p)
           \/ Following(p)
           \/ \E pc \in {"exec", "save"} : op'[p] = [op[p] EXCEPT !.pc = pc]
    BY <1>8, ReproduceTurns DEF Reproduce
  <2> QED
    BY <2>1, FailTurns, EndedClaims, FollowingClaims, GoingClaims
<1> QED
  BY <1>1, <1>2, <1>3, <1>4, <1>5, <1>6, <1>7, <1>8, Zenon DEF Step

LEMMA InitBase == Init => Base
<1> SUFFICES ASSUME Init PROVE Base
  OBVIOUS
<1>1. PICK stages \in Projects :
         yaml = {s \in stages : PipelineKey(s.key)} /\ dvc = stages \ yaml
  BY DEF Init
<1>2. stages \subseteq Stage /\ OneRecordEach(stages)
  BY GivenStages DEF Given
<1>3. /\ yaml \subseteq Stage /\ dvc \subseteq Stage
      /\ (\A s \in yaml : PipelineKey(s.key)) /\ (\A s \in dvc : ~PipelineKey(s.key))
  BY <1>1, <1>2
<1>4. OneRecordEach(yaml) /\ OneRecordEach(dvc)
  BY <1>1, <1>2, FewerKeepOne
<1>5. lock \subseteq Entry /\ OneRecordEach(lock)
  <2>1. \A s \in yaml : LockEntry(s) \in Entry /\ LockEntry(s).key = s.key
    BY <1>3, EntryOf
  <2>2. lock = {} \/ lock = {LockEntry(s) : s \in yaml}
    BY DEF Init
  <2> QED
    BY <1>4, <2>1, <2>2 DEF OneRecordEach
<1>6. ignored \subseteq Paths
  <2>1. \A s \in Stage : s.outs \subseteq Paths
    BY DEF Stage
  <2>2. ignored = RecordedOuts
    BY DEF Init
  <2>3. UNION {s.outs : s \in dvc} \subseteq Paths
    BY <1>3, <2>1
  <2>4. \A x \in yaml \X lock : x[1].outs \subseteq Paths
    BY <1>3, <2>1
  <2>5. UNION {x[1].outs \cap x[2].outs : x \in {y \in yaml \X lock : y[1].key = y[2].key}}
        \subseteq Paths
    BY <2>4
  <2> QED
    BY <2>2, <2>3, <2>5 DEF RecordedOuts
<1>7. op = [p \in Proc |-> NoOp] /\ broken = {} /\ torn = FALSE /\ exposed = {} /\ holder = "none"
      /\ found = [p \in Proc |-> {}]
  BY DEF Init
<1>8. TypeOK
  BY <1>3, <1>4, <1>5, <1>6, <1>7, NoOpIs DEF TypeOK
<1>9. InHand(NoOp) /\ InFile(NoOp) /\ ~Holds(NoOp)
  BY NoOpIs DEF InHand, InFile, PhasesOf, Holds
<1>10. \A p \in Proc : Remembers(p)
  <2>1. \A p \in Proc : op[p] = NoOp /\ found[p] = {}
    BY <1>7
  <2> QED
    BY <2>1, NoOpIs DEF Remembers
<1> QED
  BY <1>7, <1>8, <1>9, <1>10 DEF Base, Held

LEMMA BaseStays ==
    ASSUME Base, [Next]_vars
    PROVE  Base'
<1>1. CASE UNCHANGED vars
  BY <1>1 DEF vars, Base, TypeOK, Held, Holds, InHand, InFile, Remembers, Active
<1>2. CASE Next /\ vars' # vars
  <2>1. PICK p \in Proc : Step(p)
    BY <1>2 DEF Next
  <2> QED
    BY <2>1, StepTurns, StepClaims, BaseKept
<1> QED
  BY <1>1, <1>2

(* The files, and what every command has in hand, are as described, given    *)
(* that dvc repro has found stages (repo/reproduce.py:208).                  *)
THEOREM StageFilesTypes == Spec => []Base
<1>1. Base /\ [Next]_vars => Base'
  BY BaseStays
<1> QED
  BY InitBase, <1>1, PTL DEF Spec

-------------------------------------------------------------------------------
(* ReproPlan.                                                                *)

LEMMA OnlyReproPlans ==
    ASSUME Base, NEW p \in Proc, Step(p), op[p].cmd = "idle", op'[p].cmd = "repro"
    PROVE  Repro(p)
<1>1. op[p].pc = "none"
  BY HandTyped DEF InHand, PhasesOf
<1>2. Ended.cmd = "ended"
  BY EndedIs
<1>3. ~Run(p)
  BY <1>2, RunTurns
<1>4. ~Add(p) /\ ~Update(p) /\ ~RemoveStage(p)
  BY <1>2, AddTurns, UpdateTurns, RemoveStageTurns
<1>5. ~Import(p)
  BY <1>2, ImportTurns, RefuseTurns DEF Imported
<1>6. ~Move(p) /\ ~Freeze(p)
  BY <1>2, MoveTurns, FreezeTurns, RefuseTurns
<1>7. /\ ~ExecOk(p) /\ ~ExecFails(p) /\ ~Save(p) /\ ~SaveFails(p)
      /\ ~DumpYaml(p) /\ ~DumpLock(p) /\ ~DumpDvc(p) /\ ~DumpFails(p)
      /\ ~Create(p) /\ ~CreateFails(p)
  BY <1>1 DEF ExecOk, ExecFails, Save, SaveFails, DumpYaml, DumpLock, DumpDvc, DumpFails,
              Create, CreateFails
<1>8. /\ ~Unignore(p) /\ ~UnignoreCutShort(p) /\ ~DropLock(p) /\ ~DropYaml(p) /\ ~DropDvc(p)
      /\ ~Reproduce(p) /\ ~Crash(p) /\ ~CrashWriting(p)
  BY <1>1 DEF Unignore, UnignoreCutShort, DropLock, DropYaml, DropDvc, Reproduce, Crash, CrashWriting, Active
<1> QED
  BY <1>3, <1>4, <1>5, <1>6, <1>7, <1>8, Zenon DEF Step

(* dvc repro works on all stages that its target needs, or that need it, and *)
(* on none before what it needs (repo/reproduce.py:57 and 208).              *)
THEOREM PlansAreComplete == Spec => ReproPlan
<1>1. Base /\ [Next]_vars => [PlanStands]_vars
  <2> SUFFICES ASSUME Base, [Next]_vars, vars' # vars PROVE PlanStands
    OBVIOUS
  <2>1. PICK q \in Proc : Step(q)
    BY DEF Next
  <2> SUFFICES ASSUME NEW p \in Proc, op[p].cmd = "idle", op'[p].cmd = "repro"
               PROVE  /\ Wanted(op'[p].target, op'[p].downstream) \subseteq op'[p].names
                      /\ op'[p].work \in Seq(Stages)
                      /\ PlanOrdered(op'[p].work)
    BY Zenon DEF PlanStands, Wanted, PlanOrdered
  <2>2. p = q
    <3> SUFFICES ASSUME p # q PROVE FALSE
      OBVIOUS
    <3>1. Same(p)
      BY <2>1, StepTurns DEF Turned, Turn
    <3> QED
      BY <3>1, SameKeeps DEF Base
  <2>3. Repro(p)
    BY <2>1, <2>2, OnlyReproPlans
  <2>4. op'[p] # Ended
    BY EndedIs
  <2> QED
    BY <2>3, <2>4, ReproTurns
<1> QED
  BY StageFilesTypes, <1>1, PTL DEF Spec, ReproPlan

-------------------------------------------------------------------------------
(* OthersKept.                                                               *)

Named(old, new, names) == Changed(old, new) \subseteq names

LEMMA PutChanges ==
    ASSUME NEW records, NEW s
    PROVE  Named(records, PutRecord(records, s), {s.key})
BY DEF Named, Changed, KeysOf, PutRecord

LEMMA DropChanges ==
    ASSUME NEW records, NEW keys
    PROVE  Named(records, Drop(records, keys), keys)
BY DEF Named, Changed, KeysOf, Drop

LEMMA NoneChanges ==
    ASSUME NEW records, NEW keys
    PROVE  Named(records, records, keys)
BY DEF Named, Changed, KeysOf

OthersNow ==
    ~torn' => \E p \in Proc :
        Changed(yaml, yaml') \cup Changed(lock, lock') \cup Changed(dvc, dvc')
            \subseteq op[p].names \cup op'[p].names
OursNow(p) ==
    \E names \in SUBSET (op[p].names \cup op'[p].names) :
       Named(yaml, yaml', names) /\ Named(lock, lock', names) /\ Named(dvc, dvc', names)

LEMMA StepOthers ==
    ASSUME Base, NEW p \in Proc, Step(p)
    PROVE  torn' \/ OursNow(p)
<1>1. CASE UNCHANGED files
  BY <1>1, NoneChanges DEF OursNow, files
<1>2. CASE DumpYaml(p)
  <2>1. yaml' = PutRecord(yaml, Current(p)) /\ UNCHANGED <<lock, dvc>> /\ Current(p).key \in op[p].names
    BY <1>2, DumpYamlTurns, HandTyped
  <2> QED
    BY <2>1, PutChanges, NoneChanges DEF OursNow
<1>3. CASE DumpLock(p)
  <2>1. /\ lock' = PutRecord(lock, LockEntry(Current(p))) /\ UNCHANGED <<yaml, dvc>>
        /\ Current(p).key \in op[p].names /\ LockEntry(Current(p)).key = Current(p).key
    BY <1>3, DumpLockTurns, HandTyped, EntryOf
  <2> QED
    BY <2>1, PutChanges, NoneChanges DEF OursNow
<1>4. CASE DumpDvc(p)
  <2>1. dvc' = PutRecord(dvc, Current(p)) /\ UNCHANGED <<yaml, lock>> /\ Current(p).key \in op[p].names
    BY <1>4, DumpDvcTurns, HandTyped
  <2> QED
    BY <2>1, PutChanges, NoneChanges DEF OursNow
<1>5. CASE Create(p)
  <2>1. PICK kept \in SUBSET op[p].names : dvc' = Drop(dvc, kept) /\ UNCHANGED <<yaml, lock>>
    BY <1>5, CreateTurns
  <2> QED
    BY <2>1, DropChanges, NoneChanges DEF OursNow
<1>6. CASE Import(p)
  <2>1. CASE Refuse(p)
    BY <1>1, <2>1 DEF Refuse
  <2>2. CASE ~Refuse(p)
    <3>1. PICK s \in Stage : Imported(p, s)
      BY <1>6, <2>2, ImportTurns
    <3>2. dvc' = Drop(dvc, {s.key}) /\ UNCHANGED <<yaml, lock>> /\ s.key \in op'[p].names
      BY <3>1 DEF Imported
    <3> QED
      BY <3>2, DropChanges, NoneChanges DEF OursNow
  <2> QED
    BY <2>1, <2>2
<1>7. CASE DropLock(p) \/ DropYaml(p) \/ DropDvc(p)
  <2>1. \/ lock' = Drop(lock, op[p].names) /\ UNCHANGED <<yaml, dvc>>
        \/ yaml' = Drop(yaml, op[p].names) /\ UNCHANGED <<lock, dvc>>
        \/ dvc' = Drop(dvc, op[p].names) /\ UNCHANGED <<yaml, lock>>
    BY <1>7 DEF DropLock, DropYaml, DropDvc
  <2> QED
    BY <2>1, DropChanges, NoneChanges DEF OursNow
<1>8. CASE Move(p)
  <2>1. CASE Refuse(p)
    BY <1>1, <2>1 DEF Refuse
  <2>2. CASE ~Refuse(p)
    <3>1. PICK s \in dvc : dvc' = Drop(dvc, {s.key}) /\ UNCHANGED <<yaml, lock>> /\ s.key \in op'[p].names
      BY <1>8, <2>2, MoveTurns
    <3> QED
      BY <3>1, DropChanges, NoneChanges DEF OursNow
  <2> QED
    BY <2>1, <2>2
<1>9. CASE Freeze(p)
  <2>1. CASE Refuse(p)
    BY <1>1, <2>1 DEF Refuse
  <2>2. CASE ~Refuse(p)
    <3>1. PICK s \in Stages, frozen \in BOOLEAN :
             /\ IF PipelineKey(s.key)
                THEN yaml' = PutRecord(yaml, [s EXCEPT !.frozen = frozen]) /\ dvc' = dvc
                ELSE dvc' = PutRecord(dvc, [s EXCEPT !.frozen = frozen]) /\ yaml' = yaml
             /\ lock' = lock /\ op'[p].names = {s.key}
      BY <1>9, <2>2, FreezeTurns
    <3>2. [s EXCEPT !.frozen = frozen].key = s.key
      BY DEF Base, TypeOK, Stages, Stage
    <3> DEFINE t == [s EXCEPT !.frozen = frozen]
    <3> HIDE DEF t
    <3>3. /\ yaml' = PutRecord(yaml, t) \/ yaml' = yaml
          /\ dvc' = PutRecord(dvc, t) \/ dvc' = dvc
          /\ t.key = s.key
      BY <3>1, <3>2 DEF t
    <3>4. Named(yaml, yaml', {s.key}) /\ Named(dvc, dvc', {s.key}) /\ Named(lock, lock', {s.key})
      BY <3>1, <3>3, PutChanges, NoneChanges
    <3> QED
      BY <3>1, <3>4 DEF OursNow
  <2> QED
    BY <2>1, <2>2
<1>10. CASE CrashWriting(p)
  BY <1>10, CrashWritingTurns
<1>11. CASE \/ Run(p) \/ ExecOk(p) \/ ExecFails(p) \/ Save(p) \/ SaveFails(p) \/ DumpFails(p)
            \/ Add(p) \/ CreateFails(p) \/ Update(p) \/ RemoveStage(p) \/ Unignore(p)
            \/ UnignoreCutShort(p) \/ Repro(p) \/ Reproduce(p) \/ Crash(p)
  <2>1. UNCHANGED files
    BY <1>11 DEF Run, Refuse, ExecOk, ExecFails, Save, SaveFails, DumpFails, Add, CreateFails,
                 Update, RemoveStage, Unignore, UnignoreCutShort, Repro, Reproduce, Crash
  <2> QED
    BY <1>1, <2>1
<1> QED
  BY <1>2, <1>3, <1>4, <1>5, <1>6, <1>7, <1>8, <1>9, <1>10, <1>11, Zenon DEF Step

(* Whatever commands overlap, the record of a stage is lost or changed only  *)
(* by a command that was asked for it (dvcfile.py:213, 252 and 295).         *)
THEOREM OtherRecordsKept == Spec => OthersKept
<1>1. Base /\ [Next]_vars => [OthersNow]_vars
  <2> SUFFICES ASSUME Base, [Next]_vars, vars' # vars
               PROVE  OthersNow
    OBVIOUS
  <2>1. PICK p \in Proc : Step(p)
    BY DEF Next
  <2> QED
    BY <2>1, StepOthers DEF OthersNow, OursNow, Named
<1> QED
  BY StageFilesTypes, <1>1, PTL DEF Spec, OthersKept, OthersNow

-------------------------------------------------------------------------------
(* RecordedIgnored.                                                          *)

LEMMA StepAlone ==
    ASSUME Base, NEW p \in Proc, Step(p)
    PROVE  holder \in {p, "none"} \/ Crash(p)
<1>1. CASE \/ Run(p) \/ Add(p) \/ Import(p) \/ Update(p) \/ RemoveStage(p) \/ Move(p)
           \/ Freeze(p) \/ Repro(p)
  BY <1>1 DEF Run, Add, Import, Update, RemoveStage, Move, Freeze, Repro, Start
<1>2. CASE ExecOk(p) \/ ExecFails(p)
  BY <1>2 DEF ExecOk, ExecFails
<1>3. CASE \/ Save(p) \/ SaveFails(p) \/ DumpYaml(p) \/ DumpLock(p) \/ DumpDvc(p) \/ DumpFails(p)
           \/ Create(p) \/ CreateFails(p) \/ Unignore(p) \/ DropLock(p) \/ DropYaml(p)
           \/ DropDvc(p) \/ Reproduce(p) \/ CrashWriting(p) \/ UnignoreCutShort(p)
  <2>1. op[p].pc \notin {"none", "exec"}
    BY <1>3 DEF Save, SaveFails, DumpYaml, DumpLock, DumpDvc, DumpFails, Create, CreateFails,
                Unignore, DropLock, DropYaml, DropDvc, Reproduce, CrashWriting,
                UnignoreCutShort
  <2> QED
    BY <2>1, HandTyped DEF Holds
<1> QED
  BY <1>1, <1>2, <1>3, Zenon DEF Step

Drops(o) == o.pc \in {"droplock", "dropyaml", "dropdvc"}
Quiet(o) == /\ o.pc \notin {"yaml", "lock", "dvc"} /\ ~Drops(o)
            /\ ~(o.cmd = "move" /\ o.pc = "unignore")

LEMMA OthersHidden ==
    ASSUME Base, Hidden, NEW p \in Proc, Step(p), Turned(p), NEW q \in Proc \ {p}
    PROVE  Saved(q)' /\ Removing(q)' /\ Moving(q)'
<1>1. Same(q)
  BY DEF Turned, Turn
<1>2. op'[q].pc = op[q].pc /\ op'[q].cmd = op[q].cmd /\ op'[q].work = op[q].work
  BY <1>1, SameKeeps DEF Base
<1>3. CASE holder \in {p, "none"}
  <2>1. ~Holds(op[q])
    BY <1>3, HandTyped, ProcessNames
  <2>2. op'[q].pc \in {"none", "exec"}
    BY <1>2, <2>1 DEF Holds
  <2> QED
    BY <2>2 DEF Saved, Removing, Moving
<1>4. CASE Crash(p)
  <2>1. UNCHANGED <<yaml, dvc, ignored>> /\ exposed \subseteq exposed'
    BY <1>4 DEF Crash, Die, files
  <2>2. Saved(q) /\ Removing(q) /\ Moving(q)
    BY DEF Hidden
  <2> QED
    BY <1>2, <2>1, <2>2 DEF Saved, Removing, Moving, Current, Shared, Stages, Drop, KeysOf
<1> QED
  BY <1>3, <1>4, StepAlone

LEMMA QuietIs ==
    ASSUME NEW p \in Proc, Quiet(op'[p])
    PROVE  Saved(p)' /\ Removing(p)' /\ Moving(p)'
BY DEF Quiet, Drops, Saved, Removing, Moving

LEMMA RecordedIs ==
    ASSUME NEW x
    PROVE  x \in RecordedOuts <=>
              \/ \E s \in dvc : x \in s.outs
              \/ \E s \in yaml, l \in lock : s.key = l.key /\ x \in s.outs /\ x \in l.outs
<1>1. (\E y \in {z \in yaml \X lock : z[1].key = z[2].key} : x \in y[1].outs \cap y[2].outs)
      <=> \E s \in yaml, l \in lock : s.key = l.key /\ x \in s.outs /\ x \in l.outs
  <2>1. ASSUME NEW s \in yaml, NEW l \in lock, s.key = l.key, x \in s.outs, x \in l.outs
        PROVE  \E y \in {z \in yaml \X lock : z[1].key = z[2].key} : x \in y[1].outs \cap y[2].outs
    <3>1. <<s, l>> \in {z \in yaml \X lock : z[1].key = z[2].key}
      BY <2>1
    <3> QED
      BY <2>1, <3>1
  <2>2. ASSUME NEW y \in {z \in yaml \X lock : z[1].key = z[2].key}, x \in y[1].outs \cap y[2].outs
        PROVE  \E s \in yaml, l \in lock : s.key = l.key /\ x \in s.outs /\ x \in l.outs
    BY <2>2
  <2> QED
    BY <2>1, <2>2
<1> QED
  BY <1>1 DEF RecordedOuts

(* What is recorded afterwards was before, or is of more, which is ignored.  *)
LEMMA RecordedKept ==
    ASSUME Base, RecordedIgnored, NEW p \in Proc, Turned(p), NEW more,
           RecordedOuts' \subseteq RecordedOuts \cup more,
           more \subseteq ignored' \cup exposed',
           ignored \cup exposed \subseteq ignored' \cup exposed',
           \/ ~Drops(op[p])
           \/ Drops(op'[p]) /\ op'[p].work = op[p].work
           \/ Current(p).outs \subseteq exposed'
    PROVE  RecordedIgnored'
<1> SUFFICES ASSUME NEW x \in RecordedOuts', x \notin ignored' \cup exposed'
             PROVE  \E q \in Proc : Drops(op'[q]) /\ x \in Head(op'[q].work).outs
  BY DEF RecordedIgnored, BeingRemoved, Drops, Current
<1>1. x \in RecordedOuts /\ x \notin ignored \cup exposed
  OBVIOUS
<1>2. PICK q \in Proc : Drops(op[q]) /\ x \in Head(op[q].work).outs
  BY <1>1 DEF RecordedIgnored, BeingRemoved, Drops, Current
<1>3. CASE q = p
  BY <1>2, <1>3 DEF Current
<1>4. CASE q # p
  <2>1. op'[q].pc = op[q].pc /\ op'[q].work = op[q].work
    BY <1>4, SameKeeps DEF Turned, Turn, Base
  <2> QED
    BY <1>2, <2>1 DEF Drops
<1> QED
  BY <1>3, <1>4

LEMMA HiddenFrom ==
    ASSUME Base, Hidden, NEW p \in Proc, Step(p), Turned(p), RecordedIgnored',
           Saved(p)' /\ Removing(p)' /\ Moving(p)'
    PROVE  Hidden'
<1>1. \A q \in Proc \ {p} : Saved(q)' /\ Removing(q)' /\ Moving(q)'
  BY OthersHidden
<1> QED
  BY <1>1 DEF Hidden

LEMMA SameFilesSameOuts ==
    ASSUME UNCHANGED files
    PROVE  RecordedOuts' = RecordedOuts
BY DEF RecordedOuts, files

LEMMA FewerOuts ==
    ASSUME yaml' \subseteq yaml, lock' \subseteq lock, dvc' \subseteq dvc
    PROVE  RecordedOuts' \subseteq RecordedOuts
<1> SUFFICES ASSUME NEW x, x \in RecordedOuts' PROVE x \in RecordedOuts
  OBVIOUS
<1>1. \/ \E s \in dvc' : x \in s.outs
      \/ \E s \in yaml', l \in lock' : s.key = l.key /\ x \in s.outs /\ x \in l.outs
  BY RecordedIs DEF RecordedOuts
<1> QED
  BY <1>1, RecordedIs

(* A command that fails, or goes on, without a file.                         *)
LEMMA FailKeeps ==
    ASSUME Base, NEW p \in Proc, Fail(p), holder \in {p, "none"}
    PROVE  Quiet(op'[p]) /\ ignored \cup exposed \subseteq ignored' \cup exposed'
BY FailTurns, EndedIs DEF Quiet, Drops

LEMMA FollowingQuiet ==
    ASSUME Base, NEW p \in Proc, Following(p)
    PROVE  Quiet(op'[p])
<1>1. op'[p].pc \in {"none", "next", "save", "create"}
  BY EndedIs, HandTyped DEF Following, Operation
<1> QED
  BY <1>1 DEF Quiet, Drops

LEMMA QuietHidden ==
    ASSUME Base, Hidden, NEW p \in Proc, Step(p), Turned(p), Quiet(op'[p]),
           UNCHANGED files, ~Drops(op[p]),
           ignored \cup exposed \subseteq ignored' \cup exposed'
    PROVE  Hidden'
<1>1. RecordedOuts' \subseteq RecordedOuts \cup {}
  BY SameFilesSameOuts
<1>2. RecordedIgnored'
  BY <1>1, RecordedKept DEF Hidden
<1> QED
  BY <1>2, QuietIs, HiddenFrom

LEMMA HiddenQuietly ==
    ASSUME Base, Hidden, NEW p \in Proc, Step(p),
           \/ Run(p) \/ ExecOk(p) \/ ExecFails(p) \/ SaveFails(p) \/ DumpFails(p)
           \/ CreateFails(p) \/ Add(p) \/ Update(p) \/ RemoveStage(p) \/ Repro(p) \/ Reproduce(p)
    PROVE  Hidden'
<1>1. CASE Run(p) \/ Add(p) \/ Update(p) \/ RemoveStage(p) \/ Repro(p)
  <2>1. Start(p)
    BY <1>1 DEF Run, Add, Update, RemoveStage, Repro
  <2>2. ~Drops(op[p])
    BY <2>1, HandTyped DEF Start, InHand, PhasesOf, Drops
  <2>3. UNCHANGED <<files, ignored, exposed>>
    BY <1>1, RunTurns, UpdateTurns, RemoveStageTurns, ReproTurns DEF Add
  <2>4. \/ op'[p].pc \in {"none", "exec", "save", "create", "next"}
        \/ op'[p].pc = "unignore" /\ op'[p].cmd = "remove"
    <3>1. CASE Run(p)
      BY <3>1, RunTurns, EndedIs
    <3>2. CASE Add(p)
      BY <3>2, AddTurns
    <3>3. CASE Update(p)
      BY <3>3, UpdateTurns, EndedIs
    <3>4. CASE RemoveStage(p)
      <4>1. /\ op'[p].pc \in {"none", "unignore"} /\ op'[p].cmd \in {"ended", "remove"}
            /\ InHand(op'[p])
        BY <3>4, RemoveStageTurns DEF Turned
      <4> QED
        BY <4>1 DEF InHand, PhasesOf
    <3>5. CASE Repro(p)
      BY <3>5, ReproTurns, EndedIs
    <3> QED
      BY <1>1, <3>1, <3>2, <3>3, <3>4, <3>5
  <2>5. Quiet(op'[p])
    BY <2>4 DEF Quiet, Drops
  <2> QED
    BY <2>2, <2>3, <2>5, StepTurns, QuietHidden
<1>2. CASE ExecOk(p)
  <2>1. op'[p].pc = "save" /\ op[p].pc = "exec" /\ UNCHANGED <<files, ignored, exposed>>
    BY <1>2, ExecTurns, HandTyped DEF ExecOk, Operation
  <2>2. Quiet(op'[p]) /\ ~Drops(op[p])
    BY <2>1 DEF Quiet, Drops
  <2> QED
    BY <2>1, <2>2, StepTurns, QuietHidden
<1>3. CASE ExecFails(p)
  <2>1. op[p].pc = "exec" /\ holder = "none" /\ Fail(p) /\ UNCHANGED files
    BY <1>3 DEF ExecFails
  <2>2. ~Drops(op[p])
    BY <2>1 DEF Drops
  <2> QED
    BY <2>1, <2>2, FailKeeps, StepTurns, QuietHidden
<1>4. CASE SaveFails(p) \/ DumpFails(p) \/ CreateFails(p)
  <2>1. holder = p /\ Fail(p) /\ op[p].pc \in {"save", "yaml", "lock", "create"} /\ UNCHANGED files
    BY <1>4, FailuresTurn
  <2>2. ~Drops(op[p])
    BY <2>1 DEF Drops
  <2> QED
    BY <2>1, <2>2, FailKeeps, StepTurns, QuietHidden
<1>5. CASE Reproduce(p)
  <2>1. holder = p /\ op[p].pc = "next" /\ UNCHANGED files
    BY <1>5, ReproduceTurns
  <2>2. ~Drops(op[p])
    BY <2>1 DEF Drops
  <2>3. CASE Fail(p)
    BY <2>1, <2>2, <2>3, FailKeeps, StepTurns, QuietHidden
  <2>4. CASE UNCHANGED <<ignored, exposed>> /\ Following(p)
    BY <2>1, <2>2, <2>4, FollowingQuiet, StepTurns, QuietHidden
  <2>5. CASE UNCHANGED <<ignored, exposed>>
             /\ \E pc \in {"exec", "save"} : op'[p] = [op[p] EXCEPT !.pc = pc]
    <3>1. op'[p].pc \in {"exec", "save"}
      BY <2>5, HandTyped DEF Operation
    <3>2. Quiet(op'[p])
      BY <3>1 DEF Quiet, Drops
    <3> QED
      BY <2>1, <2>2, <2>5, <3>2, StepTurns, QuietHidden
  <2> QED
    BY <1>5, <2>3, <2>4, <2>5, ReproduceTurns
<1> QED
  BY <1>1, <1>2, <1>3, <1>4, <1>5

(* The outputs of a stage that is written were there before, or are its own. *)
LEMMA PutStageOuts ==
    ASSUME NEW s, lock' \subseteq lock,
           \/ yaml' \subseteq PutRecord(yaml, s) /\ dvc' \subseteq dvc
           \/ dvc' \subseteq PutRecord(dvc, s) /\ yaml' \subseteq yaml
    PROVE  RecordedOuts' \subseteq RecordedOuts \cup s.outs
<1> SUFFICES ASSUME NEW x, x \in RecordedOuts', x \notin s.outs PROVE x \in RecordedOuts
  OBVIOUS
<1>1. \/ \E t \in dvc' : x \in t.outs
      \/ \E t \in yaml', l \in lock' : t.key = l.key /\ x \in t.outs /\ x \in l.outs
  BY RecordedIs DEF RecordedOuts
<1>2. \A t \in yaml' : x \in t.outs => t \in yaml
  BY DEF PutRecord
<1>3. \A t \in dvc' : x \in t.outs => t \in dvc
  BY DEF PutRecord
<1> QED
  BY <1>1, <1>2, <1>3, RecordedIs

LEMMA PutEntryOuts ==
    ASSUME NEW l, lock' \subseteq PutRecord(lock, l), yaml' \subseteq yaml, dvc' \subseteq dvc
    PROVE  RecordedOuts' \subseteq RecordedOuts \cup l.outs
<1> SUFFICES ASSUME NEW x, x \in RecordedOuts', x \notin l.outs PROVE x \in RecordedOuts
  OBVIOUS
<1>1. \/ \E t \in dvc' : x \in t.outs
      \/ \E t \in yaml', m \in lock' : t.key = m.key /\ x \in t.outs /\ x \in m.outs
  BY RecordedIs DEF RecordedOuts
<1>2. \A m \in lock' : x \in m.outs => m \in lock
  BY DEF PutRecord
<1> QED
  BY <1>1, <1>2, RecordedIs

LEMMA HiddenSave ==
    ASSUME Base, Hidden, NEW p \in Proc, Step(p), Save(p)
    PROVE  Hidden'
<1>1. /\ op[p].pc = "save" /\ UNCHANGED <<files, holder, torn>>
      /\ ignored' = ignored \cup Current(p).outs /\ exposed' = exposed \ Current(p).outs
  BY DEF Save
<1>2. /\ Turned(p)
      /\ op'[p] = [op[p] EXCEPT !.pc = FirstDump(p), !.mine = @ \cup (Current(p).outs \ ignored)]
      /\ FirstDump(p) \in {"dvc", "yaml", "lock"} /\ op[p] \in Operation
  BY SaveTurns, HandTyped
<1>3. op'[p].pc \in {"dvc", "yaml", "lock"} /\ op'[p].work = op[p].work
  BY <1>2 DEF Operation
<1>4. RecordedIgnored'
  <2>1. RecordedOuts' \subseteq RecordedOuts \cup {}
    BY <1>1, SameFilesSameOuts
  <2>2. ~Drops(op[p])
    BY <1>1 DEF Drops
  <2> QED
    BY <1>1, <1>2, <2>1, <2>2, RecordedKept DEF Hidden
<1>5. Saved(p)' /\ Removing(p)' /\ Moving(p)'
  BY <1>1, <1>3 DEF Saved, Removing, Moving, Current
<1> QED
  BY <1>2, <1>4, <1>5, HiddenFrom

LEMMA HiddenDump ==
    ASSUME Base, Hidden, NEW p \in Proc, Step(p),
           DumpYaml(p) \/ DumpLock(p) \/ DumpDvc(p)
    PROVE  Hidden'
<1>1. op[p].pc \in {"yaml", "lock", "dvc"} /\ UNCHANGED <<ignored, exposed>>
  BY DEF DumpYaml, DumpLock, DumpDvc
<1>2. Current(p).outs \subseteq ignored \cup exposed
  BY <1>1 DEF Hidden, Saved
<1>3. PICK outs : outs = Current(p).outs
  OBVIOUS
<1>4. RecordedOuts' \subseteq RecordedOuts \cup outs
  <2>1. CASE DumpYaml(p)
    BY <1>3, <2>1, DumpYamlTurns, PutStageOuts
  <2>2. CASE DumpLock(p)
    BY <1>3, <2>2, DumpLockTurns, PutEntryOuts, EntryOf
  <2>3. CASE DumpDvc(p)
    BY <1>3, <2>3, DumpDvcTurns, PutStageOuts
  <2> QED
    BY <2>1, <2>2, <2>3
<1>5. Turned(p)
  BY StepTurns
<1>6. RecordedIgnored'
  <2>1. ~Drops(op[p])
    BY <1>1 DEF Drops
  <2> QED
    BY <1>1, <1>2, <1>3, <1>4, <1>5, <2>1, RecordedKept DEF Hidden
<1>7. op'[p] = [op[p] EXCEPT !.pc = "lock"] \/ Following(p)
  BY DumpYamlTurns, DumpLockTurns, DumpDvcTurns
<1>8. CASE Following(p)
  BY <1>5, <1>6, <1>8, FollowingQuiet, QuietIs, HiddenFrom
<1>9. CASE op'[p] = [op[p] EXCEPT !.pc = "lock"]
  <2>1. op'[p].pc = "lock" /\ op'[p].work = op[p].work
    BY <1>9, HandTyped DEF Operation
  <2>2. Saved(p)' /\ Removing(p)' /\ Moving(p)'
    BY <1>1, <1>2, <2>1 DEF Saved, Removing, Moving, Current
  <2> QED
    BY <1>5, <1>6, <2>2, HiddenFrom
<1> QED
  BY <1>7, <1>8, <1>9

(* Fewer records.                                                            *)
LEMMA HiddenFewer ==
    ASSUME Base, Hidden, NEW p \in Proc, Step(p),
           Create(p) \/ Import(p) \/ Move(p)
    PROVE  Hidden'
<1>1. Turned(p) /\ ~Drops(op[p])
  <2>1. CASE Create(p)
    BY <2>1, CreateTurns DEF Create, Drops
  <2>2. CASE Import(p) \/ Move(p)
    BY <2>2, StepTurns, HandTyped DEF Import, Move, Start, InHand, PhasesOf, Drops
  <2> QED
    BY <2>1, <2>2, StepTurns
<1>2. CASE Create(p)
  <2>1. PICK kept : dvc' = Drop(dvc, kept) /\ Created(p, kept) /\ UNCHANGED <<yaml, lock>>
    BY <1>2, CreateTurns
  <2>2. /\ op'[p].pc \in {"save", "create", "none"} /\ ignored \cup exposed \subseteq ignored' \cup exposed'
    BY <2>1, EndedIs DEF Created
  <2>3. RecordedOuts' \subseteq RecordedOuts \cup {}
    BY <2>1, DropIsFewer, FewerOuts
  <2>4. RecordedIgnored'
    BY <1>1, <2>2, <2>3, RecordedKept DEF Hidden
  <2>5. Quiet(op'[p])
    BY <2>2 DEF Quiet, Drops
  <2> QED
    BY <1>1, <2>4, <2>5, QuietIs, HiddenFrom
<1>3. CASE Refuse(p)
  <2>1. Quiet(op'[p]) /\ UNCHANGED <<files, ignored, exposed>>
    BY <1>3, RefuseTurns, EndedIs DEF Refuse, Quiet, Drops
  <2> QED
    BY <1>1, <2>1, QuietHidden
<1>4. CASE Import(p) /\ ~Refuse(p)
  <2>1. PICK s \in Stage : Imported(p, s)
    BY <1>4, ImportTurns
  <2>2. RecordedOuts' \subseteq RecordedOuts \cup {}
    BY <2>1, DropIsFewer, FewerOuts DEF Imported
  <2>3. RecordedIgnored'
    BY <1>1, <2>1, <2>2, RecordedKept DEF Hidden, Imported
  <2>4. Quiet(op'[p])
    BY <2>1 DEF Quiet, Drops, Imported
  <2> QED
    BY <1>1, <2>3, <2>4, QuietIs, HiddenFrom
<1>5. CASE Move(p) /\ ~Refuse(p)
  <2>1. PICK s \in dvc :
           /\ dvc' = Drop(dvc, {s.key})
           /\ UNCHANGED <<yaml, lock, ignored, exposed>>
           /\ op'[p].cmd = "move" /\ op'[p].pc = "unignore" /\ Head(op'[p].work) = s
    BY <1>5, MoveTurns
  <2>2. RecordedOuts' \subseteq RecordedOuts \cup {}
    BY <2>1, DropIsFewer, FewerOuts
  <2>3. RecordedIgnored'
    BY <1>1, <2>1, <2>2, RecordedKept DEF Hidden
  <2>4. s.key \notin KeysOf(dvc')
    BY <2>1 DEF KeysOf, Drop
  <2>5. Saved(p)' /\ Removing(p)' /\ Moving(p)'
    BY <2>1, <2>4 DEF Saved, Removing, Moving, Current
  <2> QED
    BY <1>1, <2>3, <2>5, HiddenFrom
<1> QED
  BY <1>2, <1>3, <1>4, <1>5

LEMMA HiddenFreeze ==
    ASSUME Base, Hidden, NEW p \in Proc, Step(p), Freeze(p)
    PROVE  Hidden'
<1>1. Turned(p) /\ ~Drops(op[p])
  BY FreezeTurns, HandTyped DEF Freeze, Start, InHand, PhasesOf, Drops
<1>2. CASE Refuse(p)
  <2>1. Quiet(op'[p]) /\ UNCHANGED <<files, ignored, exposed>>
    BY <1>2, RefuseTurns, EndedIs DEF Refuse, Quiet, Drops
  <2> QED
    BY <1>1, <2>1, QuietHidden
<1>3. CASE ~Refuse(p)
  <2>1. PICK s \in Stages, frozen \in BOOLEAN :
           /\ IF PipelineKey(s.key)
              THEN yaml' = PutRecord(yaml, [s EXCEPT !.frozen = frozen]) /\ dvc' = dvc
              ELSE dvc' = PutRecord(dvc, [s EXCEPT !.frozen = frozen]) /\ yaml' = yaml
           /\ UNCHANGED <<lock, ignored, exposed>>
           /\ op'[p].pc = "none"
    BY <1>3, FreezeTurns
  <2> DEFINE t == [s EXCEPT !.frozen = frozen]
  <2>2. t.key = s.key /\ t.outs = s.outs
    BY DEF Base, TypeOK, Stages, Stage
  <2>3. /\ PipelineKey(s.key) => s \in yaml
        /\ ~PipelineKey(s.key) => s \in dvc
    BY DEF Base, TypeOK, Stages
  <2> HIDE DEF t
  <2>4. \/ s \in yaml /\ yaml' = PutRecord(yaml, t) /\ dvc' = dvc
        \/ s \in dvc /\ dvc' = PutRecord(dvc, t) /\ yaml' = yaml
    BY <2>1, <2>3 DEF t
  <2>5. RecordedOuts' \subseteq RecordedOuts \cup {}
    <3> SUFFICES ASSUME NEW x, x \in RecordedOuts' PROVE x \in RecordedOuts
      OBVIOUS
    <3>1. \/ \E u \in dvc' : x \in u.outs
          \/ \E u \in yaml', l \in lock' : u.key = l.key /\ x \in u.outs /\ x \in l.outs
      BY RecordedIs DEF RecordedOuts
    <3>2. \A u \in yaml' : \E v \in yaml : v.key = u.key /\ v.outs = u.outs
      BY <2>2, <2>4 DEF PutRecord
    <3>3. \A u \in dvc' : \E v \in dvc : v.outs = u.outs
      BY <2>2, <2>4 DEF PutRecord
    <3> QED
      BY <2>1, <3>1, <3>2, <3>3, RecordedIs
  <2>6. RecordedIgnored'
    BY <1>1, <2>1, <2>5, RecordedKept DEF Hidden
  <2>7. Quiet(op'[p])
    BY <2>1 DEF Quiet, Drops
  <2> QED
    BY <1>1, <2>6, <2>7, QuietIs, HiddenFrom
<1> QED
  BY <1>2, <1>3

(* While p has the lock, no other process has a stage to remove in hand.     *)
LEMMA OnlyOneRemoves ==
    ASSUME Base, NEW p \in Proc, holder = p, NEW q \in Proc, Drops(op[q])
    PROVE  q = p
BY HandTyped DEF Drops, Holds

LEMMA HiddenUnignore ==
    ASSUME Base, Hidden, NEW p \in Proc, Step(p), Unignore(p)
    PROVE  Hidden'
<1>1. /\ Turned(p) /\ holder = p /\ UNCHANGED files /\ op[p].pc = "unignore" /\ op[p].work # <<>>
      /\ ignored' = ignored \ Current(p).outs /\ exposed' = exposed \cup Shared(Current(p))
      /\ \/ op[p].cmd = "move" /\ op'[p] = [op[p] EXCEPT !.work = Tail(@), !.pc = "save"]
         \/ /\ op[p].cmd = "remove"
            /\ op'[p] = [op[p] EXCEPT !.pc = IF PipelineKey(Current(p).key) THEN "droplock"
                                             ELSE "dropdvc"]
  BY UnignoreTurns
<1>2. op[p] \in Operation /\ InFile(op[p]) /\ Moving(p)
  BY HandTyped DEF Hidden
<1>3. ASSUME NEW x, x \in RecordedOuts', x \notin ignored' \cup exposed'
      PROVE  x \in RecordedOuts /\ x \in Current(p).outs
  <2>1. x \in RecordedOuts
    BY <1>1, <1>3, SameFilesSameOuts
  <2>2. x \notin BeingRemoved
    <3> SUFFICES ASSUME NEW q \in Proc, Drops(op[q]) PROVE FALSE
      BY DEF BeingRemoved, Drops
    <3> QED
      BY <1>1, OnlyOneRemoves DEF Drops
  <2>3. x \in ignored
    BY <1>1, <1>3, <2>1, <2>2 DEF Hidden, RecordedIgnored
  <2> QED
    BY <1>1, <1>3, <2>1, <2>3
<1>4. CASE op[p].cmd = "remove"
  <2>1. op'[p].pc \in {"droplock", "dropdvc"} /\ op'[p].work = op[p].work
    BY <1>1, <1>2, <1>4 DEF Operation
  <2>2. RecordedIgnored'
    <3> SUFFICES ASSUME NEW x, x \in RecordedOuts', x \notin ignored' \cup exposed'
                 PROVE  \E q \in Proc : Drops(op'[q]) /\ x \in Head(op'[q].work).outs
      BY DEF RecordedIgnored, BeingRemoved, Drops, Current
    <3>1. x \in Head(op'[p].work).outs
      BY <1>3, <2>1 DEF Current
    <3> QED
      BY <2>1, <3>1 DEF Drops
  <2>3. Removing(p)'
    BY <1>1, <2>1 DEF Removing, Current, Shared, Stages, Drop, files
  <2>4. Saved(p)' /\ Moving(p)'
    BY <2>1 DEF Saved, Moving
  <2> QED
    BY <1>1, <2>2, <2>3, <2>4, HiddenFrom
<1>5. CASE op[p].cmd = "move"
  <2>1. op'[p].pc = "save"
    BY <1>1, <1>2, <1>5 DEF Operation
  <2>2. ~PipelineKey(Current(p).key) /\ Current(p).key \notin KeysOf(dvc)
    <3>1. op[p].work \in Seq(Stage)
      BY <1>2 DEF Operation
    <3>2. Current(p) = op[p].work[1] /\ 1 \in DOMAIN op[p].work
      BY <1>1, <3>1, FirstAndRest DEF Current
    <3> QED
      BY <1>1, <1>2, <1>5, <3>2 DEF InFile, Moving
  <2>3. RecordedIgnored'
    <3> SUFFICES ASSUME NEW x, x \in RecordedOuts', x \notin ignored' \cup exposed'
                 PROVE  FALSE
      BY DEF RecordedIgnored
    <3>1. x \in RecordedOuts /\ x \in Current(p).outs
      BY <1>3
    <3>2. PICK t \in Stages : x \in t.outs
      BY <3>1, RecordedIs DEF Stages
    <3>3. t.key # Current(p).key
      BY <2>2, <3>2 DEF Stages, KeysOf, Base, TypeOK
    <3>4. x \in Shared(Current(p))
      BY <3>1, <3>2, <3>3 DEF Shared, Drop
    <3> QED
      BY <1>1, <3>4
  <2>4. Quiet(op'[p])
    BY <2>1 DEF Quiet, Drops
  <2> QED
    BY <1>1, <2>3, <2>4, QuietIs, HiddenFrom
<1> QED
  BY <1>1, <1>4, <1>5

LEMMA HiddenCutShort ==
    ASSUME Base, Hidden, NEW p \in Proc, Step(p), UnignoreCutShort(p)
    PROVE  Hidden'
<1>1. Turned(p) /\ UNCHANGED files /\ op[p].pc = "unignore" /\ op'[p] = Ended
  BY UnignoreCutShortTurns
<1>2. ignored \cup exposed \subseteq ignored' \cup exposed'
  BY CutShortIs DEF UnignoreCutShort
<1>3. Quiet(op'[p]) /\ ~Drops(op[p])
  BY <1>1, EndedIs DEF Quiet, Drops
<1> QED
  BY <1>1, <1>2, <1>3, QuietHidden

LEMMA HiddenDrop ==
    ASSUME Base, Hidden, NEW p \in Proc, Step(p), DropLock(p) \/ DropYaml(p) \/ DropDvc(p)
    PROVE  Hidden'
<1>1. CASE DropLock(p)
  <2>1. /\ Turned(p) /\ op[p].pc = "droplock" /\ lock' = Drop(lock, op[p].names)
        /\ op'[p] = [op[p] EXCEPT !.pc = "dropyaml"]
        /\ UNCHANGED <<yaml, dvc, ignored, exposed>>
    BY <1>1, DropLockTurns
  <2>2. op'[p].pc = "dropyaml" /\ op'[p].work = op[p].work
    BY <2>1, HandTyped DEF Operation
  <2>3. RecordedOuts' \subseteq RecordedOuts \cup {}
    BY <2>1, DropIsFewer, FewerOuts
  <2>4. RecordedIgnored'
    BY <2>1, <2>2, <2>3, RecordedKept DEF Hidden, Drops
  <2>5. Removing(p)
    BY DEF Hidden
  <2>6. Saved(p)' /\ Removing(p)' /\ Moving(p)'
    BY <2>1, <2>2, <2>5 DEF Saved, Removing, Moving, Current, Shared, Stages, Drop
  <2> QED
    BY <2>1, <2>4, <2>6, HiddenFrom
<1>2. CASE DropYaml(p) \/ DropDvc(p)
  <2>1. /\ Turned(p) /\ holder = p /\ op'[p] = Ended /\ op[p].names = {Current(p).key}
        /\ UNCHANGED <<lock, ignored, exposed>>
        /\ \/ /\ op[p].pc = "dropyaml" /\ PipelineKey(Current(p).key)
              /\ yaml' = Drop(yaml, op[p].names) /\ dvc' = dvc
           \/ /\ op[p].pc = "dropdvc" /\ ~PipelineKey(Current(p).key)
              /\ dvc' = Drop(dvc, op[p].names) /\ yaml' = yaml
    BY <1>2, DropStageTurns
  <2>2. Removing(p)
    BY DEF Hidden
  <2>3. RecordedIgnored'
    <3> SUFFICES ASSUME NEW x, x \in RecordedOuts', x \notin ignored' \cup exposed'
                 PROVE  FALSE
      BY DEF RecordedIgnored
    <3>1. yaml' \subseteq yaml /\ dvc' \subseteq dvc
      BY <2>1, DropIsFewer
    <3>2. x \in RecordedOuts /\ x \notin ignored \cup exposed
      BY <2>1, <3>1, FewerOuts
    <3>3. PICK q \in Proc : Drops(op[q]) /\ x \in Current(q).outs
      BY <3>2 DEF Hidden, RecordedIgnored, BeingRemoved, Drops
    <3>4. x \in Current(p).outs
      BY <2>1, <3>3, OnlyOneRemoves
    <3>5. PICK t \in yaml' \cup dvc' : x \in t.outs
      BY RecordedIs DEF RecordedOuts
    <3>6. t \in Stages /\ t.key # Current(p).key
      BY <2>1, <3>1, <3>5 DEF Stages, Drop, Base, TypeOK
    <3>7. x \in Shared(Current(p))
      BY <3>4, <3>5, <3>6 DEF Shared, Drop
    <3> QED
      BY <2>1, <2>2, <3>2, <3>7 DEF Removing
  <2>4. Quiet(op'[p])
    BY <2>1, EndedIs DEF Quiet, Drops
  <2> QED
    BY <2>1, <2>3, <2>4, QuietIs, HiddenFrom
<1> QED
  BY <1>1, <1>2

LEMMA HiddenCrash ==
    ASSUME Base, Hidden, NEW p \in Proc, Step(p), Crash(p) \/ CrashWriting(p)
    PROVE  Hidden'
<1>1. Turned(p) /\ Died(p)
  BY CrashTurns, CrashWritingTurns
<1>2. ~Drops(op[p]) \/ Current(p).outs \subseteq exposed'
  BY <1>1 DEF Died, Drops
<1>3. ignored \cup exposed \subseteq ignored' \cup exposed'
  BY <1>1 DEF Died
<1>4. Quiet(op'[p])
  BY <1>1, EndedIs DEF Died, Quiet, Drops
<1>5. PICK outs : outs = Current(p).outs
  OBVIOUS
<1>6. \/ RecordedOuts' \subseteq RecordedOuts \cup {}
      \/ op[p].pc \in {"yaml", "lock"} /\ RecordedOuts' \subseteq RecordedOuts \cup outs
  <2>1. CASE Crash(p)
    BY <2>1, CrashTurns, SameFilesSameOuts
  <2>2. CASE CrashWriting(p)
    <3>1. /\ Current(p) \in Stage
          /\ \/ /\ op[p].pc = "yaml" /\ yaml' \in SUBSET PutRecord(yaml, Current(p))
                /\ lock' = lock /\ dvc' = dvc
             \/ /\ op[p].pc = "lock" /\ lock' \in SUBSET PutRecord(lock, LockEntry(Current(p)))
                /\ yaml' = yaml /\ dvc' = dvc
             \/ yaml' \subseteq yaml /\ lock' \subseteq lock /\ dvc' \subseteq dvc
      BY <2>2, CrashWritingTurns
    <3>2. LockEntry(Current(p)).outs = outs
      BY <1>5, <3>1, EntryOf
    <3> QED
      BY <1>5, <3>1, <3>2, PutStageOuts, PutEntryOuts, FewerOuts
  <2> QED
    BY <2>1, <2>2
<1>7. op[p].pc \in {"yaml", "lock"} => outs \subseteq ignored' \cup exposed'
  BY <1>3, <1>5 DEF Hidden, Saved
<1>8. RecordedIgnored'
  BY <1>1, <1>2, <1>3, <1>6, <1>7, RecordedKept DEF Hidden
<1> QED
  BY <1>1, <1>4, <1>8, QuietIs, HiddenFrom

LEMMA HiddenStays ==
    ASSUME Base, Hidden, [Next]_vars
    PROVE  Hidden'
<1>1. CASE UNCHANGED vars
  BY <1>1 DEF vars, Hidden, RecordedIgnored, RecordedOuts, BeingRemoved, Saved, Removing, Moving,
              Current, Shared, Stages, Drop, KeysOf
<1>2. CASE Next /\ vars' # vars
  <2>1. PICK p \in Proc : Step(p)
    BY <1>2 DEF Next
  <2>3. CASE \/ Run(p) \/ ExecOk(p) \/ ExecFails(p) \/ SaveFails(p) \/ DumpFails(p)
             \/ CreateFails(p) \/ Add(p) \/ Update(p) \/ RemoveStage(p) \/ Repro(p) \/ Reproduce(p)
    BY <2>1, <2>3, HiddenQuietly
  <2>4. CASE \/ Save(p) \/ DumpYaml(p) \/ DumpLock(p) \/ DumpDvc(p)
    BY <2>1, <2>4, HiddenSave, HiddenDump
  <2>5. CASE Create(p) \/ Import(p) \/ Move(p) \/ Freeze(p)
    BY <2>1, <2>5, HiddenFewer, HiddenFreeze
  <2>6. CASE \/ Unignore(p) \/ UnignoreCutShort(p) \/ DropLock(p) \/ DropYaml(p) \/ DropDvc(p)
             \/ Crash(p) \/ CrashWriting(p)
    BY <2>1, <2>6, HiddenUnignore, HiddenCutShort, HiddenDrop, HiddenCrash
  <2> QED
    BY <2>1, <2>3, <2>4, <2>5, <2>6, Zenon DEF Step
<1> QED
  BY <1>1, <1>2

LEMMA InitHidden == Init => Hidden
<1> SUFFICES ASSUME Init PROVE Hidden
  OBVIOUS
<1>1. ignored = RecordedOuts /\ op = [p \in Proc |-> NoOp]
  BY DEF Init
<1>2. \A p \in Proc : op[p].pc = "none"
  BY <1>1, NoOpIs
<1> QED
  BY <1>1, <1>2 DEF Hidden, RecordedIgnored, Saved, Removing, Moving

(* Every output with a recorded hash is in .gitignore, but for what failing  *)
(* commands had put there themselves (scm/git/__init__.py:221: none takes    *)
(* out what has been there since before it began), what killed ones have cut *)
(* off (scm/git/__init__.py:159) or taken out, and shared outputs.           *)
THEOREM RecordedAreIgnored == Spec => []RecordedIgnored
<1>1. Base /\ Hidden /\ [Next]_vars => Hidden'
  BY HiddenStays
<1>2. Hidden => RecordedIgnored
  BY DEF Hidden
<1> QED
  BY StageFilesTypes, InitHidden, <1>1, <1>2, PTL DEF Spec

-------------------------------------------------------------------------------
(* LockFollows.                                                              *)

LEMMA StageFileOf ==
    ASSUME Base, NEW s \in Stages
    PROVE  /\ PipelineKey(s.key) => s \in yaml
           /\ ~PipelineKey(s.key) => s \in dvc
BY DEF Base, TypeOK, Stages

LEMMA OthersYamls ==
    ASSUME Base, Yamls, NEW p \in Proc, Step(p), Turned(p), NEW q \in Proc \ {p}
    PROVE  InYaml(q)'
<1>1. Same(q) /\ Unmoved(q)
  BY DEF Turned, Turn
<1>2. /\ op'[q].pc = op[q].pc /\ op'[q].cmd = op[q].cmd /\ op'[q].work = op[q].work
      /\ op'[q].names = op[q].names
  BY <1>1, SameKeeps DEF Base
<1>3. InYaml(q)
  BY DEF Yamls
<1>4. op[q].pc \in {"lock", "dropyaml"} => UNCHANGED <<yaml, lock>>
  <2> SUFFICES ASSUME op[q].pc \in {"lock", "dropyaml"} PROVE UNCHANGED <<yaml, lock>>
    OBVIOUS
  <2>1. holder = q
    BY HandTyped DEF Holds
  <2>2. Crash(p)
    BY <2>1, StepAlone, ProcessNames
  <2> QED
    BY <2>2 DEF Crash, files
<1>5. op[q].cmd = "repro" /\ ~op'[q].overtaken => ~op[q].overtaken /\ yaml' = yaml
  BY <1>1 DEF Unmoved, Active
<1>6. op'[q].cmd = "run" /\ op'[q].pc = "lock" => Current(q)'.key \in KeysOf(yaml')
  BY <1>2, <1>3, <1>4 DEF InYaml, Current
<1>7. op'[q].cmd = "repro" /\ ~op'[q].overtaken =>
          \A i \in DOMAIN op'[q].work :
             PipelineKey(op'[q].work[i].key) => op'[q].work[i].key \in KeysOf(yaml')
  BY <1>2, <1>3, <1>5 DEF InYaml
<1>8. op'[q].pc = "dropyaml" => op'[q].names \cap KeysOf(lock') = {}
  BY <1>2, <1>3, <1>4 DEF InYaml
<1> QED
  BY <1>6, <1>7, <1>8 DEF InYaml, KeysOf

(* A command that goes on has the stages in hand that it had, or fewer.      *)
Onward(p) ==
    /\ op'[p].cmd = op[p].cmd /\ op'[p].overtaken = op[p].overtaken
    /\ op'[p].names = op[p].names
    /\ \A i \in DOMAIN op'[p].work : \E j \in DOMAIN op[p].work : op'[p].work[i] = op[p].work[j]

LEMMA GoingOnward ==
    ASSUME Base, NEW p \in Proc, NEW pc \in Phases, op'[p] = [op[p] EXCEPT !.pc = pc]
    PROVE  Onward(p) /\ op'[p].pc = pc /\ op'[p].work = op[p].work
<1>1. op[p] \in Operation
  BY HandTyped
<1> QED
  BY <1>1 DEF Onward, Operation

LEMMA FollowingOnward ==
    ASSUME Base, NEW p \in Proc, Following(p), op[p].work # <<>>
    PROVE  /\ op'[p] = Ended \/ Onward(p)
           /\ op'[p].pc \in {"none", "next", "save", "create"}
           /\ op'[p] = Ended \/ op'[p].work = Tail(op[p].work)
<1>1. op[p] \in Operation
  BY HandTyped
<1>2. op[p].work \in Seq(Stage)
  BY <1>1 DEF Operation
<1>3. \A i \in DOMAIN Tail(op[p].work) :
         i + 1 \in DOMAIN op[p].work /\ Tail(op[p].work)[i] = op[p].work[i + 1]
  BY <1>2, FirstAndRest
<1>4. CASE op'[p] = Ended
  BY <1>4, EndedIs
<1>5. CASE op'[p] # Ended
  <2>1. PICK pc \in {"next", "save", "create"} :
           op'[p] = [op[p] EXCEPT !.work = Tail(op[p].work), !.pc = pc]
    BY <1>5 DEF Following
  <2>2. /\ op'[p].work = Tail(op[p].work) /\ op'[p].cmd = op[p].cmd /\ op'[p].names = op[p].names
        /\ op'[p].overtaken = op[p].overtaken /\ op'[p].pc = pc
    BY <1>1, <2>1 DEF Operation
  <2> QED
    BY <1>3, <2>2 DEF Onward
<1> QED
  BY <1>4, <1>5

LEMMA OnwardYaml ==
    ASSUME Base, Yamls, NEW p \in Proc, Onward(p), yaml' = yaml,
           op'[p].cmd = "run" => op'[p].pc # "lock", op'[p].pc # "dropyaml"
    PROVE  InYaml(p)'
<1>1. InYaml(p)
  BY DEF Yamls
<1>2. op'[p].cmd = "repro" /\ ~op'[p].overtaken =>
          \A i \in DOMAIN op'[p].work :
             PipelineKey(op'[p].work[i].key) => op'[p].work[i].key \in KeysOf(yaml')
  BY <1>1 DEF InYaml, Onward
<1> QED
  BY <1>2 DEF InYaml, KeysOf

Plain(o) == /\ ~(o.cmd = "run" /\ o.pc = "lock")
            /\ o.cmd # "repro" /\ o.pc # "dropyaml"

LEMMA PlainYaml ==
    ASSUME NEW p \in Proc, Plain(op'[p])
    PROVE  InYaml(p)'
BY DEF Plain, InYaml

LEMMA EndedPlain ==
    ASSUME NEW p \in Proc, op'[p] = Ended
    PROVE  InYaml(p)'
BY EndedIs, PlainYaml DEF Plain

LEMMA YamlsOwn ==
    ASSUME Base, Yamls, NEW p \in Proc, Step(p)
    PROVE  InYaml(p)'
<1>1. CASE Run(p)
  <2>1. \/ op'[p] = Ended
        \/ /\ op'[p].cmd = "run"
           /\ op'[p].pc \in {"exec", "save"}
    BY <1>1, RunTurns
  <2> QED
    BY <2>1, EndedPlain, PlainYaml DEF Plain
<1>2. CASE ExecOk(p)
  <2>1. op'[p] = [op[p] EXCEPT !.pc = "save"] /\ yaml' = yaml /\ "save" \in Phases
    BY <1>2, ExecTurns DEF ExecOk, files, Phases
  <2> QED
    BY <2>1, GoingOnward, OnwardYaml
<1>3. CASE Save(p)
  <2>1. /\ op'[p] = [op[p] EXCEPT !.pc = FirstDump(p),
                        !.mine = @ \cup (Current(p).outs \ ignored)]
        /\ FirstDump(p) \in {"dvc", "yaml", "lock"} /\ op[p] \in Operation /\ yaml' = yaml
    BY <1>3, SaveTurns, HandTyped DEF Save, files
  <2>2. /\ Onward(p) /\ op'[p].pc = FirstDump(p) /\ op'[p].cmd = op[p].cmd
    BY <2>1 DEF Onward, Operation
  <2>3. op[p].cmd = "run" => FirstDump(p) # "lock"
    BY DEF FirstDump
  <2> QED
    BY <2>1, <2>2, <2>3, OnwardYaml
<1>4. CASE DumpYaml(p)
  <2>1. /\ op[p].cmd = "run" /\ op[p].work # <<>> /\ yaml' = PutRecord(yaml, Current(p))
        /\ op'[p] = [op[p] EXCEPT !.pc = "lock"] \/ Following(p)
    BY <1>4, DumpYamlTurns
  <2>2. CASE Following(p)
    <3>1. /\ op'[p] = Ended \/ op'[p].cmd = "run"
          /\ op'[p].pc \in {"none", "next", "save", "create"}
      BY <2>1, <2>2, FollowingOnward DEF Onward
    <3> QED
      BY <3>1, EndedPlain, PlainYaml DEF Plain
  <2>3. CASE op'[p] = [op[p] EXCEPT !.pc = "lock"]
    <3>1. op'[p].pc = "lock" /\ op'[p].work = op[p].work /\ op'[p].cmd = "run"
      BY <2>1, <2>3, GoingOnward DEF Onward, Phases
    <3>2. Current(p).key \in KeysOf(yaml')
      BY <2>1 DEF KeysOf, PutRecord
    <3>3. Head(op'[p].work).key \in KeysOf(yaml')
      BY <3>1, <3>2 DEF Current
    <3> QED
      BY <3>1, <3>3 DEF InYaml, Current, KeysOf
  <2> QED
    BY <2>1, <2>2, <2>3
<1>5. CASE DumpLock(p) \/ DumpDvc(p)
  <2>1. Following(p) /\ op[p].work # <<>> /\ yaml' = yaml
    BY <1>5, DumpLockTurns, DumpDvcTurns
  <2>2. /\ op'[p] = Ended \/ Onward(p)
        /\ op'[p].pc \in {"none", "next", "save", "create"}
    BY <2>1, FollowingOnward
  <2> QED
    BY <2>1, <2>2, EndedPlain, OnwardYaml
<1>6. CASE ExecFails(p) \/ SaveFails(p) \/ DumpFails(p) \/ CreateFails(p)
  <2>1. holder \in {p, "none"} /\ Fail(p)
    BY <1>6, FailuresTurn DEF ExecFails
  <2> QED
    BY <2>1, FailTurns, EndedPlain
<1>7. CASE Create(p)
  <2>1. \/ op'[p] = Ended
        \/ /\ op'[p].cmd = "add"
           /\ op'[p].pc \in {"save", "create"}
    BY <1>7, CreateTurns DEF Created
  <2> QED
    BY <2>1, EndedPlain, PlainYaml DEF Plain
<1>8. CASE Add(p) \/ Update(p) \/ RemoveStage(p)
  <2>1. \/ op'[p] = Ended
        \/ /\ op'[p].cmd \in {"add", "update", "remove", "ended"}
           /\ op'[p].pc \in {"create", "save", "none", "unignore"}
    BY <1>8, AddTurns, UpdateTurns, RemoveStageTurns
  <2> QED
    BY <2>1, EndedPlain, PlainYaml DEF Plain
<1>9. CASE Import(p) \/ Move(p) \/ Freeze(p)
  <2>1. CASE Refuse(p)
    BY <2>1, RefuseTurns, EndedPlain
  <2>2. CASE ~Refuse(p)
    <3>1. op'[p].cmd \in {"ended", "import", "move"} /\ op'[p].pc \in {"none", "save", "unignore"}
      BY <1>9, <2>2, ImportTurns, MoveTurns, FreezeTurns DEF Imported
    <3> QED
      BY <3>1, PlainYaml DEF Plain
  <2> QED
    BY <2>1, <2>2
<1>10. CASE Unignore(p)
  <2>1. /\ op[p].cmd \in {"move", "remove"} /\ op[p] \in Operation
        /\ \E pc \in {"droplock", "dropdvc", "save"}, work \in {op[p].work, Tail(op[p].work)} :
              op'[p] = [op[p] EXCEPT !.work = work, !.pc = pc]
    <3>1. op[p] \in Operation
      BY HandTyped
    <3>2. CASE op'[p] = [op[p] EXCEPT !.work = Tail(@), !.pc = "save"] /\ op[p].cmd = "move"
      BY <3>1, <3>2
    <3>3. CASE /\ op[p].cmd = "remove"
               /\ op'[p] = [op[p] EXCEPT !.pc = IF PipelineKey(Current(p).key) THEN "droplock"
                                                ELSE "dropdvc"]
      <4>1. PICK pc \in {"droplock", "dropdvc"} : op'[p] = [op[p] EXCEPT !.pc = pc]
        BY <3>3
      <4>2. [op[p] EXCEPT !.pc = pc] = [op[p] EXCEPT !.work = op[p].work, !.pc = pc]
        BY <3>1 DEF Operation
      <4> QED
        BY <3>1, <3>3, <4>1, <4>2
    <3> QED
      BY <1>10, <3>2, <3>3, UnignoreTurns
  <2>2. op'[p].cmd \in {"move", "remove"} /\ op'[p].pc \in {"droplock", "dropdvc", "save"}
    BY <2>1 DEF Operation
  <2> QED
    BY <2>2, PlainYaml DEF Plain
<1>11. CASE DropLock(p)
  <2>1. /\ op'[p] = [op[p] EXCEPT !.pc = "dropyaml"] /\ lock' = Drop(lock, op[p].names)
        /\ op[p].cmd = "remove"
    BY <1>11, DropLockTurns
  <2>2. op'[p].names = op[p].names /\ op'[p].cmd = "remove" /\ op'[p].pc = "dropyaml"
    BY <2>1, GoingOnward DEF Onward, Phases
  <2>3. op'[p].names \cap KeysOf(lock') = {}
    BY <2>1, <2>2 DEF KeysOf, Drop
  <2> QED
    BY <2>2, <2>3 DEF InYaml, KeysOf
<1>12. CASE \/ UnignoreCutShort(p) \/ DropYaml(p) \/ DropDvc(p)
            \/ Crash(p) \/ CrashWriting(p)
  BY <1>12, UnignoreCutShortTurns, DropStageTurns, CrashTurns, CrashWritingTurns, EndedPlain DEF Died
<1>13. CASE Repro(p)
  <2>1. CASE op'[p] = Ended
    BY <2>1, EndedPlain
  <2>2. CASE op'[p] # Ended
    <3>1. /\ op'[p].cmd = "repro" /\ op'[p].pc = "next" /\ op'[p].work \in Seq(Stages)
          /\ yaml' = yaml
      BY <1>13, <2>2, ReproTurns DEF files
    <3>2. \A i \in DOMAIN op'[p].work : op'[p].work[i] \in Stages
      BY <3>1
    <3>3. \A i \in DOMAIN op'[p].work :
             PipelineKey(op'[p].work[i].key) => op'[p].work[i].key \in KeysOf(yaml')
      BY <3>1, <3>2, StageFileOf DEF KeysOf
    <3> QED
      BY <3>1, <3>3 DEF InYaml, KeysOf
  <2> QED
    BY <2>1, <2>2
<1>14. CASE Reproduce(p)
  <2>1. /\ yaml' = yaml /\ holder = p /\ op[p].work # <<>> /\ op[p].cmd = "repro"
        /\ \/ Fail(p)
           \/ Following(p)
           \/ \E pc \in {"exec", "save"} : op'[p] = [op[p] EXCEPT !.pc = pc]
    BY <1>14, ReproduceTurns DEF files
  <2>2. CASE Fail(p)
    BY <2>1, <2>2, FailTurns, EndedPlain
  <2>3. CASE Following(p)
    <3>1. /\ op'[p] = Ended \/ Onward(p)
          /\ op'[p].pc \in {"none", "next", "save", "create"}
      BY <2>1, <2>3, FollowingOnward
    <3> QED
      BY <2>1, <3>1, EndedPlain, OnwardYaml
  <2>4. CASE \E pc \in {"exec", "save"} : op'[p] = [op[p] EXCEPT !.pc = pc]
    <3>1. Onward(p) /\ op'[p].pc \in {"exec", "save"}
      BY <2>4, GoingOnward DEF Phases
    <3> QED
      BY <2>1, <3>1, OnwardYaml
  <2> QED
    BY <2>1, <2>2, <2>3, <2>4
<1> QED
  BY <1>1, <1>2, <1>3, <1>4, <1>5, <1>6, <1>7, <1>8, <1>9, <1>10, <1>11, <1>12, <1>13, <1>14,
     Zenon DEF Step

LEMMA YamlsStay ==
    ASSUME Base, Yamls, [Next]_vars
    PROVE  Yamls'
<1>1. CASE UNCHANGED vars
  BY <1>1 DEF vars, Yamls, InYaml, Current, KeysOf
<1>2. CASE Next /\ vars' # vars
  <2>1. PICK p \in Proc : Step(p)
    BY <1>2 DEF Next
  <2>3. Turned(p)
    BY <2>1, StepTurns
  <2>4. InYaml(p)'
    BY <2>1, YamlsOwn
  <2>5. \A q \in Proc \ {p} : InYaml(q)'
    BY <2>1, <2>3, OthersYamls
  <2> QED
    BY <2>4, <2>5 DEF Yamls
<1> QED
  BY <1>1, <1>2

LEMMA InitYamls == Init => Yamls
<1> SUFFICES ASSUME Init PROVE Yamls
  OBVIOUS
<1>1. \A p \in Proc : op[p].pc = "none" /\ op[p].cmd = "idle"
  BY NoOpIs DEF Init
<1> QED
  BY <1>1 DEF Yamls, InYaml

LEMMA MovesWithPhase ==
    ASSUME Base, NEW p \in Proc, op'[p] \in Operation, op'[p].pc # op[p].pc
    PROVE  Moves(p)
<1>1. op[p] \in Operation
  BY HandTyped
<1>2. /\ [op[p] EXCEPT !.overtaken = FALSE].pc = op[p].pc
      /\ [op'[p] EXCEPT !.overtaken = FALSE].pc = op'[p].pc
  BY <1>1 DEF Operation
<1> QED
  BY <1>2 DEF Moves

NoNewOrphan == Orphans' \subseteq Orphans

LEMMA FewerOrphans ==
    ASSUME lock' \subseteq lock, KeysOf(yaml) \subseteq KeysOf(yaml')
    PROVE  NoNewOrphan
BY DEF NoNewOrphan, Orphans, KeysOf

LEMMA PutKeepsKeys ==
    ASSUME NEW records, NEW s
    PROVE  KeysOf(PutRecord(records, s)) = KeysOf(records) \cup {s.key}
BY DEF KeysOf, PutRecord

LockNow ==
    ~torn' /\ ~(Orphans' \subseteq Orphans)
       => \E p \in Proc : Moves(p) /\ op[p].overtaken /\ op[p].cmd = "repro"

LEMMA StepLock ==
    ASSUME Base, Yamls, NEW p \in Proc, Step(p)
    PROVE  \/ torn' \/ NoNewOrphan
           \/ Moves(p) /\ op[p].overtaken /\ op[p].cmd = "repro"
<1>1. CASE UNCHANGED <<yaml, lock>>
  BY <1>1, FewerOrphans
<1>2. CASE DumpYaml(p)
  <2>1. yaml' = PutRecord(yaml, Current(p)) /\ lock' = lock
    BY <1>2, DumpYamlTurns
  <2> QED
    BY <2>1, PutKeepsKeys, FewerOrphans
<1>3. CASE DumpLock(p)
  <2>1. /\ op[p].cmd \in {"run", "repro"} /\ op[p].work # <<>> /\ Following(p)
        /\ PipelineKey(Current(p).key) /\ yaml' = yaml
        /\ lock' = PutRecord(lock, LockEntry(Current(p)))
        /\ op[p].pc = "lock" /\ op[p] \in Operation /\ InYaml(p)
        /\ op'[p] \in Operation
    BY <1>3, DumpLockTurns, HandTyped DEF DumpLock, Yamls, Turned, Turn
  <2>2. CASE Current(p).key \in KeysOf(yaml)
    <3>1. KeysOf(lock') = KeysOf(lock) \cup {Current(p).key}
      BY <2>1, PutKeepsKeys DEF LockEntry
    <3> QED
      BY <2>1, <2>2, <3>1 DEF NoNewOrphan, Orphans, KeysOf
  <2>3. CASE Current(p).key \notin KeysOf(yaml)
    <3>1. op[p].work \in Seq(Stage)
      BY <2>1 DEF Operation
    <3>2. Current(p) = op[p].work[1] /\ 1 \in DOMAIN op[p].work
      BY <2>1, <3>1, FirstAndRest DEF Current
    <3>3. op[p].cmd = "repro" /\ op[p].overtaken
      BY <2>1, <2>3, <3>2 DEF InYaml
    <3>4. Moves(p)
      BY <2>1, FollowingOnward, MovesWithPhase
    <3> QED
      BY <3>3, <3>4
  <2> QED
    BY <2>2, <2>3
<1>4. CASE DropLock(p)
  <2>1. lock' = Drop(lock, op[p].names) /\ yaml' = yaml
    BY <1>4, DropLockTurns
  <2> QED
    BY <2>1, DropIsFewer, FewerOrphans
<1>5. CASE DropYaml(p)
  <2>1. yaml' = Drop(yaml, op[p].names) /\ lock' = lock /\ op[p].names \cap KeysOf(lock) = {}
    BY <1>5 DEF DropYaml, Yamls, InYaml
  <2> QED
    BY <2>1 DEF NoNewOrphan, Orphans, KeysOf, Drop
<1>6. CASE Freeze(p)
  <2>1. CASE Refuse(p)
    BY <1>1, <2>1 DEF Refuse, files
  <2>2. CASE ~Refuse(p)
    <3>1. PICK s \in Stages : /\ \/ yaml' = Modified(yaml, [s EXCEPT !.frozen = ~@])
                                 \/ UNCHANGED yaml
                              /\ lock' = lock
      BY <1>6, <2>2 DEF Freeze
    <3>2. KeysOf(yaml) \subseteq KeysOf(yaml')
      BY <3>1, PutKeepsKeys DEF Modified
    <3> QED
      BY <3>1, <3>2, FewerOrphans
  <2> QED
    BY <2>1, <2>2
<1>7. CASE CrashWriting(p)
  BY <1>7 DEF CrashWriting
<1>8. CASE \/ Run(p) \/ ExecOk(p) \/ ExecFails(p) \/ Save(p) \/ SaveFails(p) \/ DumpFails(p)
           \/ Add(p) \/ CreateFails(p) \/ Update(p) \/ RemoveStage(p) \/ Unignore(p)
           \/ UnignoreCutShort(p) \/ Repro(p) \/ Reproduce(p) \/ Crash(p)
  <2>1. UNCHANGED files
    BY <1>8 DEF Run, Refuse, ExecOk, ExecFails, Save, SaveFails, DumpFails, Add, CreateFails,
                Update, RemoveStage, Unignore, UnignoreCutShort, Repro, Reproduce, Crash
  <2> QED
    BY <1>1, <2>1 DEF files
<1>9. CASE DumpDvc(p) \/ Create(p) \/ Import(p) \/ DropDvc(p) \/ Move(p)
  <2>1. UNCHANGED <<yaml, lock>>
    BY <1>9 DEF DumpDvc, Create, Import, DropDvc, Move, Refuse, files
  <2> QED
    BY <1>1, <2>1
<1> QED
  BY <1>2, <1>3, <1>4, <1>5, <1>6, <1>7, <1>8, <1>9, Zenon DEF Step

(* No entry of dvc.lock is left without its stage, but by a file cut short   *)
(* or by dvc repro of a stage that was removed while its command ran         *)
(* (dvcfile.py:195 and 253).                                                 *)
THEOREM NoOrphanIsLeft == Spec => LockFollows
<1>1. Base /\ Yamls /\ [Next]_vars => Yamls'
  BY YamlsStay
<1>2. Base /\ Yamls /\ [Next]_vars => [LockNow]_vars
  <2> SUFFICES ASSUME Base, Yamls, [Next]_vars, vars' # vars
               PROVE  LockNow
    OBVIOUS
  <2>1. PICK p \in Proc : Step(p)
    BY DEF Next
  <2> QED
    BY <2>1, StepLock DEF LockNow, NoNewOrphan
<1> QED
  BY StageFilesTypes, InitYamls, <1>1, <1>2, PTL DEF Spec, LockFollows, LockNow

-------------------------------------------------------------------------------
(* GraphKept.                                                                *)

LEMMA OutsOf ==
    ASSUME NEW S, NEW x
    PROVE  x \in Outs(S) <=> \E s \in S : \E o \in s.outs : x = <<s, o>>
BY DEF Outs

(* Fewer stages clash less.                                                  *)
LEMMA FewerFit ==
    ASSUME NEW S, ValidGraph(S), NEW T \in SUBSET S
    PROVE  ValidGraph(T)
<1>1. Outs(T) \subseteq Outs(S)
  BY DEF Outs
<1>2. OutsApart(T)
  BY <1>1 DEF ValidGraph, OutsApart
<1>3. FilesOutside(T)
  BY <1>1 DEF ValidGraph, FilesOutside
<1>4. Acyclic(T)
  BY DEF ValidGraph, Acyclic
<1> QED
  BY <1>2, <1>3, <1>4 DEF ValidGraph

(* The checks look at keys, dependencies and outputs only.                   *)
Alike(s, t) == s.key = t.key /\ s.deps = t.deps /\ s.outs = t.outs

LEMMA AlikeFit ==
    ASSUME NEW S, ValidGraph(S), NEW T, OneRecordEach(T),
           \A t \in T : \E s \in S : Alike(s, t)
    PROVE  ValidGraph(T)
<1> DEFINE twin(t) == CHOOSE s \in S : Alike(s, t)
<1>1. \A t \in T : twin(t) \in S /\ Alike(twin(t), t)
  OBVIOUS
<1> HIDE DEF twin
<1>2. \A t, u \in T : t # u => twin(t) # twin(u)
  BY <1>1 DEF OneRecordEach, Alike
<1>3. OutsApart(T)
  <2> SUFFICES ASSUME NEW x \in Outs(T), NEW y \in Outs(T), x # y
               PROVE  ~Overlap(x[2], y[2])
    BY DEF OutsApart
  <2>6. PICK t \in T : \E o \in t.outs : x = <<t, o>>
    BY OutsOf
  <2>1. PICK o \in t.outs : x = <<t, o>>
    BY <2>6
  <2>7. PICK u \in T : \E w \in u.outs : y = <<u, w>>
    BY OutsOf
  <2>2. PICK w \in u.outs : y = <<u, w>>
    BY <2>7
  <2>3. <<twin(t), o>> \in Outs(S) /\ <<twin(u), w>> \in Outs(S)
    BY <1>1, OutsOf DEF Alike
  <2>4. <<twin(t), o>> # <<twin(u), w>>
    BY <1>2, <2>1, <2>2
  <2>5. ~Overlap(<<twin(t), o>>[2], <<twin(u), w>>[2])
    BY <2>3, <2>4 DEF ValidGraph, OutsApart
  <2> QED
    BY <2>1, <2>2, <2>5
<1>4. FilesOutside(T)
  <2> SUFFICES ASSUME NEW t \in T, ~PipelineKey(t.key), NEW x \in Outs(T)
               PROVE  ~IsStrictPrefix(x[2], t.key)
    BY DEF FilesOutside
  <2>4. PICK u \in T : \E o \in u.outs : x = <<u, o>>
    BY OutsOf
  <2>1. PICK o \in u.outs : x = <<u, o>>
    BY <2>4
  <2>2. <<twin(u), o>> \in Outs(S) /\ twin(t) \in S /\ twin(t).key = t.key
    BY <1>1, OutsOf DEF Alike
  <2>3. ~IsStrictPrefix(<<twin(u), o>>[2], t.key)
    BY <2>2 DEF ValidGraph, FilesOutside
  <2> QED
    BY <2>1, <2>3
<1>5. Acyclic(T)
  <2> SUFFICES ASSUME NEW U \in (SUBSET T) \ {{}}, \A t \in U : \E u \in U : Depends(t, u)
               PROVE  FALSE
    BY DEF Acyclic
  <2> DEFINE V == {twin(t) : t \in U}
  <2>1. V \in (SUBSET S) \ {{}}
    BY <1>1
  <2>2. \A s \in V : \E v \in V : Depends(s, v)
    <3> SUFFICES ASSUME NEW t \in U PROVE \E v \in V : Depends(twin(t), v)
      OBVIOUS
    <3>1. PICK u \in U : Depends(t, u)
      OBVIOUS
    <3>2. Depends(twin(t), twin(u))
      BY <1>1, <3>1 DEF Depends, Alike
    <3> QED
      BY <3>2
  <2> QED
    BY <2>1, <2>2 DEF ValidGraph, Acyclic
<1> QED
  BY <1>3, <1>4, <1>5 DEF ValidGraph

LEMMA OthersFit ==
    ASSUME Base, Fitting, NEW p \in Proc, Turned(p), NEW q \in Proc \ {p}
    PROVE  Fits(q)'
<1>1. Same(q) /\ Unmoved(q)
  BY DEF Turned, Turn
<1>2. op'[q].pc = op[q].pc /\ op'[q].cmd = op[q].cmd /\ op'[q].work = op[q].work
  BY <1>1, SameKeeps DEF Base
<1>3. CASE op'[q].overtaken
  BY <1>3 DEF Fits
<1>4. CASE ~Active(q)
  <2>1. op'[q].cmd \in {"idle", "ended"}
    BY <1>2, <1>4 DEF Active
  <2> QED
    BY <2>1 DEF Fits
<1>5. CASE Active(q) /\ ~op'[q].overtaken
  <2>1. ~op[q].overtaken /\ yaml' = yaml /\ dvc' = dvc
    BY <1>1, <1>5 DEF Unmoved
  <2>2. Fits(q)
    BY DEF Fitting
  <2> QED
    BY <1>2, <2>1, <2>2 DEF Fits, Stages, Current
<1> QED
  BY <1>3, <1>4, <1>5

(* Commands at which no check stands.                                        *)
Free(o) == \/ o.cmd \in {"idle", "ended", "remove", "move"}
           \/ o.cmd = "run" /\ o.pc = "lock"
           \/ o.cmd = "add" /\ o.pc = "create"

LEMMA FreeFits ==
    ASSUME NEW p \in Proc, Free(op'[p])
    PROVE  Fits(p)'
BY DEF Free, Fits

LEMMA EndedFits ==
    ASSUME NEW p \in Proc, op'[p] = Ended
    PROVE  Fits(p)'
BY EndedIs, FreeFits DEF Free

LEMMA StageSet ==
    ASSUME NEW S, NEW w \in Seq(S)
    PROVE  ToSet(w) \subseteq S
BY DEF ToSet

(* A command that goes on with what it has in hand.                          *)
LEMMA OnwardFits ==
    ASSUME Base, Fitting, NEW p \in Proc, Onward(p), op[p].work # <<>>,
           op'[p].work \in {op[p].work, Tail(op[p].work)},
           op[p].cmd \in {"run", "update"} => op'[p].work = op[p].work,
           op[p].cmd = "run" => op'[p].pc = "lock" \/ op[p].pc \in {"exec", "save"},
           op[p].cmd = "add" => op[p].pc # "create",
           op[p].cmd \in {"run", "update"} \/ Stages' \subseteq Stages \cup ToSet(op[p].work),
           (op[p].cmd = "run" /\ op'[p].pc # "lock") \/ op[p].cmd = "update" => Stages' = Stages
    PROVE  Fits(p)'
<1>1. /\ op'[p].cmd = op[p].cmd /\ op'[p].overtaken = op[p].overtaken
      /\ op[p] \in Operation /\ Fits(p)
  BY HandTyped DEF Onward, Fitting
<1>2. op[p].work \in Seq(Stage)
  BY <1>1 DEF Operation
<1>3. ToSet(op'[p].work) \subseteq ToSet(op[p].work)
  BY <1>2, RestOfSet
<1>4. CASE op[p].overtaken \/ op'[p].cmd \notin {"run", "import", "repro", "add", "update"}
  BY <1>1, <1>4 DEF Fits
<1>5. CASE ~op[p].overtaken /\ op[p].cmd = "run"
  <2>1. CASE op'[p].pc = "lock"
    BY <1>1, <1>5, <2>1, FreeFits DEF Free
  <2>2. CASE op'[p].pc # "lock"
    <3>1. Stages' = Stages /\ op'[p].work = op[p].work /\ op[p].pc \in {"exec", "save"}
      BY <1>5, <2>2
    <3> QED
      BY <1>1, <1>5, <3>1 DEF Fits, Current
  <2> QED
    BY <2>1, <2>2
<1>6. CASE ~op[p].overtaken /\ op[p].cmd = "update"
  <2>1. Stages' = Stages /\ op'[p].work = op[p].work
    BY <1>6
  <2> QED
    BY <1>1, <1>6, <2>1 DEF Fits
<1>7. CASE ~op[p].overtaken /\ op[p].cmd \in {"import", "repro", "add"}
  <2>1. ValidGraph(Stages \cup ToSet(op[p].work))
    BY <1>1, <1>7 DEF Fits
  <2>2. Stages' \cup ToSet(op'[p].work) \subseteq Stages \cup ToSet(op[p].work)
    BY <1>3, <1>7
  <2>3. ValidGraph(Stages' \cup ToSet(op'[p].work))
    BY <2>1, <2>2, FewerFit
  <2> QED
    BY <1>1, <1>7, <2>3 DEF Fits
<1> QED
  BY <1>1, <1>4, <1>5, <1>6, <1>7

(* dvc run, import-url and update have one stage in hand, and end after it.  *)
LEMMA LastStage ==
    ASSUME Base, NEW p \in Proc, Following(p), op[p].work # <<>>,
           op[p].cmd \in {"run", "import", "update"}
    PROVE  op'[p] = Ended
<1>1. Tail(op[p].work) = <<>>
  BY HandTyped DEF InHand
<1> QED
  BY <1>1 DEF Following

LEMMA DumpedDvcIs ==
    ASSUME Base, NEW p \in Proc, op[p].work # <<>>, yaml' = yaml,
           dvc' = PutRecord(dvc, Current(p))
    PROVE  Stages' \subseteq Stages \cup ToSet(op[p].work)
<1>1. op[p] \in Operation
  BY HandTyped
<1>2. op[p].work \in Seq(Stage)
  BY <1>1 DEF Operation
<1>3. Current(p) \in ToSet(op[p].work)
  BY <1>2, RestOfSet DEF Current
<1> QED
  BY <1>3 DEF Stages, PutRecord

LEMMA FollowingFits ==
    ASSUME Base, Fitting, NEW p \in Proc, Following(p), op[p].work # <<>>,
           op[p].pc # "create", Stages' \subseteq Stages \cup ToSet(op[p].work)
    PROVE  Fits(p)'
<1>1. CASE op'[p] = Ended
  BY <1>1, EndedFits
<1>2. CASE op'[p] # Ended
  <2>1. Onward(p) /\ op'[p].work = Tail(op[p].work)
    BY <1>2, FollowingOnward
  <2>2. op[p].cmd \notin {"run", "import", "update"}
    BY <1>2, LastStage
  <2> QED
    BY <2>1, <2>2, OnwardFits
<1> QED
  BY <1>1, <1>2

LEMMA FitsOwn ==
    ASSUME Base, Fitting, NEW p \in Proc, Step(p)
    PROVE  Fits(p)'
<1>1. CASE Run(p)
  <2>1. UNCHANGED <<yaml, dvc>>
    BY <1>1, RunTurns DEF files
  <2>2. CASE op'[p] = Ended
    BY <2>2, EndedFits
  <2>3. CASE op'[p] # Ended
    <3>1. PICK d \in RunDefs, force \in BOOLEAN :
             /\ force \/ d.key \notin KeysOf(Stages)
             /\ ValidGraph(WithNewStage(Stages, d, force))
             /\ op'[p].work = <<d>> /\ op'[p].cmd = "run"
      BY <1>1, <2>3, RunTurns
    <3>2. WithNewStage(Stages, d, force) = Drop(Stages, {d.key}) \cup {d}
      BY <3>1 DEF WithNewStage, Drop, KeysOf
    <3>3. Head(op'[p].work) = d /\ Stages' = Stages
      BY <2>1, <3>1 DEF Stages
    <3>4. ValidGraph(Drop(Stages', {Head(op'[p].work).key}) \cup {Head(op'[p].work)})
      BY <3>1, <3>2, <3>3
    <3> QED
      BY <3>1, <3>4 DEF Fits, Current
  <2> QED
    BY <2>2, <2>3
<1>2. CASE ExecOk(p)
  <2>1. op'[p] = [op[p] EXCEPT !.pc = "save"] /\ yaml' = yaml /\ dvc' = dvc /\ "save" \in Phases
        /\ op[p].pc = "exec"
    BY <1>2, ExecTurns DEF ExecOk, files, Phases
  <2>2. op[p].work # <<>> /\ Onward(p) /\ op'[p].work = op[p].work
    BY <2>1, HandTyped, GoingOnward DEF InHand
  <2>3. Stages' = Stages
    BY <2>1 DEF Stages
  <2> QED
    BY <2>1, <2>2, <2>3, OnwardFits
<1>3. CASE Save(p)
  <2>1. /\ op'[p] = [op[p] EXCEPT !.pc = FirstDump(p),
                        !.mine = @ \cup (Current(p).outs \ ignored)]
        /\ op[p].work # <<>> /\ op[p].pc = "save"
        /\ op[p] \in Operation /\ yaml' = yaml /\ dvc' = dvc
    BY <1>3, SaveTurns, HandTyped DEF Save, files
  <2>2. Onward(p) /\ op'[p].work = op[p].work
    BY <2>1 DEF Onward, Operation
  <2>3. Stages' = Stages
    BY <2>1 DEF Stages
  <2> QED
    BY <2>1, <2>2, <2>3, OnwardFits
<1>4. CASE DumpYaml(p)
  <2>1. /\ op[p].cmd = "run" /\ op[p].work # <<>>
        /\ op'[p] = [op[p] EXCEPT !.pc = "lock"] \/ Following(p)
    BY <1>4, DumpYamlTurns
  <2>2. CASE Following(p)
    BY <2>1, <2>2, LastStage, EndedFits
  <2>3. CASE op'[p] = [op[p] EXCEPT !.pc = "lock"]
    <3>1. op'[p].pc = "lock" /\ op'[p].cmd = "run"
      BY <2>1, <2>3, GoingOnward DEF Onward, Phases
    <3> QED
      BY <3>1, FreeFits DEF Free
  <2> QED
    BY <2>1, <2>2, <2>3
<1>5. CASE DumpLock(p)
  <2>1. Following(p) /\ op[p].work # <<>> /\ Stages' = Stages /\ op[p].pc = "lock"
    BY <1>5, DumpLockTurns DEF DumpLock, Stages
  <2> QED
    BY <2>1, FollowingFits
<1>6. CASE DumpDvc(p)
  <2>1. /\ Following(p) /\ op[p].work # <<>> /\ op[p].pc = "dvc" /\ yaml' = yaml
        /\ dvc' = PutRecord(dvc, Current(p))
    BY <1>6, DumpDvcTurns DEF DumpDvc
  <2> QED
    BY <2>1, DumpedDvcIs, FollowingFits
<1>7. CASE ExecFails(p) \/ SaveFails(p) \/ DumpFails(p) \/ CreateFails(p)
  <2>1. holder \in {p, "none"} /\ Fail(p)
    BY <1>7, FailuresTurn DEF ExecFails
  <2> QED
    BY <2>1, FailTurns, EndedFits
<1>8. CASE Create(p)
  <2>1. PICK kept : dvc' = Drop(dvc, kept) /\ Created(p, kept) /\ yaml' = yaml
    BY <1>8, CreateTurns
  <2>2. CASE op'[p] = Ended
    BY <2>2, EndedFits
  <2>3. CASE op'[p].pc = "create" /\ op'[p].cmd = "add"
    BY <2>3, FreeFits DEF Free
  <2>4. CASE /\ op'[p].pc = "save" /\ op'[p].cmd = "add" /\ CreateFits(kept)
             /\ op'[p].work \in Seq({DataStage(t) : t \in kept})
    <3>1. ToSet(op'[p].work) \subseteq {DataStage(t) : t \in kept}
      BY <2>4, StageSet
    <3>2. Stages' \cup ToSet(op'[p].work)
              \subseteq yaml \cup Drop(dvc, kept) \cup {DataStage(t) : t \in kept}
      BY <2>1, <3>1 DEF Stages
    <3>3. ValidGraph(Stages' \cup ToSet(op'[p].work))
      BY <2>4, <3>2, FewerFit DEF CreateFits
    <3> QED
      BY <2>4, <3>3 DEF Fits
  <2> QED
    BY <2>1, <2>2, <2>3, <2>4 DEF Created
<1>9. CASE Import(p)
  <2>1. CASE Refuse(p)
    BY <2>1, RefuseTurns, EndedFits
  <2>2. CASE ~Refuse(p)
    <3>1. PICK s \in Stage : Imported(p, s)
      BY <1>9, <2>2, ImportTurns
    <3>2. CASE op'[p].cmd = "ended"
      BY <3>2, FreeFits DEF Free
    <3>3. CASE /\ op'[p].cmd = "import" /\ op'[p].work = <<s>>
               /\ ValidGraph(yaml \cup Drop(dvc, {s.key}) \cup {s})
      <4>1. ToSet(op'[p].work) = {s}
        BY <3>3, OneStage
      <4>2. Stages' \cup ToSet(op'[p].work) = yaml \cup Drop(dvc, {s.key}) \cup {s}
        BY <3>1, <4>1 DEF Imported, Stages
      <4>3. ValidGraph(Stages' \cup ToSet(op'[p].work))
        BY <3>3, <4>2
      <4> QED
        BY <3>3, <4>3 DEF Fits
    <3> QED
      BY <3>1, <3>2, <3>3 DEF Imported
  <2> QED
    BY <2>1, <2>2
<1>10. CASE Update(p)
  <2>1. CASE op'[p] = Ended
    BY <2>1, EndedFits
  <2>2. CASE op'[p] # Ended
    <3>1. PICK s \in dvc : op'[p].work = <<s>> /\ op'[p].cmd = "update"
      BY <1>10, <2>2, UpdateTurns
    <3>2. s \in Stage /\ s \in Stages /\ Stages' = Stages
      BY <1>10, UpdateTurns DEF Base, TypeOK, Stages, files
    <3>3. ToSet(op'[p].work) \subseteq Stages'
      BY <3>1, <3>2, OneStage
    <3> QED
      BY <3>1, <3>3 DEF Fits
  <2> QED
    BY <2>1, <2>2
<1>11. CASE Add(p) \/ RemoveStage(p)
  <2>1. \/ op'[p].cmd \in {"ended", "remove"}
        \/ /\ op'[p].cmd = "add"
           /\ op'[p].pc = "create"
    BY <1>11, AddTurns, RemoveStageTurns
  <2> QED
    BY <2>1, FreeFits DEF Free
<1>12. CASE Move(p) \/ Freeze(p)
  <2>1. CASE Refuse(p)
    BY <2>1, RefuseTurns, EndedFits
  <2>2. CASE ~Refuse(p)
    <3>1. op'[p].cmd \in {"ended", "move"}
      BY <1>12, <2>2, MoveTurns, FreezeTurns
    <3> QED
      BY <3>1, FreeFits DEF Free
  <2> QED
    BY <2>1, <2>2
<1>13. CASE Unignore(p) \/ DropLock(p)
  <2>1. op'[p].cmd \in {"move", "remove"}
    <3>1. op[p] \in Operation /\ op[p].cmd \in {"move", "remove"}
      BY <1>13, UnignoreTurns, DropLockTurns, HandTyped
    <3>2. op'[p].cmd = op[p].cmd
      BY <1>13, <3>1, UnignoreTurns, DropLockTurns DEF Operation
    <3> QED
      BY <3>1, <3>2
  <2> QED
    BY <2>1, FreeFits DEF Free
<1>14. CASE \/ UnignoreCutShort(p) \/ DropYaml(p) \/ DropDvc(p)
            \/ Crash(p) \/ CrashWriting(p)
  BY <1>14, UnignoreCutShortTurns, DropStageTurns, CrashTurns, CrashWritingTurns, EndedFits DEF Died
<1>15. CASE Repro(p)
  <2>1. CASE op'[p] = Ended
    BY <2>1, EndedFits
  <2>2. CASE op'[p] # Ended
    <3>1. /\ op'[p].cmd = "repro" /\ op'[p].work \in Seq(Stages) /\ ValidGraph(Stages)
          /\ Stages' = Stages
      BY <1>15, <2>2, ReproTurns DEF files, Stages
    <3>2. ToSet(op'[p].work) \subseteq Stages
      BY <3>1, StageSet
    <3>3. Stages' \cup ToSet(op'[p].work) = Stages
      BY <3>1, <3>2
    <3> QED
      BY <3>1, <3>3 DEF Fits
  <2> QED
    BY <2>1, <2>2
<1>16. CASE Reproduce(p)
  <2>1. /\ Stages' = Stages /\ holder = p /\ op[p].work # <<>> /\ op[p].cmd = "repro"
        /\ op[p].pc = "next"
        /\ \/ Fail(p)
           \/ Following(p)
           \/ \E pc \in {"exec", "save"} : op'[p] = [op[p] EXCEPT !.pc = pc]
    BY <1>16, ReproduceTurns DEF files, Stages
  <2>2. CASE Fail(p)
    BY <2>1, <2>2, FailTurns, EndedFits
  <2>3. CASE Following(p)
    BY <2>1, <2>3, FollowingFits
  <2>4. CASE \E pc \in {"exec", "save"} : op'[p] = [op[p] EXCEPT !.pc = pc]
    <3>1. Onward(p) /\ op'[p].work = op[p].work
      BY <2>4, GoingOnward DEF Phases
    <3> QED
      BY <2>1, <3>1, OnwardFits
  <2> QED
    BY <2>1, <2>2, <2>3, <2>4
<1> QED
  BY <1>1, <1>2, <1>3, <1>4, <1>5, <1>6, <1>7, <1>8, <1>9, <1>10, <1>11, <1>12, <1>13, <1>14,
     <1>15, <1>16, Zenon DEF Step

LEMMA FitsStay ==
    ASSUME Base, Fitting, [Next]_vars
    PROVE  Fitting'
<1>1. CASE UNCHANGED vars
  BY <1>1 DEF vars, Fitting, Fits, Stages, Current
<1>2. CASE Next /\ vars' # vars
  <2>1. PICK p \in Proc : Step(p)
    BY <1>2 DEF Next
  <2>3. Turned(p)
    BY <2>1, StepTurns
  <2>4. Fits(p)'
    BY <2>1, FitsOwn
  <2>5. \A q \in Proc \ {p} : Fits(q)'
    BY <2>3, OthersFit
  <2> QED
    BY <2>4, <2>5 DEF Fitting
<1> QED
  BY <1>1, <1>2

LEMMA InitFits == Init => Fitting
<1> SUFFICES ASSUME Init PROVE Fitting
  OBVIOUS
<1>1. \A p \in Proc : op[p].cmd = "idle"
  BY NoOpIs DEF Init
<1> QED
  BY <1>1 DEF Fitting, Fits

ValidNext == ValidGraph(Stages')

LEMMA FewerValid ==
    ASSUME ValidGraph(Stages), yaml' \subseteq yaml, dvc' \subseteq dvc
    PROVE  ValidNext
<1>1. Stages' \subseteq Stages
  BY DEF Stages
<1> QED
  BY <1>1, FewerFit DEF ValidNext

(* dvc run writes the stage that has been checked with all the others.       *)
LEMMA RunWrites ==
    ASSUME Base, Fitting, NEW p \in Proc, ~op[p].overtaken, op[p].cmd = "run",
           op[p].pc \in {"yaml", "dvc"},
           \/ /\ yaml' \subseteq PutRecord(yaml, Current(p)) /\ PipelineKey(Current(p).key)
              /\ dvc' = dvc
           \/ /\ dvc' \subseteq PutRecord(dvc, Current(p)) /\ ~PipelineKey(Current(p).key)
              /\ yaml' = yaml
    PROVE  ValidNext
<1>1. ValidGraph(Drop(Stages, {Current(p).key}) \cup {Current(p)})
  BY DEF Fitting, Fits
<1>2. Stages' \subseteq Drop(Stages, {Current(p).key}) \cup {Current(p)}
  BY DEF Stages, PutRecord, Drop, Base, TypeOK
<1> QED
  BY <1>1, <1>2, FewerFit DEF ValidNext

LEMMA FreezeValid ==
    ASSUME Base, ValidGraph(Stages), NEW p \in Proc, Freeze(p)
    PROVE  ValidNext
<1>1. CASE Refuse(p)
  BY <1>1, FewerValid DEF Refuse, files
<1>2. CASE ~Refuse(p)
  <2>1. PICK s \in Stages, frozen \in BOOLEAN :
           IF PipelineKey(s.key)
           THEN yaml' = PutRecord(yaml, [s EXCEPT !.frozen = frozen]) /\ dvc' = dvc
           ELSE dvc' = PutRecord(dvc, [s EXCEPT !.frozen = frozen]) /\ yaml' = yaml
    BY <1>2, FreezeTurns
  <2> DEFINE new == [s EXCEPT !.frozen = frozen]
  <2>2. s \in Stage
    BY DEF Base, TypeOK, Stages
  <2>3. Alike(s, new)
    BY <2>2 DEF Alike, Stage
  <2>4. \A t \in Stages' : \E u \in Stages : Alike(u, t)
    <3> SUFFICES ASSUME NEW t \in Stages' PROVE \E u \in Stages : Alike(u, t)
      OBVIOUS
    <3> HIDE DEF new
    <3>1. t \in Stages \/ t = new
      BY <2>1 DEF Stages, PutRecord, new
    <3>2. CASE t \in Stages
      BY <3>2 DEF Alike
    <3>3. CASE t = new
      BY <2>3, <3>3
    <3> QED
      BY <3>1, <3>2, <3>3
  <2>5. OneRecordEach(Stages')
    <3>1. FilesTyped'
      BY FreezeTurns
    <3> QED
      BY <3>1 DEF FilesTyped, Stages, OneRecordEach
  <2> QED
    BY <2>4, <2>5, AlikeFit DEF ValidNext
<1> QED
  BY <1>1, <1>2

GraphNow ==
    ValidGraph(Stages) /\ ~ValidGraph(Stages')
       => \E p \in Proc : Moves(p) /\ (op[p].overtaken \/ op[p].cmd = "move")

Excused(p) == Moves(p) /\ (op[p].overtaken \/ op[p].cmd = "move")

LEMMA StepGraph ==
    ASSUME Base, Fitting, NEW p \in Proc, Step(p), ValidGraph(Stages)
    PROVE  ValidNext \/ Excused(p)
<1>1. ASSUME op'[p].pc # op[p].pc, op[p].overtaken \/ op[p].cmd = "move"
      PROVE  Excused(p)
  <2>1. op'[p] \in Operation
    BY StepTurns DEF Turned, Turn
  <2> QED
    BY <1>1, <2>1, MovesWithPhase DEF Excused
<1>2. CASE UNCHANGED <<yaml, dvc>>
  BY <1>2, FewerValid
<1>3. CASE DumpYaml(p)
  <2>1. /\ op[p].cmd = "run" /\ op[p].pc = "yaml" /\ op[p].work # <<>>
        /\ PipelineKey(Current(p).key) /\ yaml' = PutRecord(yaml, Current(p)) /\ dvc' = dvc
        /\ op'[p] = [op[p] EXCEPT !.pc = "lock"] \/ Following(p)
    BY <1>3, DumpYamlTurns DEF DumpYaml
  <2>2. op'[p].pc # "yaml"
    BY <2>1, GoingOnward, FollowingOnward DEF Phases
  <2>3. CASE op[p].overtaken
    BY <1>1, <2>1, <2>2, <2>3
  <2>4. CASE ~op[p].overtaken
    BY <2>1, <2>4, RunWrites
  <2> QED
    BY <2>3, <2>4
<1>4. CASE DumpDvc(p)
  <2>1. /\ op[p].pc = "dvc" /\ op[p].work # <<>> /\ ~PipelineKey(Current(p).key)
        /\ dvc' = PutRecord(dvc, Current(p)) /\ yaml' = yaml /\ Following(p)
        /\ InHand(op[p]) /\ op[p].cmd \in Commands
    BY <1>4, DumpDvcTurns, HandTyped DEF DumpDvc, Operation
  <2>2. op[p].cmd \in {"run", "add", "import", "update", "move", "repro"}
    BY <2>1 DEF InHand, PhasesOf, Commands
  <2>3. op'[p].pc # "dvc"
    BY <2>1, FollowingOnward
  <2>4. CASE op[p].overtaken \/ op[p].cmd = "move"
    BY <1>1, <2>1, <2>3, <2>4
  <2>5. CASE ~op[p].overtaken /\ op[p].cmd = "run"
    BY <2>1, <2>5, RunWrites
  <2>6. CASE ~op[p].overtaken /\ op[p].cmd \in {"add", "import", "repro"}
    <3>1. ValidGraph(Stages \cup ToSet(op[p].work))
      BY <2>1, <2>6 DEF Fitting, Fits
    <3> QED
      BY <2>1, <3>1, DumpedDvcIs, FewerFit DEF ValidNext
  <2>7. CASE ~op[p].overtaken /\ op[p].cmd = "update"
    <3>1. ToSet(op[p].work) \subseteq Stages
      BY <2>7 DEF Fitting, Fits
    <3>2. Stages' \subseteq Stages
      BY <2>1, <3>1, DumpedDvcIs
    <3> QED
      BY <3>2, FewerFit DEF ValidNext
  <2> QED
    BY <2>2, <2>4, <2>5, <2>6, <2>7
<1>5. CASE CrashWriting(p)
  <2>1. CASE yaml' \subseteq yaml /\ dvc' \subseteq dvc
    BY <2>1, FewerValid
  <2>2. CASE /\ op[p].pc = "yaml" /\ yaml' \in SUBSET PutRecord(yaml, Current(p))
             /\ PipelineKey(Current(p).key) /\ dvc' = dvc
    <3>1. op'[p].pc = "none"
      BY <1>5, CrashWritingTurns, EndedIs DEF Died
    <3>2. op[p].cmd = "run"
      BY <2>2, HandTyped DEF InHand, PhasesOf
    <3>3. CASE op[p].overtaken
      BY <1>1, <2>2, <3>1, <3>3
    <3>4. CASE ~op[p].overtaken
      BY <2>2, <3>2, <3>4, RunWrites
    <3> QED
      BY <3>3, <3>4
  <2> QED
    BY <1>5, <2>1, <2>2, CrashWritingTurns
<1>6. CASE Freeze(p)
  BY <1>6, FreezeValid
<1>7. CASE DropYaml(p) \/ DropDvc(p) \/ Create(p) \/ Import(p) \/ Move(p)
  <2>1. yaml' \subseteq yaml /\ dvc' \subseteq dvc
    BY <1>7, DropIsFewer
       DEF DropYaml, DropDvc, Create, Import, Move, Refuse, files
  <2> QED
    BY <2>1, FewerValid
<1>8. CASE \/ Run(p) \/ ExecOk(p) \/ ExecFails(p) \/ Save(p) \/ SaveFails(p) \/ DumpFails(p)
           \/ Add(p) \/ CreateFails(p) \/ Update(p) \/ RemoveStage(p) \/ Unignore(p)
           \/ UnignoreCutShort(p) \/ Repro(p) \/ Reproduce(p) \/ Crash(p) \/ DumpLock(p) \/ DropLock(p)
  <2>1. UNCHANGED <<yaml, dvc>>
    BY <1>8 DEF Run, Refuse, ExecOk, ExecFails, Save, SaveFails, DumpFails, Add, CreateFails,
                Update, RemoveStage, Unignore, UnignoreCutShort, Repro, Reproduce, Crash, DumpLock, DropLock, files
  <2> QED
    BY <1>2, <2>1
<1> QED
  BY <1>3, <1>4, <1>5, <1>6, <1>7, <1>8, Zenon DEF Step

(* The graph of the files stays valid, whichever commands overlap, but for   *)
(* dvc move and commands that were overtaken while the repository lock was   *)
(* free (repo/run.py:127 and 139, repo/add.py:152, repo/imp_url.py).         *)
THEOREM GraphStaysValid == Spec => GraphKept
<1>1. Base /\ Fitting /\ [Next]_vars => Fitting'
  BY FitsStay
<1>2. Base /\ Fitting /\ [Next]_vars => [GraphNow]_vars
  <2> SUFFICES ASSUME Base, Fitting, [Next]_vars, vars' # vars
               PROVE  GraphNow
    OBVIOUS
  <2> SUFFICES ASSUME ValidGraph(Stages), ~ValidNext
               PROVE  \E p \in Proc : Excused(p)
    BY DEF GraphNow, Excused, ValidNext
  <2>1. PICK p \in Proc : Step(p)
    BY DEF Next
  <2> QED
    BY <2>1, StepGraph
<1> QED
  BY StageFilesTypes, InitFits, <1>1, <1>2, PTL DEF Spec, GraphKept, GraphNow
=============================================================================
