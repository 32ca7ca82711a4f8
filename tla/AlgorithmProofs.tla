--------------------------- MODULE AlgorithmProofs ---------------------------
(* Proofs about the pure algorithms, for inputs of every length: the trimming *)
(* of a conversation, the reading of an answer, the structural hash, and the  *)
(* recursive query over interactions.  The library's induction theorems take  *)
(* an operator; here induction over the naturals is stated with a set, and    *)
(* proved from the well-foundedness of <.                                     *)
EXTENDS History, Schema, Structure, Interactions,
        FunctionTheorems, FiniteSetTheorems, SequenceTheorems, WellFoundedInduction, TLAPS

-----------------------------------------------------------------------------
(* Induction and recursive functions.                                         *)

\* A set with 0 in it, and with every number the one behind it, is everything.
LEMMA SetInduction ==
  ASSUME NEW T, 0 \in T, \A n \in Nat : n \in T => n + 1 \in T
  PROVE  \A n \in Nat : n \in T
<1> DEFINE out == {n \in Nat : n \notin T}
           less == OpToRel(<, Nat)
<1> SUFFICES ASSUME out # {} PROVE FALSE
  OBVIOUS
<1>1. PICK x \in out : \A y \in out : <<y, x>> \notin less
  <2>1. IsWellFoundedOn(less, Nat) /\ out \subseteq Nat
    BY NatLessThanWellFounded
  <2> HIDE DEF less, out
  <2> QED
    BY <2>1, WFMin
<1>2. x \in Nat /\ x # 0
  OBVIOUS
<1>3. x - 1 \in Nat /\ x - 1 < x /\ x = (x - 1) + 1
  BY <1>2
<1>4. x - 1 \notin out
  BY <1>1, <1>2, <1>3 DEF OpToRel
<1> QED
  BY <1>2, <1>3, <1>4

\* The same up to a bound.
LEMMA BoundedInduction ==
  ASSUME NEW N \in Nat, NEW T, 0 \in T, \A n \in 0 .. N - 1 : n \in T => n + 1 \in T
  PROVE  \A n \in 0 .. N : n \in T
<1> DEFINE U == {n \in Nat : n <= N => n \in T}
<1>1. \A n \in Nat : n \in U
  <2>1. 0 \in U /\ \A n \in Nat : n \in U => n + 1 \in U
    OBVIOUS
  <2> HIDE DEF U
  <2> QED
    BY <2>1, SetInduction
<1> QED
  BY <1>1

\* f is the recursive function on 0 .. N that starts with base.
Recurs(f, N, base, step) ==
  f = [n \in 0 .. N |-> IF n = 0 THEN base ELSE step[<<n, f[n - 1]>>]]

\* It exists and is the only one.
LEMMA RecursionExists ==
  ASSUME NEW S, NEW base \in S, NEW step \in [Nat \X S -> S]
  PROVE  \A N \in Nat : \E f \in [0 .. N -> S] : Recurs(f, N, base, step)
<1> DEFINE T == {N \in Nat : \E f \in [0 .. N -> S] : Recurs(f, N, base, step)}
<1>1. 0 \in T
  <2>1. [n \in 0 .. 0 |-> base] \in [0 .. 0 -> S] /\ Recurs([n \in 0 .. 0 |-> base], 0, base, step)
    BY DEF Recurs
  <2> QED
    BY <2>1
<1>2. ASSUME NEW N \in Nat, N \in T PROVE N + 1 \in T
  <2>1. PICK f \in [0 .. N -> S] : Recurs(f, N, base, step)
    BY <1>2
  <2> DEFINE g == [n \in 0 .. N + 1 |-> IF n = N + 1 THEN step[<<n, f[N]>>] ELSE f[n]]
  <2>2. step[<<N + 1, f[N]>>] \in S
    OBVIOUS
  <2>3. g \in [0 .. N + 1 -> S]
    BY <2>2
  <2>4. ASSUME NEW n \in 0 .. N + 1
        PROVE  g[n] = IF n = 0 THEN base ELSE step[<<n, g[n - 1]>>]
    <3>1. CASE n = N + 1
      BY <3>1
    <3>2. CASE n \in 0 .. N
      <4>1. f[n] = IF n = 0 THEN base ELSE step[<<n, f[n - 1]>>]
        BY <3>2, <2>1 DEF Recurs
      <4>2. g[n] = f[n] /\ (n # 0 => g[n - 1] = f[n - 1])
        BY <3>2
      <4> QED
        BY <4>1, <4>2
    <3>3. n = N + 1 \/ n \in 0 .. N
      OBVIOUS
    <3> HIDE DEF g
    <3> QED
      BY <3>1, <3>2, <3>3
  <2>5. Recurs(g, N + 1, base, step)
    BY <2>4 DEF Recurs
  <2> HIDE DEF g
  <2> QED
    BY <2>3, <2>5
<1>3. \A N \in Nat : N \in T
  <2> HIDE DEF T
  <2> QED
    BY <1>1, <1>2, SetInduction
<1> QED
  BY <1>3

-----------------------------------------------------------------------------
(* The recursive query over interactions.                                     *)

\* Rows is the function its definition describes.
LEMMA RowsAre ==
  ASSUME NEW interactions, NEW project
  PROVE  Rows(interactions, project) =
           [d \in 1 .. MaxDepth |-> IF d = 1 THEN Seeds(interactions, project)
                                   ELSE Targets(interactions, Rows(interactions, project)[d - 1])]
<1> DEFINE seeds == Seeds(interactions, project)
           ids == seeds \cup {i[2] : i \in interactions}
           step == [p \in Nat \X SUBSET ids |-> Targets(interactions, p[2])]
           Is(r) == r = [d \in 1 .. MaxDepth |-> IF d = 1 THEN seeds
                                                ELSE Targets(interactions, r[d - 1])]
<1>1. step \in [Nat \X SUBSET ids -> SUBSET ids] /\ seeds \in SUBSET ids
  BY DEF Targets
<1>2. PICK f \in [0 .. 6 -> SUBSET ids] : Recurs(f, 6, seeds, step)
  <2> HIDE DEF step, seeds, ids
  <2> QED
    BY <1>1, RecursionExists
<1> DEFINE r == [d \in 1 .. MaxDepth |-> f[d - 1]]
<1>3. ASSUME NEW d \in 1 .. MaxDepth
      PROVE  r[d] = IF d = 1 THEN seeds ELSE Targets(interactions, r[d - 1])
  <2> HIDE DEF seeds, ids
  <2>1. d - 1 \in 0 .. 6 /\ (d # 1 => d - 1 # 0 /\ d - 1 \in Nat /\ d - 1 \in 1 .. MaxDepth /\ (d - 1) - 1 \in 0 .. 6)
    BY DEF MaxDepth
  <2>2. f[d - 1] = IF d - 1 = 0 THEN seeds ELSE step[<<d - 1, f[(d - 1) - 1]>>]
    BY <1>2, <2>1 DEF Recurs
  <2>3. CASE d = 1
    BY <2>1, <2>2, <2>3
  <2>4. CASE d # 1
    <3>1. f[(d - 1) - 1] \in SUBSET ids
      BY <2>1, <2>4
    <3>2. step[<<d - 1, f[(d - 1) - 1]>>] = Targets(interactions, f[(d - 1) - 1])
      BY <2>1, <2>4, <3>1
    <3> QED
      BY <2>1, <2>2, <2>4, <3>2
  <2> QED
    BY <2>3, <2>4
<1>4. Is(r)
  BY <1>3
<1>5. Is(CHOOSE q : Is(q))
  <2> HIDE DEF r, Is
  <2> QED
    BY <1>4
<1> QED
  BY <1>5 DEF Rows

\* Whatever cycles and chains the interactions form: both ends of every one that
\* starts in the project are found, and nothing that they do not lead to.
LEMMA HidesNothing ==
  ASSUME NEW interactions, NEW project
  PROVE  HidesNothingOf(interactions, project)
<1> DEFINE seeds == Seeds(interactions, project)
           row == Rows(interactions, project)
           found == DiscoverMacroPipelines(interactions, project)
<1>1. row[1] = seeds /\ row[2] = Targets(interactions, seeds)
  BY RowsAre DEF MaxDepth
<1>2. \A d \in 1 .. 6 : row[d + 1] = Targets(interactions, row[d])
  BY RowsAre DEF MaxDepth
<1>3. found = UNION {row[d] : d \in 1 .. MaxDepth}
  BY DEF DiscoverMacroPipelines
<1>4. ASSUME NEW i \in interactions, i[1] \in project
      PROVE  {i[1], i[2]} \subseteq found
  <2>1. i[1] \in seeds
    BY <1>4 DEF Seeds, Froms
  <2>2. i[2] \in Targets(interactions, seeds)
    BY <2>1 DEF Targets
  <2>3. 1 \in 1 .. MaxDepth /\ 2 \in 1 .. MaxDepth
    BY DEF MaxDepth
  <2> HIDE DEF seeds, row, found
  <2> QED
    BY <2>1, <2>2, <2>3, <1>1, <1>3
<1>5. ASSUME NEW S, seeds \subseteq S, Closed(interactions, S)
      PROVE  found \subseteq S
  <2> DEFINE T == {d \in Nat : row[d + 1] \subseteq S}
  <2>1. 0 \in T
    BY <1>1, <1>5
  <2>2. ASSUME NEW d \in 0 .. 6 - 1, d \in T PROVE d + 1 \in T
    <3>1. d + 1 \in 1 .. 6 /\ d + 1 \in Nat /\ (d + 1) + 1 \in Nat
      OBVIOUS
    <3>2. row[(d + 1) + 1] = Targets(interactions, row[d + 1]) /\ row[d + 1] \subseteq S
      BY <1>2, <3>1, <2>2
    <3>3. Targets(interactions, row[d + 1]) \subseteq S
      BY <3>2, <1>5 DEF Targets, Closed
    <3> QED
      BY <3>1, <3>2, <3>3
  <2>3. \A d \in 0 .. 6 : d \in T
    <3> HIDE DEF T
    <3> QED
      BY <2>1, <2>2, BoundedInduction
  <2>4. ASSUME NEW d \in 1 .. MaxDepth PROVE row[d] \subseteq S
    <3>1. d - 1 \in 0 .. 6 /\ (d - 1) + 1 = d
      BY DEF MaxDepth
    <3> QED
      BY <3>1, <2>3
  <2> QED
    BY <1>3, <2>4
<1> QED
  BY <1>4, <1>5 DEF HidesNothingOf

-----------------------------------------------------------------------------
(* The reading of an answer.                                                  *)

\* How many of the first n words are among some words, and how it grows.
CountOf(s, words, n) == Cardinality({i \in 1 .. n : s[i] \in words})

LEMMA CountStep ==
  ASSUME NEW s, NEW words, NEW n \in Nat \ {0}
  PROVE  /\ CountOf(s, words, n) \in Nat /\ CountOf(s, words, n - 1) \in Nat
         /\ s[n] \in words => CountOf(s, words, n) = CountOf(s, words, n - 1) + 1
         /\ s[n] \notin words => CountOf(s, words, n) = CountOf(s, words, n - 1)
<1> DEFINE A == {i \in 1 .. n - 1 : s[i] \in words}
           B == {i \in 1 .. n : s[i] \in words}
<1>0. Cardinality(B) = CountOf(s, words, n) /\ Cardinality(A) = CountOf(s, words, n - 1)
  BY DEF CountOf
<1>1. A \in SUBSET (1 .. n - 1) /\ n \notin A
  OBVIOUS
<1>2. s[n] \in words => B = A \cup {n}
  OBVIOUS
<1>3. s[n] \notin words => B = A
  OBVIOUS
<1> HIDE DEF A, B
<1>4. IsFiniteSet(A) /\ Cardinality(A) \in Nat
  <2>1. IsFiniteSet(1 .. n - 1)
    BY FS_Interval
  <2> QED
    BY <2>1, <1>1, FS_Subset, FS_CardinalityType
<1>5. s[n] \in words => Cardinality(B) = Cardinality(A) + 1
  BY <1>1, <1>2, <1>4, FS_AddElement
<1>6. s[n] \notin words => Cardinality(B) = Cardinality(A)
  BY <1>3
<1> QED
  BY <1>0, <1>4, <1>5, <1>6

\* An object ends with a closing bracket, which is not its first word.
LEMMA ObjectEnds ==
  ASSUME NEW W, NEW s \in Seq(W), IsObject(s)
  PROVE  Len(s) \in Nat /\ Len(s) > 1 /\ s[1] = "{" /\ s[Len(s)] \in Closers
<1> DEFINE n == Len(s)
           opened(k) == CountOf(s, Openers, k)
           shut(k) == CountOf(s, Closers, k)
<1>0. n \in Nat \ {0}
  BY EmptySeq DEF IsObject
<1>1. s[1] = "{"
  BY DEF IsObject
<1>2. /\ opened(n) - shut(n) = 0
      /\ \A k \in 1 .. n - 1 : opened(k) - shut(k) > 0
  BY DEF IsObject, Depth, CountOf
<1>3. /\ opened(n) \in Nat /\ opened(n - 1) \in Nat /\ shut(n) \in Nat /\ shut(n - 1) \in Nat
      /\ s[n] \in Openers => opened(n) = opened(n - 1) + 1
      /\ s[n] \notin Openers => opened(n) = opened(n - 1)
      /\ s[n] \in Closers => shut(n) = shut(n - 1) + 1
      /\ s[n] \notin Closers => shut(n) = shut(n - 1)
  BY <1>0, CountStep
<1>4. n # 1
  <2> SUFFICES ASSUME n = 1 PROVE FALSE
    OBVIOUS
  <2>1. {i \in 1 .. 0 : s[i] \in Openers} = {} /\ {i \in 1 .. 0 : s[i] \in Closers} = {}
    OBVIOUS
  <2>2. opened(0) = 0 /\ shut(0) = 0
    BY <2>1, FS_EmptySet, Zenon DEF CountOf
  <2>3. s[n] \in Openers /\ s[n] \notin Closers
    BY <1>1 DEF Openers, Closers
  <2>4. n - 1 = 0
    OBVIOUS
  <2> HIDE DEF opened, shut, n
  <2> QED
    BY <1>2, <1>3, <2>2, <2>3, <2>4
<1>5. opened(n - 1) - shut(n - 1) > 0
  <2> HIDE DEF n, opened, shut
  <2>1. n - 1 \in 1 .. n - 1
    BY <1>0, <1>4
  <2> QED
    BY <2>1, <1>2
<1>6. s[n] \in Closers
  <2> HIDE DEF opened, shut, n
  <2> QED
    BY <1>2, <1>3, <1>5
<1>7. n \in Nat /\ n > 1
  <2> HIDE DEF n
  <2> QED
    BY <1>0, <1>4
<1> QED
  BY <1>1, <1>6, <1>7

LEMMA PlacesFacts ==
  ASSUME NEW W, NEW s \in Seq(W), NEW words
  PROVE  /\ PlacesOf(s, words) \subseteq 1 .. Len(s)
         /\ IsFiniteSet(PlacesOf(s, words))
<1>1. PlacesOf(s, words) \subseteq 1 .. Len(s) /\ Len(s) \in Nat
  BY LenProperties DEF PlacesOf
<1>2. IsFiniteSet(1 .. Len(s))
  BY <1>1, FS_Interval
<1> QED
  BY <1>1, <1>2, FS_Subset

\* A non-empty set of numbers has a least one; below a bound, a greatest one.
LEMMA LeastOf ==
  ASSUME NEW found \in SUBSET Nat, found # {}
  PROVE  \E m \in found : \A i \in found : m <= i
<1> DEFINE less == OpToRel(<, Nat)
<1>1. \E m \in found : \A i \in found : <<i, m>> \notin less
  <2>1. IsWellFoundedOn(less, Nat)
    BY NatLessThanWellFounded
  <2> HIDE DEF less
  <2> QED
    BY <2>1, WFMin
<1>2. \A i, m \in found : <<i, m>> \notin less => m <= i
  BY DEF OpToRel
<1> HIDE DEF less
<1> QED
  BY <1>1, <1>2

LEMMA MinIs ==
  ASSUME NEW found \in SUBSET Nat, found # {}
  PROVE  Min(found) \in found /\ \A i \in found : Min(found) <= i
BY LeastOf DEF Min

LEMMA MaxIs ==
  ASSUME NEW n \in Nat, NEW found \in SUBSET (0 .. n), found # {}
  PROVE  Max(found) \in found /\ \A i \in found : i <= Max(found)
<1> DEFINE above == {k \in Nat : \A i \in found : i <= k}
<1>1. PICK m \in above : \A k \in above : m <= k
  <2>1. above \in SUBSET Nat /\ n \in above
    OBVIOUS
  <2> HIDE DEF above
  <2> QED
    BY <2>1, LeastOf
<1>2. m \in found
  <2> SUFFICES ASSUME m \notin found PROVE FALSE
    OBVIOUS
  <2>1. m \in Nat /\ \A i \in found : i \in Nat /\ i < m
    BY <1>1
  <2>2. PICK i \in found : TRUE
    OBVIOUS
  <2>3. m - 1 \in Nat /\ \A k \in found : k <= m - 1
    BY <2>1, <2>2
  <2>4. m - 1 \in above
    BY <2>3
  <2>5. ~(m <= m - 1)
    BY <2>1
  <2> QED
    BY <1>1, <2>4, <2>5
<1>3. \E k \in found : \A i \in found : k >= i
  BY <1>1, <1>2
<1> QED
  BY <1>3 DEF Max

\* What the repair cuts out: a part from the first opening bracket to the last
\* closing one behind it, as far as there are any.
LEMMA RepairIs ==
  ASSUME NEW W, NEW raw \in Seq(W), raw # <<>>
  PROVE  \E i, e \in 1 .. Len(raw) :
           /\ i <= e /\ RepairMarkdownFences(raw) = SubSeq(raw, i, e)
           /\ \A j \in 1 .. Len(raw) : raw[j] \in Openers => raw[i] \in Openers /\ i <= j
           /\ \A j \in i .. Len(raw) : raw[j] \in Closers => raw[e] \in Closers /\ j <= e
<1> DEFINE N == Len(raw)
           i == FirstOpener(raw)
           s == SubSeq(raw, i, N)
           k == LastCloser(s)
           opens == PlacesOf(raw, Openers)
           shuts == PlacesOf(s, Closers)
<1>1. N \in Nat \ {0} /\ DOMAIN raw = 1 .. N
  BY EmptySeq, LenProperties
<1>2. i \in 1 .. N /\ \A j \in 1 .. N : raw[j] \in Openers => raw[i] \in Openers /\ i <= j
  <2>1. opens = {j \in 1 .. N : raw[j] \in Openers}
    BY <1>1 DEF PlacesOf
  <2>2. CASE opens = {}
    <3>1. i = 1
      BY <2>2 DEF FirstOpener
    <3> QED
      BY <1>1, <2>1, <2>2, <3>1
  <2>3. CASE opens # {}
    <3>1. i = Min(opens)
      BY <2>3 DEF FirstOpener
    <3>2. opens \in SUBSET Nat
      BY <1>1, <2>1
    <3>3. i \in opens /\ \A j \in opens : i <= j
      <4> HIDE DEF opens, i
      <4> QED
        BY <2>3, <3>1, <3>2, MinIs
    <3> QED
      BY <2>1, <3>3
  <2> QED
    BY <2>2, <2>3
<1> HIDE DEF i
<1>3. /\ s \in Seq(W) /\ Len(s) = N - i + 1 /\ DOMAIN s = 1 .. N - i + 1
      /\ \A j \in 1 .. N - i + 1 : s[j] = raw[i + j - 1]
  <2>1. i \in Int /\ N \in Int /\ i <= N /\ \A j \in i .. N : raw[j] \in W
    BY <1>1, <1>2, ElementOfSeq
  <2>2. /\ s \in Seq(W) /\ Len(s) = N - i + 1
        /\ \A j \in 1 .. N - i + 1 : s[j] = raw[i + j - 1]
    <3> HIDE DEF N
    <3> QED
      BY <2>1, SubSeqProperties
  <2> QED
    BY <2>2, LenProperties
<1> HIDE DEF s
<1>4. k \in 1 .. N - i + 1 /\ \A j \in 1 .. N - i + 1 : s[j] \in Closers => s[k] \in Closers /\ j <= k
  <2>1. shuts = {j \in 1 .. N - i + 1 : s[j] \in Closers}
    BY <1>3 DEF PlacesOf
  <2>2. N - i + 1 \in Nat \ {0}
    BY <1>1, <1>2
  <2>3. CASE shuts = {}
    <3>1. k = N - i + 1
      BY <1>3, <2>3 DEF LastCloser
    <3> QED
      BY <2>1, <2>2, <2>3, <3>1
  <2>4. CASE shuts # {}
    <3>1. k = Max(shuts)
      BY <2>4 DEF LastCloser
    <3>2. shuts \in SUBSET (0 .. N - i + 1)
      BY <2>1, <2>2
    <3>3. k \in shuts /\ \A j \in shuts : j <= k
      <4> HIDE DEF shuts, k, N
      <4> QED
        BY <2>2, <2>4, <3>1, <3>2, MaxIs
    <3> QED
      BY <2>1, <3>3
  <2> QED
    BY <2>3, <2>4
<1> HIDE DEF k
<1> DEFINE e == i + k - 1
<1>5. e \in 1 .. N /\ i <= e
  BY <1>1, <1>2, <1>4
<1>6. RepairMarkdownFences(raw) = SubSeq(raw, i, e)
  <2>1. RepairMarkdownFences(raw) = SubSeq(s, 1, k)
    BY DEF RepairMarkdownFences, i, s, k
  <2>2. i + 1 - 1 = i /\ 1 \in 1 .. N - i + 1
    BY <1>1, <1>2
  <2>3. SubSeq(SubSeq(raw, i, N), 1, k) = SubSeq(raw, i + 1 - 1, i + k - 1)
    BY <1>1, <1>2, <1>4, <2>2, SubSeqOfSubSeq
  <2> QED
    BY <2>1, <2>2, <2>3 DEF s
<1>7. ASSUME NEW j \in i .. N, raw[j] \in Closers
      PROVE  raw[e] \in Closers /\ j <= e
  <2>1. j - i + 1 \in 1 .. N - i + 1 /\ i + (j - i + 1) - 1 = j
    BY <1>1, <1>2
  <2>2. s[j - i + 1] = raw[j]
    BY <1>3, <2>1
  <2>3. s[k] \in Closers /\ j - i + 1 <= k
    BY <1>4, <1>7, <2>1, <2>2
  <2>4. s[k] = raw[e]
    BY <1>3, <1>4
  <2> QED
    BY <1>1, <1>2, <1>4, <2>3, <2>4
<1> HIDE DEF e
<1> QED
  BY <1>2, <1>5, <1>6, <1>7

\* A part with as many brackets as the whole leaves none outside.
LEMMA NoneOutside ==
  ASSUME NEW W, NEW raw \in Seq(W), NEW a \in 1 .. Len(raw), NEW b \in 1 .. Len(raw), NEW words,
         Cardinality(PlacesOf(raw, words)) = Cardinality(PlacesOf(SubSeq(raw, a, b), words))
  PROVE  PlacesOf(raw, words) \subseteq a .. b
<1> DEFINE v == SubSeq(raw, a, b)
           here == PlacesOf(v, words)
           inside == {j \in PlacesOf(raw, words) : a <= j /\ j <= b}
           shift == [j \in here |-> a + j - 1]
<1>1. Len(raw) \in Nat /\ PlacesOf(raw, words) = {j \in 1 .. Len(raw) : raw[j] \in words}
  BY LenProperties DEF PlacesOf
<1>2. /\ v \in Seq(W) /\ Len(v) = (IF a <= b THEN b - a + 1 ELSE 0)
      /\ \A j \in 1 .. b - a + 1 : v[j] = raw[a + j - 1]
  <2>1. a \in Int /\ b \in Int /\ \A j \in a .. b : raw[j] \in W
    BY <1>1, ElementOfSeq
  <2> QED
    BY <2>1, SubSeqProperties
<1>3. here = {j \in 1 .. Len(v) : v[j] \in words}
  BY <1>2, LenProperties DEF PlacesOf
<1> HIDE DEF v
<1>4. ASSUME NEW j \in here PROVE a + j - 1 \in inside
  <2>1. j \in 1 .. b - a + 1 /\ v[j] \in words
    BY <1>2, <1>3
  <2>2. raw[a + j - 1] \in words /\ a + j - 1 \in 1 .. Len(raw)
    BY <1>1, <1>2, <2>1
  <2>3. a <= a + j - 1 /\ a + j - 1 <= b
    BY <2>1
  <2> HIDE DEF here
  <2> QED
    BY <1>1, <2>2, <2>3
<1>5. here \subseteq Int
  BY <1>2, <1>3
<1> HIDE DEF here, inside
<1>6. shift \in Injection(here, inside)
  <2>1. shift \in [here -> inside]
    BY <1>4
  <2>2. \A j, k \in here : a + j - 1 = a + k - 1 => j = k
    BY <1>1, <1>5
  <2>3. \A j, k \in here : shift[j] = shift[k] => j = k
    BY <2>2
  <2> HIDE DEF shift
  <2> QED
    BY <2>1, <2>3, Fun_IsInj
<1>7. IsFiniteSet(inside) /\ Cardinality(inside) <= Cardinality(PlacesOf(raw, words))
      /\ (Cardinality(inside) = Cardinality(PlacesOf(raw, words)) => inside = PlacesOf(raw, words))
  <2>1. inside \in SUBSET PlacesOf(raw, words)
    BY DEF inside
  <2> QED
    BY <2>1, PlacesFacts, FS_Subset
<1>8. Cardinality(here) <= Cardinality(inside)
  <2> HIDE DEF shift
  <2> QED
    BY <1>6, <1>7, FS_Injection
<1>9. /\ Cardinality(here) \in Nat /\ Cardinality(inside) \in Nat
      /\ Cardinality(PlacesOf(raw, words)) = Cardinality(here)
  BY <1>2, <1>7, PlacesFacts, FS_CardinalityType DEF v, here
<1>10. inside = PlacesOf(raw, words)
  BY <1>7, <1>8, <1>9
<1> QED
  BY <1>1, <1>10 DEF inside

\* Every answer, of any length and with any words around its brackets: what is
\* read is a whole object of the answer, and the only object of an answer is read.
LEMMA ReadsTheObjectOf ==
  ASSUME NEW W, NEW raw \in Seq(W)
  PROVE  ReadsTheObject(raw)
<1> DEFINE parts == {SubSeq(raw, p[1], p[2]) : p \in (DOMAIN raw) \X (DOMAIN raw)}
           brackets == Openers \cup Closers
           N == Len(raw)
           repaired == RepairMarkdownFences(raw)
<1>1. N \in Nat /\ DOMAIN raw = 1 .. N
  BY LenProperties
<1>2. ASSUME NEW i \in 1 .. N, NEW k \in 1 .. N
      PROVE  SubSeq(raw, i, k) \in parts
  <2>1. <<i, k>> \in (DOMAIN raw) \X (DOMAIN raw)
    BY <1>1
  <2> QED
    BY <2>1
<1>3. ASSUME NEW v \in parts
      PROVE  \E i, k \in 1 .. N : v = SubSeq(raw, i, k)
  <2>1. PICK p \in (1 .. N) \X (1 .. N) : v = SubSeq(raw, p[1], p[2])
    BY <1>1
  <2> QED
    BY <2>1
<1>4. ASSUME IsObject(raw) PROVE raw \in parts
  <2>1. N > 1 /\ SubSeq(raw, 1, N) = raw
    BY <1>4, ObjectEnds, SubSeqFull
  <2>2. 1 \in 1 .. N /\ N \in 1 .. N
    BY <1>1, <2>1
  <2>3. SubSeq(raw, 1, N) \in parts
    BY <2>2, <1>2
  <2> QED
    BY <2>1, <2>3
<1>5. ASSUME IsObject(repaired) PROVE repaired \in parts
  <2>1. CASE raw = <<>>
    <3>1. FirstOpener(raw) = 1
      BY <2>1 DEF FirstOpener, PlacesOf
    <3> DEFINE s == SubSeq(raw, 1, N)
    <3>2. s = <<>>
      BY <2>1, SubSeqFull
    <3>3. LastCloser(<<>>) = 0
      BY DEF LastCloser, PlacesOf
    <3>4. repaired = SubSeq(<<>>, 1, 0)
      BY <3>1, <3>2, <3>3 DEF RepairMarkdownFences
    <3>5. repaired = <<>>
      BY <3>4, SubSeqEmpty
    <3>6. ~IsObject(repaired)
      BY <3>5 DEF IsObject
    <3> QED
      BY <1>5, <3>6
  <2>2. CASE raw # <<>>
    <3>1. PICK i, e \in 1 .. N : repaired = SubSeq(raw, i, e)
      BY <2>2, RepairIs
    <3>2. SubSeq(raw, i, e) \in parts
      BY <1>2
    <3> QED
      BY <3>1, <3>2
  <2> QED
    BY <2>1, <2>2
<1>6. ParseStrict(raw) \in {Unreadable} \cup {v \in parts : IsObject(v)}
  <2>1. ParseStrict(raw) = Unreadable \/ (IsObject(raw) /\ ParseStrict(raw) = raw)
          \/ (IsObject(repaired) /\ ParseStrict(raw) = repaired)
    BY DEF ParseStrict
  <2> HIDE DEF parts, repaired
  <2> QED
    BY <2>1, <1>4, <1>5
<1>7. ASSUME NEW a \in 1 .. N, NEW b \in 1 .. N, IsObject(SubSeq(raw, a, b)),
             Cardinality(PlacesOf(raw, brackets)) = Cardinality(PlacesOf(SubSeq(raw, a, b), brackets))
      PROVE  ParseStrict(raw) = SubSeq(raw, a, b)
  <2> DEFINE v == SubSeq(raw, a, b)
  <2>1. /\ v \in Seq(W) /\ Len(v) = (IF a <= b THEN b - a + 1 ELSE 0)
        /\ \A j \in 1 .. b - a + 1 : v[j] = raw[a + j - 1]
    <3>1. a \in Int /\ b \in Int /\ \A j \in a .. b : raw[j] \in W
      BY <1>1, ElementOfSeq
    <3> QED
      BY <3>1, SubSeqProperties
  <2>2. Len(v) > 1 /\ v[1] = "{" /\ v[Len(v)] \in Closers
    <3> HIDE DEF v
    <3> QED
      BY <2>1, <1>7, ObjectEnds DEF v
  <2>3. a < b /\ raw[a] \in Openers /\ raw[b] \in Closers
    <3>1. a < b /\ Len(v) = b - a + 1
      <4> DEFINE n == Len(v)
      <4>1. n = IF a <= b THEN b - a + 1 ELSE 0
        BY <2>1
      <4>2. n > 1
        BY <2>2
      <4>3. a \in Nat /\ b \in Nat
        BY <1>1
      <4> HIDE DEF n
      <4>4. a <= b
        BY <4>1, <4>2, <4>3
      <4> QED
        BY <4>1, <4>2, <4>3, <4>4 DEF n
    <3>2. v[1] = raw[a] /\ v[b - a + 1] = raw[b]
      BY <1>1, <2>1, <3>1
    <3> QED
      BY <2>2, <3>1, <3>2 DEF Openers
  <2>4. \A j \in 1 .. N : raw[j] \in brackets => a <= j /\ j <= b
    <3>1. PlacesOf(raw, brackets) \subseteq a .. b
      <4> HIDE DEF brackets
      <4> QED
        BY <1>7, NoneOutside
    <3> QED
      BY <1>1, <3>1 DEF PlacesOf
  <2>5. repaired = v
    <3>1. raw # <<>>
      BY <1>1
    <3>2. PICK i, e \in 1 .. Len(raw) :
           /\ i <= e /\ repaired = SubSeq(raw, i, e)
           /\ \A j \in 1 .. Len(raw) : raw[j] \in Openers => raw[i] \in Openers /\ i <= j
           /\ \A j \in i .. Len(raw) : raw[j] \in Closers => raw[e] \in Closers /\ j <= e
      BY <3>1, RepairIs
    <3>3. i = a
      BY <1>1, <2>3, <2>4, <3>2
    <3>4. e = b
      BY <1>1, <2>3, <2>4, <3>2, <3>3
    <3> QED
      BY <3>2, <3>3, <3>4
  <2>6. ASSUME IsObject(raw) PROVE raw = v
    <3>1. N > 1 /\ raw[1] \in Openers /\ raw[N] \in Closers
      BY <2>6, ObjectEnds DEF Openers
    <3>2. a <= 1 /\ N <= b
      BY <1>1, <2>4, <3>1
    <3>3. a = 1 /\ b = N
      <4> HIDE DEF N
      <4> QED
        BY <1>1, <3>2
    <3> QED
      BY <3>3, SubSeqFull
  <2> HIDE DEF v
  <2>7. IsObject(v)
    BY <1>7 DEF v
  <2> QED
    BY <2>5, <2>6, <2>7 DEF ParseStrict, v
<1>8. ASSUME NEW v \in parts, IsObject(v),
             Cardinality(PlacesOf(raw, brackets)) = Cardinality(PlacesOf(v, brackets))
      PROVE  ParseStrict(raw) = v
  <2> HIDE DEF parts, brackets, N
  <2>1. PICK a, b \in 1 .. N : v = SubSeq(raw, a, b)
    BY <1>3
  <2> QED
    BY <1>7, <1>8, <2>1
<1> QED
  BY <1>6, <1>8 DEF ReadsTheObject

-----------------------------------------------------------------------------
(* The elements of a sequence at some places (Selection).                     *)

Rank(places, i) == Cardinality({j \in places : j <= i})

\* The rank of a place grows with the place and is at most the number of places.
LEMMA RankGrows ==
  ASSUME NEW places \in SUBSET Nat, IsFiniteSet(places)
  PROVE  /\ Cardinality(places) \in Nat
         /\ \A i \in Nat : Rank(places, i) \in 0 .. Cardinality(places)
         /\ \A i \in places : Rank(places, i) \in 1 .. Cardinality(places)
         /\ \A i \in Nat, j \in places : i < j => Rank(places, i) < Rank(places, j)
<1> DEFINE upTo(i) == {h \in places : h <= i}
<1>1. ASSUME NEW i \in Nat
      PROVE  /\ IsFiniteSet(upTo(i)) /\ Cardinality(upTo(i)) \in Nat
             /\ Cardinality(upTo(i)) <= Cardinality(places)
  <2>1. upTo(i) \in SUBSET places
    OBVIOUS
  <2> HIDE DEF upTo
  <2> QED
    BY <2>1, FS_Subset, FS_CardinalityType
<1>2. Cardinality(places) \in Nat
  BY FS_CardinalityType
<1>3. ASSUME NEW i \in places PROVE Cardinality(upTo(i)) # 0
  <2>1. i \in upTo(i) /\ IsFiniteSet(upTo(i))
    BY <1>1
  <2> HIDE DEF upTo
  <2> QED
    BY <2>1, FS_EmptySet
<1>4. ASSUME NEW i \in Nat, NEW j \in places, i < j
      PROVE  Cardinality(upTo(i)) < Cardinality(upTo(j))
  <2>1. j \in Nat /\ \A h \in places : h \in Nat /\ (h <= i => h <= j)
    BY <1>4
  <2>2. upTo(i) \subseteq upTo(j)
    BY <2>1
  <2>3. j \in upTo(j)
    BY <2>1
  <2>4. j \notin upTo(i)
    BY <1>4, <2>1
  <2>5. /\ Cardinality(upTo(i)) \in Nat /\ Cardinality(upTo(j)) \in Nat
        /\ IsFiniteSet(upTo(j))
    BY <1>1
  <2> HIDE DEF upTo
  <2>6. /\ Cardinality(upTo(i)) <= Cardinality(upTo(j))
        /\ Cardinality(upTo(i)) # Cardinality(upTo(j))
    BY <2>2, <2>3, <2>4, <2>5, FS_Subset
  <2> QED
    BY <2>5, <2>6
<1>5. \A i \in Nat : Rank(places, i) = Cardinality(upTo(i))
  BY DEF Rank
<1> HIDE DEF upTo
<1>6. \A i \in Nat : Rank(places, i) \in 0 .. Cardinality(places)
  BY <1>1, <1>2, <1>5
<1>7. \A i \in places : Rank(places, i) \in 1 .. Cardinality(places)
  BY <1>1, <1>2, <1>3, <1>5
<1>8. \A i \in Nat, j \in places : i < j => Rank(places, i) < Rank(places, j)
  BY <1>4, <1>5
<1> QED
  BY <1>2, <1>6, <1>7, <1>8

\* Every place is the one of its rank, and every rank has its place.
LEMMA NthIs ==
  ASSUME NEW places \in SUBSET Nat, IsFiniteSet(places)
  PROVE  /\ \A k \in 1 .. Cardinality(places) :
              Nth(places, k) \in places /\ Rank(places, Nth(places, k)) = k
         /\ \A i \in places : Nth(places, Rank(places, i)) = i
<1> DEFINE n == Cardinality(places)
           rank == [i \in places |-> Rank(places, i)]
<1>1. /\ n \in Nat /\ \A i \in places : Rank(places, i) \in 1 .. n
      /\ \A i, j \in places : i < j => Rank(places, i) < Rank(places, j)
  BY RankGrows
<1>2. \A i, j \in places : Rank(places, i) = Rank(places, j) => i = j
  <2> SUFFICES ASSUME NEW i \in places, NEW j \in places, Rank(places, i) = Rank(places, j), i # j
               PROVE  FALSE
    OBVIOUS
  <2>1. (i < j \/ j < i) /\ Rank(places, i) \in Nat
    BY <1>1
  <2>2. Rank(places, i) < Rank(places, j) \/ Rank(places, j) < Rank(places, i)
    BY <1>1, <2>1
  <2> QED
    BY <2>1, <2>2
<1>3. rank \in Injection(places, 1 .. n)
  <2>1. rank \in [places -> 1 .. n]
    BY <1>1
  <2>2. \A i, j \in places : rank[i] = rank[j] => i = j
    BY <1>2
  <2> HIDE DEF rank, n
  <2> QED
    BY <2>1, <2>2, Fun_IsInj
<1>4. IsFiniteSet(1 .. n) /\ Cardinality(1 .. n) = n
  BY <1>1, FS_Interval
<1>5. rank \in Surjection(places, 1 .. n)
  <2> HIDE DEF rank
  <2> QED
    BY <1>3, <1>4, FS_Injection
<1>6. ASSUME NEW k \in 1 .. n PROVE \E i \in places : Rank(places, i) = k
  BY <1>5 DEF Surjection
<1>7. \A k : Nth(places, k) = CHOOSE i \in places : Rank(places, i) = k
  BY DEF Nth, Rank
<1> HIDE DEF rank
<1>8. \A k \in 1 .. n : Nth(places, k) \in places /\ Rank(places, Nth(places, k)) = k
  BY <1>6, <1>7
<1>9. ASSUME NEW i \in places PROVE Nth(places, Rank(places, i)) = i
  BY <1>1, <1>2, <1>8
<1> QED
  BY <1>8, <1>9

LEMMA ThoseIs ==
  ASSUME NEW S, NEW seq \in Seq(S), NEW places \in SUBSET (1 .. Len(seq))
  PROVE  /\ places \in SUBSET Nat /\ IsFiniteSet(places) /\ Cardinality(places) \in Nat
         /\ Those(seq, places) \in Seq(S)
         /\ Len(Those(seq, places)) = Cardinality(places)
         /\ DOMAIN Those(seq, places) = 1 .. Cardinality(places)
         /\ \A k \in 1 .. Cardinality(places) : Those(seq, places)[k] = seq[Nth(places, k)]
<1> DEFINE n == Cardinality(places)
           those == [k \in 1 .. n |-> seq[Nth(places, k)]]
<1>1. Len(seq) \in Nat /\ IsFiniteSet(1 .. Len(seq))
  BY LenProperties, FS_Interval
<1>2. places \in SUBSET Nat /\ IsFiniteSet(places) /\ n \in Nat
  <2>1. places \in SUBSET Nat
    BY <1>1
  <2>2. IsFiniteSet(places)
    BY <1>1, FS_Subset
  <2> QED
    BY <2>1, <2>2, FS_CardinalityType
<1>3. \A k \in 1 .. n : seq[Nth(places, k)] \in S
  <2>1. \A k \in 1 .. n : Nth(places, k) \in places
    BY <1>2, NthIs
  <2> QED
    BY <2>1, ElementOfSeq
<1>4. those \in [1 .. n -> S]
  BY <1>3
<1>5. those \in Seq(S) /\ Len(those) = n /\ DOMAIN those = 1 .. n
  <2>1. those \in Seq(S)
    <3> HIDE DEF n, those
    <3> QED
      BY <1>2, <1>4, SeqDef
  <2>2. DOMAIN those = 1 .. n
    OBVIOUS
  <2>3. Len(those) \in Nat /\ DOMAIN those = 1 .. Len(those)
    <3> HIDE DEF those, n
    <3> QED
      BY <2>1, LenProperties
  <2>4. Len(those) = n
    <3> HIDE DEF those, n
    <3> QED
      BY <1>2, <2>2, <2>3
  <2> QED
    BY <2>1, <2>2, <2>4
<1>6. those = Those(seq, places)
  BY DEF Those
<1>7. \A k \in 1 .. n : those[k] = seq[Nth(places, k)]
  OBVIOUS
<1> HIDE DEF those, n
<1> QED
  BY <1>2, <1>5, <1>6, <1>7 DEF n

\* Taking one place away drops the element of its rank.
LEMMA ThoseButOne ==
  ASSUME NEW S, NEW seq \in Seq(S), NEW places \in SUBSET (1 .. Len(seq)), NEW q \in places
  PROVE  Those(seq, places \ {q}) = RemoveAt(Those(seq, places), Rank(places, q))
<1> DEFINE n == Cardinality(places)
           rest == places \ {q}
           p == Rank(places, q)
           all == Those(seq, places)
           left == Those(seq, rest)
           before == SubSeq(all, 1, p - 1)
           behind == SubSeq(all, p + 1, Len(all))
<1>1. /\ places \in SUBSET Nat /\ IsFiniteSet(places) /\ n \in Nat
      /\ all \in Seq(S) /\ Len(all) = n
      /\ \A k \in 1 .. n : all[k] = seq[Nth(places, k)]
  BY ThoseIs
<1>2. p \in 1 .. n
  BY <1>1, RankGrows
<1>3. rest \in SUBSET Nat /\ IsFiniteSet(rest) /\ Cardinality(rest) = n - 1
  <2>1. rest \in SUBSET places
    OBVIOUS
  <2>2. Cardinality(rest) = n - 1 /\ IsFiniteSet(rest)
    BY <1>1, FS_RemoveElement
  <2> QED
    BY <1>1, <2>1, <2>2
<1>4. /\ left \in Seq(S) /\ Len(left) = n - 1
      /\ \A k \in 1 .. n - 1 : left[k] = seq[Nth(rest, k)]
  <2>1. rest \in SUBSET (1 .. Len(seq))
    OBVIOUS
  <2> HIDE DEF rest
  <2> QED
    BY <1>3, <2>1, ThoseIs
<1>5. ASSUME NEW i \in rest, i < q PROVE Rank(rest, i) = Rank(places, i)
  <2>1. {j \in rest : j <= i} = {j \in places : j <= i}
    BY <1>1, <1>5
  <2> HIDE DEF rest
  <2> QED
    BY <2>1 DEF Rank
<1>6. ASSUME NEW i \in rest, q < i PROVE Rank(rest, i) = Rank(places, i) - 1
  <2> DEFINE upTo == {j \in places : j <= i}
  <2>1. {j \in rest : j <= i} = upTo \ {q} /\ q \in upTo
    BY <1>1, <1>6
  <2>2. IsFiniteSet(upTo)
    BY <1>1, FS_Subset
  <2> HIDE DEF rest, upTo
  <2>3. Cardinality(upTo \ {q}) = Cardinality(upTo) - 1
    BY <2>1, <2>2, FS_RemoveElement
  <2> QED
    BY <2>1, <2>3 DEF Rank, upTo
<1> HIDE DEF rest, left, all, n, p
<1>7. ASSUME NEW k \in 1 .. n, k < p
      PROVE  k \in 1 .. n - 1 /\ Nth(rest, k) = Nth(places, k)
  <2> DEFINE i == Nth(places, k)
  <2>1. i \in places /\ Rank(places, i) = k
    BY <1>1, NthIs DEF n
  <2> HIDE DEF i
  <2>2. i \in Nat /\ q \in Nat /\ i # q
    BY <1>1, <1>2, <1>7, <2>1 DEF p
  <2>3. i < q
    <3> SUFFICES ASSUME q < i PROVE FALSE
      BY <2>2
    <3>1. Rank(places, q) < Rank(places, i)
      BY <1>1, <2>1, RankGrows
    <3> QED
      BY <1>2, <1>7, <2>1, <3>1 DEF p
  <2>4. i \in rest
    BY <2>1, <2>2 DEF rest
  <2>5. Rank(rest, i) = k
    BY <1>5, <2>1, <2>3, <2>4
  <2>6. Nth(rest, k) = i
    BY <1>3, <2>4, <2>5, NthIs
  <2> QED
    BY <1>1, <1>2, <1>7, <2>6 DEF i
<1>8. ASSUME NEW k \in 1 .. n, p < k
      PROVE  Nth(rest, k - 1) = Nth(places, k)
  <2> DEFINE i == Nth(places, k)
  <2>1. i \in places /\ Rank(places, i) = k
    BY <1>1, NthIs DEF n
  <2> HIDE DEF i
  <2>2. i \in Nat /\ q \in Nat /\ i # q
    BY <1>1, <1>2, <1>8, <2>1 DEF p
  <2>3. q < i
    <3> SUFFICES ASSUME i < q PROVE FALSE
      BY <2>2
    <3>1. Rank(places, i) < Rank(places, q)
      BY <1>1, <2>1, RankGrows
    <3> QED
      BY <1>2, <1>8, <2>1, <3>1 DEF p
  <2>4. i \in rest
    BY <2>1, <2>2 DEF rest
  <2>5. Rank(rest, i) = k - 1
    BY <1>6, <2>1, <2>3, <2>4
  <2>6. Nth(rest, k - 1) = i
    BY <1>3, <2>4, <2>5, NthIs
  <2> QED
    BY <2>6 DEF i
<1>9. /\ before \in Seq(S) /\ Len(before) = p - 1
      /\ \A k \in 1 .. p - 1 : before[k] = all[k]
  <2>1. 1 \in Int /\ p - 1 \in Int /\ (1 <= p - 1 \/ p - 1 = 0) /\ \A k \in 1 .. p - 1 : all[k] \in S
    BY <1>1, <1>2, ElementOfSeq
  <2>2. /\ SubSeq(all, 1, p - 1) \in Seq(S)
        /\ Len(SubSeq(all, 1, p - 1)) = IF 1 <= p - 1 THEN (p - 1) - 1 + 1 ELSE 0
        /\ \A k \in 1 .. (p - 1) - 1 + 1 : SubSeq(all, 1, p - 1)[k] = all[1 + k - 1]
    BY <2>1, SubSeqProperties
  <2> QED
    BY <1>2, <2>1, <2>2
<1>10. /\ behind \in Seq(S) /\ Len(behind) = n - p
       /\ \A k \in 1 .. n - p : behind[k] = all[p + k]
  <2>1. p + 1 \in Int /\ n \in Int /\ (p + 1 <= n \/ p = n) /\ \A k \in p + 1 .. n : all[k] \in S
    BY <1>1, <1>2, ElementOfSeq
  <2>2. /\ SubSeq(all, p + 1, n) \in Seq(S)
        /\ Len(SubSeq(all, p + 1, n)) = IF p + 1 <= n THEN n - (p + 1) + 1 ELSE 0
        /\ \A k \in 1 .. n - (p + 1) + 1 : SubSeq(all, p + 1, n)[k] = all[(p + 1) + k - 1]
    BY <2>1, SubSeqProperties
  <2> QED
    BY <1>1, <1>2, <2>1, <2>2
<1> DEFINE both == before \o behind
<1> HIDE DEF before, behind
<1>11. /\ both \in Seq(S) /\ Len(both) = n - 1
       /\ \A k \in 1 .. n - 1 : both[k] = IF k <= p - 1 THEN before[k] ELSE behind[k - (p - 1)]
  <2>1. /\ both \in Seq(S) /\ Len(both) = Len(before) + Len(behind)
        /\ \A k \in 1 .. Len(before) + Len(behind) :
             both[k] = IF k <= Len(before) THEN before[k] ELSE behind[k - Len(before)]
    BY <1>9, <1>10, ConcatProperties
  <2>2. (p - 1) + (n - p) = n - 1
    BY <1>1, <1>2
  <2> HIDE DEF both
  <2> QED
    BY <1>9, <1>10, <2>1, <2>2
<1> HIDE DEF both
<1>12. ASSUME NEW k \in 1 .. n - 1 PROVE both[k] = left[k]
  <2>1. CASE k < p
    <3>1. k \in 1 .. n /\ k \in 1 .. p - 1 /\ k <= p - 1
      BY <1>1, <1>2, <2>1
    <3> QED
      BY <1>1, <1>4, <1>7, <1>9, <1>11, <2>1, <3>1
  <2>2. CASE ~(k < p)
    <3>1. /\ k + 1 \in 1 .. n /\ p < k + 1 /\ (k + 1) - 1 = k /\ ~(k <= p - 1)
          /\ k - (p - 1) \in 1 .. n - p /\ p + (k - (p - 1)) = k + 1
      BY <1>1, <1>2, <2>2
    <3>2. both[k] = all[k + 1]
      BY <1>10, <1>11, <3>1
    <3>3. Nth(rest, k) = Nth(places, k + 1)
      BY <1>8, <3>1
    <3> QED
      BY <1>1, <1>4, <3>1, <3>2, <3>3
  <2> QED
    BY <2>1, <2>2
<1>13. both = left
  BY <1>1, <1>2, <1>4, <1>11, <1>12, SeqEqual
<1> QED
  BY <1>13 DEF both, before, behind, left, rest, all, p, RemoveAt

-----------------------------------------------------------------------------
(* The trimming of a conversation.                                            *)

\* The places that are left when the n oldest messages that may go are gone.
Staying(msgs, n) ==
  {i \in DOMAIN msgs : i \in Trimmable(msgs) => Rank(Trimmable(msgs), i) > n}

LEMMA WithoutIs ==
  ASSUME NEW S, NEW msgs \in Seq(S)
  PROVE  /\ Len(msgs) \in Nat /\ DOMAIN msgs = 1 .. Len(msgs)
         /\ Trimmable(msgs) \in SUBSET (1 .. Len(msgs)) /\ Trimmable(msgs) \in SUBSET Nat
         /\ IsFiniteSet(Trimmable(msgs)) /\ Cardinality(Trimmable(msgs)) \in 0 .. Len(msgs)
         /\ \A n : Without(msgs, n) = Those(msgs, Staying(msgs, n))
         /\ \A n : Staying(msgs, n) \in SUBSET (1 .. Len(msgs))
<1>1. Len(msgs) \in Nat /\ DOMAIN msgs = 1 .. Len(msgs)
  BY LenProperties
<1>2. Trimmable(msgs) \in SUBSET (1 .. Len(msgs)) /\ Trimmable(msgs) \in SUBSET Nat
  BY <1>1 DEF Trimmable
<1>3. IsFiniteSet(1 .. Len(msgs)) /\ Cardinality(1 .. Len(msgs)) = Len(msgs)
  BY <1>1, FS_Interval
<1>4. /\ IsFiniteSet(Trimmable(msgs)) /\ Cardinality(Trimmable(msgs)) <= Len(msgs)
      /\ Cardinality(Trimmable(msgs)) \in Nat
  BY <1>2, <1>3, FS_Subset, FS_CardinalityType
<1>5. ASSUME NEW n PROVE Without(msgs, n) = Those(msgs, Staying(msgs, n))
  BY DEF Without, Staying, Rank
<1>6. ASSUME NEW n PROVE Staying(msgs, n) \in SUBSET (1 .. Len(msgs))
  BY <1>1 DEF Staying
<1> QED
  BY <1>1, <1>2, <1>4, <1>5, <1>6

\* The message the loop removes next is the (n + 1)-th of those that may go.
LEMMA NextOldest ==
  ASSUME NEW S, NEW msgs \in Seq(S), NEW n \in Nat, n < Cardinality(Trimmable(msgs))
  PROVE  LET q == Nth(Trimmable(msgs), n + 1)
         IN  /\ q \in Staying(msgs, n)
             /\ Staying(msgs, n + 1) = Staying(msgs, n) \ {q}
             /\ Oldest(Without(msgs, n)) = {Rank(Staying(msgs, n), q)}
<1> DEFINE T == Trimmable(msgs)
           P == Staying(msgs, n)
           w == Without(msgs, n)
           q == Nth(T, n + 1)
           p == Rank(P, q)
<1>1. /\ Len(msgs) \in Nat /\ DOMAIN msgs = 1 .. Len(msgs)
      /\ T \in SUBSET (1 .. Len(msgs)) /\ T \in SUBSET Nat /\ IsFiniteSet(T)
      /\ Cardinality(T) \in Nat /\ P \in SUBSET (1 .. Len(msgs)) /\ w = Those(msgs, P)
  BY WithoutIs
<1>2. q \in T /\ Rank(T, q) = n + 1 /\ \A i \in T : Rank(T, i) = n + 1 => i = q
  <2>1. n + 1 \in 1 .. Cardinality(T)
    BY <1>1
  <2> HIDE DEF T
  <2> QED
    BY <1>1, <2>1, NthIs
<1> HIDE DEF q
<1>3. \A i \in T : Rank(T, i) \in Nat
  BY <1>1, RankGrows
<1>4. q \in P
  BY <1>1, <1>2 DEF Staying
<1>5. Staying(msgs, n + 1) = P \ {q}
  BY <1>1, <1>2, <1>3 DEF Staying
<1>6. /\ P \in SUBSET Nat /\ IsFiniteSet(P) /\ Cardinality(P) \in Nat
      /\ DOMAIN w = 1 .. Cardinality(P)
      /\ \A k \in 1 .. Cardinality(P) : w[k] = msgs[Nth(P, k)]
  <2> HIDE DEF P, w
  <2> QED
    BY <1>1, ThoseIs
<1>7. ASSUME NEW k \in DOMAIN w PROVE w[k].role # "system" <=> Nth(P, k) \in T
  <2>1. Nth(P, k) \in P
    <3> HIDE DEF P, w
    <3> QED
      BY <1>6, NthIs
  <2> QED
    BY <1>1, <1>6, <2>1 DEF Trimmable
<1>8. p \in 1 .. Cardinality(P) /\ Nth(P, p) = q
  <2> HIDE DEF P
  <2> QED
    BY <1>4, <1>6, RankGrows, NthIs
<1>9. ASSUME NEW k \in DOMAIN w, w[k].role # "system" PROVE p <= k
  <2> DEFINE i == Nth(P, k)
  <2>1. i \in P /\ Rank(P, i) = k
    <3> HIDE DEF P, w
    <3> QED
      BY <1>6, NthIs
  <2>2. i \in T
    BY <1>7, <1>9
  <2> HIDE DEF i
  <2>3. Rank(T, i) > n
    BY <1>1, <2>1, <2>2 DEF Staying
  <2>4. ~(i < q)
    <3> SUFFICES ASSUME i < q PROVE FALSE
      OBVIOUS
    <3>1. Rank(T, i) < Rank(T, q)
      BY <1>1, <1>2, <2>2, RankGrows
    <3> QED
      BY <1>2, <1>3, <2>2, <2>3, <3>1
  <2>5. q = i \/ q < i
    BY <1>1, <1>2, <2>2, <2>4
  <2>6. q < i => p < k
    <3> HIDE DEF P
    <3> QED
      BY <1>4, <1>6, <2>1, RankGrows
  <2> HIDE DEF P, w
  <2>7. q = i => p = k
    BY <2>1
  <2>8. k \in Nat /\ p \in Nat
    BY <1>6, <1>8
  <2> HIDE DEF p
  <2> QED
    BY <2>5, <2>6, <2>7, <2>8
<1>10. p \in DOMAIN w /\ w[p].role # "system"
  BY <1>2, <1>6, <1>7, <1>8
<1>11. ASSUME NEW k \in Oldest(w) PROVE k = p
  <2>1. k \in DOMAIN w /\ w[k].role # "system" /\ k <= p
    BY <1>10 DEF Oldest
  <2>2. p <= k
    BY <1>9, <2>1
  <2>3. k \in Nat /\ p \in Nat
    BY <1>6, <1>8, <2>1
  <2> HIDE DEF p
  <2> QED
    BY <2>1, <2>2, <2>3
<1>12. p \in Oldest(w)
  BY <1>9, <1>10 DEF Oldest
<1>13. Oldest(w) = {p}
  <2> HIDE DEF p, w
  <2> QED
    BY <1>11, <1>12
<1> QED
  BY <1>4, <1>5, <1>13 DEF q

\* Taking nothing away leaves the conversation as it is; when all that may go are
\* gone, there is no oldest one.
LEMMA FirstAndLastRound ==
  ASSUME NEW S, NEW msgs \in Seq(S)
  PROVE  /\ Without(msgs, 0) = msgs
         /\ Oldest(Without(msgs, Cardinality(Trimmable(msgs)))) = {}
<1> DEFINE T == Trimmable(msgs)
           N == Len(msgs)
<1>1. /\ N \in Nat /\ DOMAIN msgs = 1 .. N
      /\ T \in SUBSET (1 .. N) /\ T \in SUBSET Nat /\ IsFiniteSet(T)
      /\ Cardinality(T) \in Nat
  BY WithoutIs
<1>2. \A i \in T : Rank(T, i) \in 1 .. Cardinality(T)
  <2> HIDE DEF T
  <2> QED
    BY <1>1, RankGrows
<1>3. Without(msgs, 0) = msgs
  <2>1. Staying(msgs, 0) = 1 .. N
    BY <1>1, <1>2 DEF Staying
  <2>2. Without(msgs, 0) = Those(msgs, 1 .. N)
    BY <2>1, WithoutIs
  <2>3. IsFiniteSet(1 .. N) /\ Cardinality(1 .. N) = N
    <3> HIDE DEF N
    <3>1. Cardinality(1 .. N) = IF 1 > N THEN 0 ELSE N - 1 + 1
      BY <1>1, FS_Interval
    <3> QED
      BY <1>1, <3>1, FS_Interval
  <2>4. ASSUME NEW i \in 1 .. N PROVE Nth(1 .. N, i) = i
    <3>1. {j \in 1 .. N : j <= i} = 1 .. i /\ i \in Nat
      BY <1>1
    <3>2. Rank(1 .. N, i) = i
      <4>1. Cardinality(1 .. i) = IF 1 > i THEN 0 ELSE i - 1 + 1
        BY <3>1, FS_Interval
      <4>2. Cardinality(1 .. i) = i
        BY <3>1, <4>1
      <4> QED
        BY <3>1, <4>2 DEF Rank
    <3>3. 1 .. N \in SUBSET Nat
      BY <1>1
    <3>4. Nth(1 .. N, Rank(1 .. N, i)) = i
      BY <2>3, <3>3, NthIs
    <3> QED
      BY <3>2, <3>4
  <2> DEFINE w == Those(msgs, 1 .. N)
  <2>5. w \in Seq(S) /\ Len(w) = N /\ \A k \in 1 .. N : w[k] = msgs[Nth(1 .. N, k)]
    BY <2>3, ThoseIs
  <2>6. \A k \in 1 .. N : w[k] = msgs[k]
    BY <2>4, <2>5
  <2> HIDE DEF w
  <2>7. w = msgs
    BY <2>5, <2>6, SeqEqual
  <2> QED
    BY <2>2, <2>7 DEF w
<1>4. Oldest(Without(msgs, Cardinality(T))) = {}
  <2> DEFINE P == Staying(msgs, Cardinality(T))
             w == Those(msgs, P)
  <2>1. P \in SUBSET (1 .. N) /\ Without(msgs, Cardinality(T)) = w
    BY WithoutIs
  <2>2. \A i \in P : i \notin T
    BY <1>1, <1>2 DEF Staying
  <2> HIDE DEF P
  <2>3. /\ P \in SUBSET Nat /\ IsFiniteSet(P) /\ DOMAIN w = 1 .. Cardinality(P)
        /\ \A k \in 1 .. Cardinality(P) : w[k] = msgs[Nth(P, k)]
    BY <2>1, ThoseIs
  <2>4. ASSUME NEW k \in DOMAIN w PROVE w[k].role = "system"
    <3>1. Nth(P, k) \in P
      BY <2>3, NthIs
    <3>2. Nth(P, k) \in DOMAIN msgs /\ Nth(P, k) \notin T
      BY <1>1, <2>1, <2>2, <3>1
    <3> QED
      BY <2>3, <3>2 DEF Trimmable
  <2> HIDE DEF w
  <2> QED
    BY <2>1, <2>4 DEF Oldest
<1> QED
  BY <1>3, <1>4

\* A round takes what is left of n to what is left of n + 1, unless it is enough.
LEMMA RoundIs ==
  ASSUME NEW S, NEW msgs \in Seq(S), NEW maxTokens, NEW n \in 0 .. Cardinality(Trimmable(msgs))
  PROVE  Round(Without(msgs, n), maxTokens) =
           IF CountMessages(Without(msgs, n)) <= maxTokens \/ n = Cardinality(Trimmable(msgs))
           THEN Without(msgs, n) ELSE Without(msgs, n + 1)
<1> DEFINE w == Without(msgs, n)
           all == Cardinality(Trimmable(msgs))
           fits == CountMessages(w) <= maxTokens
           P == Staying(msgs, n)
           q == Nth(Trimmable(msgs), n + 1)
<1>1. CASE fits
  BY <1>1 DEF Round
<1>2. CASE n = all
  BY <1>2, FirstAndLastRound DEF Round
<1>3. CASE ~fits /\ n # all
  <2>1. n \in Nat /\ all \in Nat /\ n < all
    BY <1>3, WithoutIs
  <2>2. /\ q \in P /\ Staying(msgs, n + 1) = P \ {q}
        /\ Oldest(w) = {Rank(P, q)}
    BY <2>1, NextOldest
  <2>3. /\ P \in SUBSET (1 .. Len(msgs)) /\ w = Those(msgs, P)
        /\ Without(msgs, n + 1) = Those(msgs, Staying(msgs, n + 1))
    BY WithoutIs
  <2> DEFINE next == Without(msgs, n + 1)
             r == Rank(P, q)
  <2> HIDE DEF P, q
  <2>4. next = RemoveAt(Those(msgs, P), r)
    BY <2>2, <2>3, ThoseButOne
  <2>5. next = RemoveAt(w, r)
    BY <2>3, <2>4
  <2> HIDE DEF next, r, w
  <2>6. (CHOOSE i \in {r} : TRUE) = r
    OBVIOUS
  <2>7. Oldest(w) = {r}
    BY <2>2 DEF r
  <2>8. Round(w, maxTokens) = RemoveAt(w, CHOOSE i \in {r} : TRUE)
    BY <1>3, <2>7 DEF Round
  <2>9. Round(w, maxTokens) = next
    BY <2>5, <2>6, <2>8
  <2> QED
    BY <1>3, <2>9 DEF next, w
<1> QED
  BY <1>1, <1>2, <1>3

\* For every conversation and every budget, the loop drops the fewest, oldest
\* messages that are not the system's.
LEMMA TrimDropsTheFewest ==
  ASSUME NEW S, NEW msgs \in Seq(S), NEW maxTokens
  PROVE  DropsFewestOldest(msgs, maxTokens)
<1> DEFINE all == Cardinality(Trimmable(msgs))
           N == Len(msgs)
           w(n) == Without(msgs, n)
           enough == {n \in 0 .. all : CountMessages(Without(msgs, n)) <= maxTokens}
           fewest == CHOOSE n \in enough \cup {all} : \A k \in enough : n <= k
<1>1. N \in Nat /\ all \in 0 .. N /\ all \in Nat /\ w(0) = msgs
  BY WithoutIs, FirstAndLastRound
<1>2. /\ fewest \in enough \cup {all} /\ fewest \in 0 .. all
      /\ \A k \in enough : fewest <= k
  <2> HIDE DEF all
  <2>1. enough \subseteq 0 .. all
    OBVIOUS
  <2> DEFINE some == enough \cup {all}
  <2> HIDE DEF enough
  <2>2. some \in SUBSET Nat /\ some # {} /\ some \subseteq 0 .. all /\ enough \subseteq some
    BY <1>1, <2>1
  <2>3. \E m \in some : \A k \in some : m <= k
    BY <2>2, LeastOf
  <2>4. \E m \in some : \A k \in enough : m <= k
    BY <2>2, <2>3
  <2>5. fewest \in some /\ \A k \in enough : fewest <= k
    BY <2>4
  <2> QED
    BY <2>2, <2>5
<1> DEFINE F == fewest
<1>3. F \in Nat /\ F <= N /\ F <= all
  <2> HIDE DEF fewest, all, N
  <2> QED
    BY <1>1, <1>2
<1>4. \A n \in 0 .. F - 1 : Round(w(n), maxTokens) = w(n + 1)
  <2> SUFFICES ASSUME NEW n \in 0 .. F - 1 PROVE Round(w(n), maxTokens) = w(n + 1)
    OBVIOUS
  <2>1. n \in 0 .. all /\ n # all /\ ~(F <= n)
    <3> HIDE DEF fewest, all
    <3> QED
      BY <1>1, <1>3
  <2>2. n \notin enough
    <3> HIDE DEF fewest, enough
    <3> QED
      BY <1>2, <2>1
  <2>3. ~(CountMessages(w(n)) <= maxTokens)
    BY <2>1, <2>2
  <2> QED
    BY <2>1, <2>3, RoundIs
<1>5. Round(w(F), maxTokens) = w(F)
  <2>1. F \in enough \/ F = all
    <3> HIDE DEF fewest, enough, all
    <3> QED
      BY <1>2
  <2>2. F \in enough => CountMessages(w(F)) <= maxTokens
    <3> HIDE DEF fewest, all
    <3> QED
      OBVIOUS
  <2> HIDE DEF fewest
  <2> QED
    BY <1>2, <2>1, <2>2, RoundIs
<1> HIDE DEF fewest, w, all
\* The rounds of the loop, in closed form; and they are its only ones.
<1> DEFINE g == [n \in 0 .. N |-> IF n <= F THEN w(n) ELSE w(F)]
           IsAfter(f) == f = [n \in 0 .. N |-> IF n = 0 THEN msgs ELSE Round(f[n - 1], maxTokens)]
           after == CHOOSE f : IsAfter(f)
<1> HIDE DEF N
<1>6. ASSUME NEW n \in 0 .. N
      PROVE  g[n] = IF n = 0 THEN msgs ELSE Round(g[n - 1], maxTokens)
  <2>1. CASE n = 0
    BY <1>1, <1>3, <2>1
  <2>2. CASE n \in 1 .. F
    <3>1. n - 1 \in 0 .. F - 1 /\ (n - 1) + 1 = n /\ n # 0
      BY <1>3, <2>2
    <3>2. g[n] = w(n) /\ g[n - 1] = w(n - 1)
      BY <1>1, <1>3, <2>2
    <3>3. Round(w(n - 1), maxTokens) = w((n - 1) + 1)
      BY <1>4, <3>1
    <3> QED
      BY <3>1, <3>2, <3>3
  <2>3. CASE n \in F + 1 .. N
    <3>1. n # 0 /\ n - 1 \in 0 .. N /\ ~(n <= F) /\ (n - 1 <= F => n - 1 = F)
      BY <1>1, <1>3, <2>3
    <3>2. g[n] = w(F) /\ g[n - 1] = w(F)
      BY <1>1, <1>3, <3>1
    <3> QED
      BY <1>5, <3>1, <3>2
  <2>4. n = 0 \/ n \in 1 .. F \/ n \in F + 1 .. N
    BY <1>1, <1>3
  <2> HIDE DEF g
  <2> QED
    BY <2>1, <2>2, <2>3, <2>4
<1>7. IsAfter(g)
  BY <1>6
<1>8. IsAfter(after)
  <2> HIDE DEF IsAfter, g
  <2> QED
    BY <1>7
<1>9. \A n \in 0 .. N : after[n] = g[n]
  <2> HIDE DEF g, after
  <2> DEFINE T == {n \in Nat : after[n] = g[n]}
  <2>1. 0 \in T
    <3>1. 0 \in 0 .. N
      BY <1>1
    <3> QED
      BY <1>6, <1>8, <3>1
  <2>2. ASSUME NEW n \in 0 .. N - 1, n \in T PROVE n + 1 \in T
    <3>1. n + 1 \in 0 .. N /\ n + 1 # 0 /\ (n + 1) - 1 = n /\ n + 1 \in Nat
      BY <1>1
    <3>2. after[n + 1] = Round(after[n], maxTokens)
      BY <1>8, <3>1
    <3>3. g[n + 1] = Round(g[n], maxTokens)
      BY <1>6, <3>1
    <3> QED
      BY <2>2, <3>1, <3>2, <3>3
  <2>3. \A n \in 0 .. N : n \in T
    <3> HIDE DEF T
    <3> QED
      BY <1>1, <2>1, <2>2, BoundedInduction
  <2> QED
    BY <2>3
<1>10. TrimToBudget(msgs, maxTokens) = after[N]
  BY DEF TrimToBudget, N
<1>11. g[N] = w(F)
  BY <1>1, <1>3
<1>12. TrimToBudget(msgs, maxTokens) = w(F)
  <2> HIDE DEF g, after
  <2> QED
    BY <1>1, <1>9, <1>10, <1>11
<1>13. TrimToBudget(msgs, maxTokens) = Without(msgs, fewest)
  BY <1>12 DEF w
<1> QED
  BY <1>13 DEF DropsFewestOldest, fewest, all

-----------------------------------------------------------------------------
(* Reading a sequence from left to right, word by word.                       *)

\* f is what a reader's state is after each word, when it starts in base.
Follows(f, text, base, step) ==
  /\ f[0] = base
  /\ \A n \in 0 .. Len(text) - 1 : f[n + 1] = step[<<f[n], text[n + 1]>>]

\* The reader has the states S and reads the words W.
Reads(S, W, base, step) == base \in S /\ step \in [S \X W -> S]

FoldOf(text, base, step) == (CHOOSE f : Follows(f, text, base, step))[Len(text)]

LEMMA FoldExists ==
  ASSUME NEW S, NEW W, NEW base, NEW step, Reads(S, W, base, step), NEW text \in Seq(W)
  PROVE  /\ \E f \in [0 .. Len(text) -> S] : Follows(f, text, base, step)
         /\ \A g : Follows(g, text, base, step) => g[Len(text)] = FoldOf(text, base, step)
         /\ FoldOf(text, base, step) \in S
<1> DEFINE N == Len(text)
           next == [p \in Nat \X S |-> IF p[1] \in 1 .. N THEN step[<<p[2], text[p[1]]>>] ELSE p[2]]
           first == CHOOSE f : Follows(f, text, base, step)
<1>1. /\ N \in Nat /\ \A n \in 1 .. N : text[n] \in W
      /\ base \in S /\ step \in [S \X W -> S]
  BY LenProperties, ElementOfSeq DEF Reads
<1>2. next \in [Nat \X S -> S]
  <2> SUFFICES ASSUME NEW p \in Nat \X S
               PROVE  (IF p[1] \in 1 .. N THEN step[<<p[2], text[p[1]]>>] ELSE p[2]) \in S
    OBVIOUS
  <2>1. p[1] \in 1 .. N => <<p[2], text[p[1]]>> \in S \X W
    BY <1>1
  <2> QED
    BY <1>1, <2>1
<1>3. PICK f \in [0 .. N -> S] : Recurs(f, N, base, next)
  <2> HIDE DEF next, N
  <2> QED
    BY <1>1, <1>2, RecursionExists
<1>4. Follows(f, text, base, step)
  <2>1. f[0] = base
    BY <1>1, <1>3 DEF Recurs
  <2>2. ASSUME NEW n \in 0 .. N - 1 PROVE f[n + 1] = step[<<f[n], text[n + 1]>>]
    <3>1. n + 1 \in 0 .. N /\ n + 1 \in 1 .. N /\ n + 1 # 0 /\ (n + 1) - 1 = n /\ n \in 0 .. N
      BY <1>1
    <3>2. f[n + 1] = next[<<n + 1, f[n]>>]
      <4> HIDE DEF next, N
      <4> QED
        BY <1>3, <3>1 DEF Recurs
    <3>3. <<n + 1, f[n]>> \in Nat \X S
      BY <1>3, <3>1
    <3> QED
      BY <3>1, <3>2, <3>3
  <2> QED
    BY <2>1, <2>2 DEF Follows
<1>5. ASSUME NEW g, NEW h, Follows(g, text, base, step), Follows(h, text, base, step)
      PROVE  g[N] = h[N]
  <2> DEFINE T == {n \in Nat : g[n] = h[n]}
  <2>1. 0 \in T
    BY <1>5 DEF Follows
  <2>2. ASSUME NEW n \in 0 .. N - 1, n \in T PROVE n + 1 \in T
    <3>1. g[n + 1] = step[<<g[n], text[n + 1]>>] /\ h[n + 1] = step[<<h[n], text[n + 1]>>]
      BY <1>5 DEF Follows
    <3>2. n + 1 \in Nat
      BY <1>1
    <3> QED
      BY <2>2, <3>1, <3>2
  <2>3. \A n \in 0 .. N : n \in T
    <3> HIDE DEF T, N
    <3> QED
      BY <1>1, <2>1, <2>2, BoundedInduction
  <2> QED
    BY <1>1, <2>3
<1>6. Follows(first, text, base, step)
  <2> HIDE DEF N, next
  <2> QED
    BY <1>4
<1>7. FoldOf(text, base, step) = first[N]
  BY DEF FoldOf
<1>8. \A g : Follows(g, text, base, step) => g[N] = FoldOf(text, base, step)
  <2> HIDE DEF first, N
  <2> QED
    BY <1>5, <1>6, <1>7
<1>9. FoldOf(text, base, step) \in S
  <2> HIDE DEF first, next
  <2>1. f[N] \in S /\ f[N] = FoldOf(text, base, step)
    BY <1>1, <1>3, <1>4, <1>8
  <2> QED
    BY <2>1
<1> HIDE DEF N
<1>10. \E e \in [0 .. N -> S] : Follows(e, text, base, step)
  BY <1>3, <1>4
<1> QED
  BY <1>8, <1>9, <1>10 DEF N

\* What a reader's state is before the first word, and how a word changes it.
LEMMA FoldSteps ==
  ASSUME NEW S, NEW W, NEW base, NEW step, Reads(S, W, base, step)
  PROVE  /\ FoldOf(<<>>, base, step) = base
         /\ \A text \in Seq(W), w \in W :
              FoldOf(Append(text, w), base, step) = step[<<FoldOf(text, base, step), w>>]
<1>1. FoldOf(<<>>, base, step) = base
  <2>1. ASSUME NEW text \in Seq(W), Len(text) = 0 PROVE FoldOf(text, base, step) = base
    <3>1. PICK f : Follows(f, text, base, step) /\ f[Len(text)] = FoldOf(text, base, step)
      BY FoldExists
    <3> QED
      BY <2>1, <3>1 DEF Follows
  <2> QED
    BY <2>1, EmptySeq
<1>2. ASSUME NEW text \in Seq(W), NEW w \in W
      PROVE  FoldOf(Append(text, w), base, step) = step[<<FoldOf(text, base, step), w>>]
  <2> DEFINE N == Len(text)
             more == Append(text, w)
  <2>1. /\ N \in Nat /\ more \in Seq(W) /\ Len(more) = N + 1
        /\ \A n \in 1 .. N : more[n] = text[n]
        /\ more[N + 1] = w
    BY LenProperties, AppendProperties
  <2> HIDE DEF more
  <2>2. PICK f : Follows(f, more, base, step) /\ f[Len(more)] = FoldOf(more, base, step)
    BY <2>1, FoldExists
  <2>3. Follows(f, text, base, step)
    <3>1. f[0] = base
      BY <2>2 DEF Follows
    <3>2. ASSUME NEW n \in 0 .. N - 1 PROVE f[n + 1] = step[<<f[n], text[n + 1]>>]
      <4>1. n \in 0 .. Len(more) - 1 /\ n + 1 \in 1 .. N
        BY <2>1
      <4> QED
        BY <2>1, <2>2, <4>1 DEF Follows
    <3> QED
      BY <3>1, <3>2 DEF Follows
  <2>4. f[N] = FoldOf(text, base, step)
    BY <2>3, FoldExists
  <2>5. f[N + 1] = step[<<f[N], w>>]
    <3>1. N \in 0 .. Len(more) - 1
      BY <2>1
    <3> QED
      BY <2>1, <2>2, <3>1 DEF Follows
  <2> QED
    BY <2>1, <2>2, <2>4, <2>5 DEF more
<1> QED
  BY <1>1, <1>2

\* What holds of the empty text, and of a text with a word more, holds of all.
LEMMA TextInduction ==
  ASSUME NEW W, NEW T, <<>> \in T,
         \A text \in Seq(W), w \in W : text \in T => Append(text, w) \in T
  PROVE  \A text \in Seq(W) : text \in T
<1> DEFINE U == {n \in Nat : \A text \in Seq(W) : Len(text) = n => text \in T}
<1>1. 0 \in U
  BY EmptySeq
<1>2. ASSUME NEW n \in Nat, n \in U PROVE n + 1 \in U
  <2> SUFFICES ASSUME NEW text \in Seq(W), Len(text) = n + 1 PROVE text \in T
    OBVIOUS
  <2>1. text # <<>>
    BY EmptySeq
  <2>2. PICK front \in Seq(W), w \in W : text = Append(front, w)
    BY <2>1, SequenceEmptyOrAppend
  <2>3. Len(front) \in Nat /\ Len(text) = Len(front) + 1
    BY <2>2, AppendProperties, LenProperties
  <2>4. Len(front) = n
    BY <2>3
  <2> QED
    BY <1>2, <2>2, <2>4
<1>3. \A n \in Nat : n \in U
  <2> HIDE DEF U
  <2> QED
    BY <1>1, <1>2, SetInduction
<1> QED
  BY <1>3, LenProperties

\* A recursive function over the places of a text that changes its value as the
\* reader does is the reader; and there is one.
LEMMA FoldRows ==
  ASSUME NEW S, NEW W, NEW base, NEW step, Reads(S, W, base, step), NEW text \in Seq(W)
  PROVE  /\ \E f : /\ f = [n \in 0 .. Len(text) |-> f[n]]
                  /\ f[0] = base
                  /\ \A n \in 1 .. Len(text) : /\ f[n - 1] \in S /\ text[n] \in W
                                                /\ f[n] = step[<<f[n - 1], text[n]>>]
         /\ \A g : /\ g[0] = base
                   /\ \A n \in 1 .. Len(text) :
                        g[n - 1] \in S /\ text[n] \in W => g[n] = step[<<g[n - 1], text[n]>>]
                  => g[Len(text)] = FoldOf(text, base, step)
<1> DEFINE N == Len(text)
<1>1. N \in Nat /\ \A n \in 1 .. N : text[n] \in W
  BY LenProperties, ElementOfSeq
<1>2. PICK f \in [0 .. N -> S] : Follows(f, text, base, step)
  BY FoldExists
<1>3. f[0] = base
  BY <1>2 DEF Follows
<1>4. ASSUME NEW n \in 1 .. N
      PROVE  /\ f[n - 1] \in S /\ text[n] \in W
             /\ f[n] = step[<<f[n - 1], text[n]>>]
  <2>1. n - 1 \in 0 .. N - 1 /\ (n - 1) + 1 = n /\ n - 1 \in 0 .. N
    BY <1>1
  <2>2. f[n] = step[<<f[n - 1], text[n]>>]
    BY <1>2, <2>1 DEF Follows
  <2> QED
    BY <1>1, <1>2, <2>1, <2>2
<1>5. ASSUME NEW g, g[0] = base,
             \A n \in 1 .. N :
               g[n - 1] \in S /\ text[n] \in W => g[n] = step[<<g[n - 1], text[n]>>]
      PROVE  g[N] = FoldOf(text, base, step)
  <2> DEFINE T == {n \in Nat : g[n] = f[n]}
  <2>1. 0 \in T
    BY <1>3, <1>5
  <2>2. ASSUME NEW n \in 0 .. N - 1, n \in T PROVE n + 1 \in T
    <3>1. n + 1 \in 1 .. N /\ (n + 1) - 1 = n /\ n + 1 \in Nat
      BY <1>1
    <3>2. f[n] \in S /\ text[n + 1] \in W /\ f[n + 1] = step[<<f[n], text[n + 1]>>]
      BY <1>4, <3>1
    <3>3. g[n + 1] = step[<<f[n], text[n + 1]>>]
      BY <1>5, <2>2, <3>1, <3>2
    <3> QED
      BY <3>1, <3>2, <3>3
  <2>3. \A n \in 0 .. N : n \in T
    <3> HIDE DEF T, N
    <3> QED
      BY <1>1, <2>1, <2>2, BoundedInduction
  <2>4. g[N] = f[N]
    BY <1>1, <2>3
  <2> QED
    BY <1>2, <2>4, FoldExists
<1>6. f = [n \in 0 .. N |-> f[n]]
  BY <1>2
<1> HIDE DEF N
<1> QED
  BY <1>3, <1>4, <1>5, <1>6 DEF N

-----------------------------------------------------------------------------
(* The structural hash.                                                       *)

\* The marks of the three languages.
LEMMA MarksOf ==
  /\ Blocks("go") = << <<"/*", "*/">> >> /\ Len(Blocks("go")) = 1
  /\ Blocks("python") = << <<"dq3", "dq3">>, <<"sq3", "sq3">> >> /\ Len(Blocks("python")) = 2
  /\ Blocks("other") = <<>> /\ Len(Blocks("other")) = 0
  /\ LineMark("go") = "//" /\ LineMark("python") = "#" /\ LineMark("other") = "none"
  /\ \A w : Opens("go", w) <=> w = "/*"
  /\ \A w : Opens("python", w) <=> w \in {"dq3", "sq3"}
  /\ \A w : ~Opens("other", w)
  /\ ClosedBy("go", "/*") = "*/"
  /\ ClosedBy("python", "dq3") = "dq3" /\ ClosedBy("python", "sq3") = "sq3"
<1>1. /\ Blocks("go") = << <<"/*", "*/">> >> /\ Len(Blocks("go")) = 1
      /\ DOMAIN Blocks("go") = {1} /\ Blocks("go")[1][1] = "/*" /\ Blocks("go")[1][2] = "*/"
  BY DEF Blocks
<1>2. /\ Blocks("python") = << <<"dq3", "dq3">>, <<"sq3", "sq3">> >> /\ Len(Blocks("python")) = 2
      /\ DOMAIN Blocks("python") = {1, 2}
      /\ Blocks("python")[1][1] = "dq3" /\ Blocks("python")[1][2] = "dq3"
      /\ Blocks("python")[2][1] = "sq3" /\ Blocks("python")[2][2] = "sq3"
  BY DEF Blocks
<1>3. Blocks("other") = <<>> /\ Len(Blocks("other")) = 0 /\ DOMAIN Blocks("other") = {}
  BY DEF Blocks
<1>4. LineMark("go") = "//" /\ LineMark("python") = "#" /\ LineMark("other") = "none"
  BY DEF LineMark
<1>5. \A w : Opens("go", w) <=> w = "/*"
  BY <1>1 DEF Opens
<1>6. \A w : Opens("python", w) <=> w \in {"dq3", "sq3"}
  BY <1>2 DEF Opens
<1>7. \A w : ~Opens("other", w)
  BY <1>3 DEF Opens
<1>8. ClosedBy("go", "/*") = "*/"
  <2>1. (CHOOSE k \in DOMAIN Blocks("go") : Blocks("go")[k][1] = "/*") = 1
    BY <1>1
  <2> QED
    BY <1>1, <2>1 DEF ClosedBy
<1>9. ClosedBy("python", "dq3") = "dq3"
  <2>1. (CHOOSE k \in DOMAIN Blocks("python") : Blocks("python")[k][1] = "dq3") = 1
    BY <1>2
  <2> QED
    BY <1>2, <2>1 DEF ClosedBy
<1>10. ClosedBy("python", "sq3") = "sq3"
  <2>1. (CHOOSE k \in DOMAIN Blocks("python") : Blocks("python")[k][1] = "sq3") = 2
    BY <1>2
  <2> QED
    BY <1>2, <2>1 DEF ClosedBy
<1> QED
  BY <1>1, <1>2, <1>3, <1>4, <1>5, <1>6, <1>7, <1>8, <1>9, <1>10

\* One pass over a text, word by word.
StripStates(W) == [kept : Seq(W), held : Seq(W)]
StripBase == [kept |-> <<>>, held |-> <<>>]
Stripper(W, marks) == [p \in StripStates(W) \X W |-> StripWord(p[1], p[2], marks)]

LEMMA StripTyped ==
  ASSUME NEW W, NEW marks
  PROVE  /\ Reads(StripStates(W), W, StripBase, Stripper(W, marks))
         /\ \A s \in StripStates(W), w \in W : Stripper(W, marks)[<<s, w>>] = StripWord(s, w, marks)
<1>1. StripBase \in StripStates(W)
  BY EmptySeq DEF StripBase, StripStates
<1>2. ASSUME NEW s \in StripStates(W), NEW w \in W PROVE StripWord(s, w, marks) \in StripStates(W)
  <2>1. s.kept \in Seq(W) /\ s.held \in Seq(W) /\ <<>> \in Seq(W)
    BY EmptySeq DEF StripStates
  <2>2. Append(s.kept, w) \in Seq(W) /\ Append(s.held, w) \in Seq(W)
    BY <2>1, AppendProperties
  <2>3. /\ [s EXCEPT !.kept = Append(@, w)] \in StripStates(W)
        /\ [s EXCEPT !.held = <<>>] \in StripStates(W)
        /\ [s EXCEPT !.held = Append(@, w)] \in StripStates(W)
    BY <2>1, <2>2 DEF StripStates
  <2> QED
    BY <2>3 DEF StripWord
<1>3. Stripper(W, marks) \in [StripStates(W) \X W -> StripStates(W)]
  BY <1>2 DEF Stripper
<1>4. \A s \in StripStates(W), w \in W : Stripper(W, marks)[<<s, w>>] = StripWord(s, w, marks)
  BY DEF Stripper
<1> QED
  BY <1>1, <1>3, <1>4 DEF Reads

LEMMA StrippingIs ==
  ASSUME NEW W, NEW marks, NEW text \in Seq(W)
  PROVE  Stripping(text, marks) = FoldOf(text, StripBase, Stripper(W, marks))
<1> DEFINE N == Len(text)
           S == StripStates(W)
           base == StripBase
           step == Stripper(W, marks)
           IsAfter(f) == f = [n \in 0 .. N |-> IF n = 0 THEN base ELSE StripWord(f[n - 1], text[n], marks)]
           after == CHOOSE f : IsAfter(f)
<1>1. N \in Nat
  BY LenProperties
<1>2. Reads(S, W, base, step) /\ \A s \in S, w \in W : step[<<s, w>>] = StripWord(s, w, marks)
  BY StripTyped
<1> HIDE DEF S, base, step
<1>3. PICK f : /\ f = [n \in 0 .. N |-> f[n]]
               /\ f[0] = base
               /\ \A n \in 1 .. N : /\ f[n - 1] \in S /\ text[n] \in W
                                     /\ f[n] = step[<<f[n - 1], text[n]>>]
  BY <1>2, FoldRows
<1>4. ASSUME NEW n \in 0 .. N PROVE f[n] = IF n = 0 THEN base ELSE StripWord(f[n - 1], text[n], marks)
  <2>1. n # 0 => n \in 1 .. N
    BY <1>1
  <2> QED
    BY <1>2, <1>3, <2>1
<1>5. IsAfter(f)
  BY <1>3, <1>4
<1>6. IsAfter(after)
  <2> HIDE DEF IsAfter
  <2> QED
    BY <1>5
<1>7. after[0] = base
  <2> HIDE DEF after
  <2> QED
    BY <1>1, <1>6
<1>8. \A n \in 1 .. N : after[n] = StripWord(after[n - 1], text[n], marks)
  <2>1. \A n \in 1 .. N : n \in 0 .. N /\ n # 0
    BY <1>1
  <2> HIDE DEF after
  <2> QED
    BY <1>6, <2>1
<1>9. Stripping(text, marks) = after[N]
  BY DEF Stripping, StripBase, base
<1> HIDE DEF after
<1>10. after[N] = FoldOf(text, base, step)
  BY <1>2, <1>7, <1>8, FoldRows
<1> QED
  BY <1>9, <1>10 DEF base, step

LEMMA StrippingSteps ==
  ASSUME NEW W, NEW marks
  PROVE  /\ Stripping(<<>>, marks) = StripBase
         /\ \A text \in Seq(W) : Stripping(text, marks) \in StripStates(W)
         /\ \A text \in Seq(W), w \in W :
              Stripping(Append(text, w), marks) = StripWord(Stripping(text, marks), w, marks)
<1> DEFINE S == StripStates(W)
           step == Stripper(W, marks)
<1>1. Reads(S, W, StripBase, step) /\ \A s \in S, w \in W : step[<<s, w>>] = StripWord(s, w, marks)
  BY StripTyped
<1>2. \A text \in Seq(W) : Stripping(text, marks) = FoldOf(text, StripBase, step)
  BY StrippingIs
<1> HIDE DEF S, step
<1>3. FoldOf(<<>>, StripBase, step) = StripBase
  BY <1>1, FoldSteps
<1>4. \A text \in Seq(W) : FoldOf(text, StripBase, step) \in S
  BY <1>1, FoldExists
<1>5. \A text \in Seq(W), w \in W :
        FoldOf(Append(text, w), StripBase, step) = step[<<FoldOf(text, StripBase, step), w>>]
  BY <1>1, FoldSteps
<1>6. Stripping(<<>>, marks) = StripBase
  BY <1>2, <1>3, EmptySeq
<1>7. \A text \in Seq(W) : Stripping(text, marks) \in S
  BY <1>2, <1>4
<1>8. ASSUME NEW text \in Seq(W), NEW w \in W
      PROVE  Stripping(Append(text, w), marks) = StripWord(Stripping(text, marks), w, marks)
  <2>1. Append(text, w) \in Seq(W)
    BY AppendProperties
  <2> QED
    BY <1>1, <1>2, <1>5, <1>7, <2>1
<1> QED
  BY <1>6, <1>7, <1>8 DEF S

\* The lines of a text.
LineStates(W) == Seq(Seq(W)) \ {<<>>}
LineBase == << <<>> >>
LineReader(W) == [p \in LineStates(W) \X W |-> AddWord(p[1], p[2])]

LEMMA LastLine ==
  ASSUME NEW W, NEW lines \in LineStates(W)
  PROVE  /\ Len(lines) \in Nat /\ Len(lines) \in 1 .. Len(lines)
         /\ \A n \in 1 .. Len(lines) : lines[n] \in Seq(W)
<1>1. lines \in Seq(Seq(W)) /\ lines # <<>>
  BY DEF LineStates
<1>2. Len(lines) \in Nat \ {0}
  BY <1>1, EmptySeq
<1>3. \A n \in 1 .. Len(lines) : lines[n] \in Seq(W)
  BY <1>1, ElementOfSeq
<1> QED
  BY <1>2, <1>3

\* What a line more, or a word more on the last line, makes of the lines.
LEMMA AddedLine ==
  ASSUME NEW W, NEW lines \in LineStates(W)
  PROVE  LET more == Append(lines, <<>>)
         IN  /\ more \in LineStates(W) /\ Len(more) = Len(lines) + 1
             /\ \A n \in 1 .. Len(lines) : more[n] = lines[n]
             /\ more[Len(lines) + 1] = <<>>
<1>1. lines \in Seq(Seq(W)) /\ <<>> \in Seq(W)
  BY EmptySeq DEF LineStates
<1> QED
  BY <1>1, AppendProperties DEF LineStates

Longer(lines, w) == [lines EXCEPT ![Len(lines)] = Append(@, w)]

LEMMA LongerLine ==
  ASSUME NEW W, NEW lines \in LineStates(W), NEW w \in W
  PROVE  LET more == Longer(lines, w)
         IN  /\ more \in LineStates(W) /\ Len(more) = Len(lines)
             /\ \A n \in 1 .. Len(lines) - 1 : more[n] = lines[n]
             /\ more[Len(lines)] = Append(lines[Len(lines)], w)
<1> DEFINE N == Len(lines)
           longer == Append(lines[N], w)
           more == [lines EXCEPT ![N] = longer]
<1>1. lines \in Seq(Seq(W)) /\ N \in Nat /\ N \in 1 .. N /\ lines[N] \in Seq(W)
  BY LastLine DEF LineStates
<1>2. longer \in Seq(W)
  BY <1>1, AppendProperties
<1> HIDE DEF longer
<1>3. /\ more \in Seq(Seq(W)) /\ Len(more) = N
      /\ \A n \in 1 .. N : more[n] = IF n = N THEN longer ELSE lines[n]
  BY <1>1, <1>2, ExceptSeq
<1> HIDE DEF more, N
<1>4. more # <<>>
  <2>1. Len(more) # 0
    BY <1>1, <1>3
  <2> QED
    BY <2>1, EmptySeq
<1>5. \A n \in 1 .. N - 1 : more[n] = lines[n]
  BY <1>1, <1>3
<1>6. more[N] = longer
  BY <1>1, <1>3
<1>7. more \in LineStates(W)
  BY <1>3, <1>4 DEF LineStates
<1> QED
  BY <1>3, <1>5, <1>6, <1>7 DEF Longer, longer, more, N

LEMMA LinesTyped ==
  ASSUME NEW W
  PROVE  /\ Reads(LineStates(W), W, LineBase, LineReader(W))
         /\ \A s \in LineStates(W), w \in W : LineReader(W)[<<s, w>>] = AddWord(s, w)
<1>1. LineBase \in LineStates(W)
  <2>1. <<>> \in Seq(W)
    BY EmptySeq
  <2>2. << <<>> >> \in Seq(Seq(W)) /\ << <<>> >> # <<>>
    BY <2>1
  <2> QED
    BY <2>2 DEF LineBase, LineStates
<1>2. ASSUME NEW s \in LineStates(W), NEW w \in W PROVE AddWord(s, w) \in LineStates(W)
  BY AddedLine, LongerLine DEF AddWord, Longer
<1>3. LineReader(W) \in [LineStates(W) \X W -> LineStates(W)]
  BY <1>2 DEF LineReader
<1>4. \A s \in LineStates(W), w \in W : LineReader(W)[<<s, w>>] = AddWord(s, w)
  BY DEF LineReader
<1> QED
  BY <1>1, <1>3, <1>4 DEF Reads

LEMMA LinesIs ==
  ASSUME NEW W, NEW text \in Seq(W)
  PROVE  Lines(text) = FoldOf(text, LineBase, LineReader(W))
<1> DEFINE N == Len(text)
           S == LineStates(W)
           base == LineBase
           step == LineReader(W)
           IsAfter(f) == f = [n \in 0 .. N |-> IF n = 0 THEN base ELSE AddWord(f[n - 1], text[n])]
           after == CHOOSE f : IsAfter(f)
<1>1. N \in Nat
  BY LenProperties
<1>2. Reads(S, W, base, step) /\ \A s \in S, w \in W : step[<<s, w>>] = AddWord(s, w)
  BY LinesTyped
<1> HIDE DEF S, base, step
<1>3. PICK f : /\ f = [n \in 0 .. N |-> f[n]]
               /\ f[0] = base
               /\ \A n \in 1 .. N : /\ f[n - 1] \in S /\ text[n] \in W
                                     /\ f[n] = step[<<f[n - 1], text[n]>>]
  BY <1>2, FoldRows
<1>4. ASSUME NEW n \in 0 .. N PROVE f[n] = IF n = 0 THEN base ELSE AddWord(f[n - 1], text[n])
  <2>1. n # 0 => n \in 1 .. N
    BY <1>1
  <2> QED
    BY <1>2, <1>3, <2>1
<1>5. IsAfter(f)
  BY <1>3, <1>4
<1>6. IsAfter(after)
  <2> HIDE DEF IsAfter
  <2> QED
    BY <1>5
<1>7. after[0] = base
  <2> HIDE DEF after
  <2> QED
    BY <1>1, <1>6
<1>8. \A n \in 1 .. N : after[n] = AddWord(after[n - 1], text[n])
  <2>1. \A n \in 1 .. N : n \in 0 .. N /\ n # 0
    BY <1>1
  <2> HIDE DEF after
  <2> QED
    BY <1>6, <2>1
<1>9. Lines(text) = after[N]
  BY DEF Lines, LineBase, base
<1> HIDE DEF after
<1>10. after[N] = FoldOf(text, base, step)
  BY <1>2, <1>7, <1>8, FoldRows
<1> QED
  BY <1>9, <1>10 DEF base, step

LEMMA LinesSteps ==
  ASSUME NEW W
  PROVE  /\ Lines(<<>>) = LineBase
         /\ \A text \in Seq(W) : Lines(text) \in LineStates(W)
         /\ \A text \in Seq(W), w \in W :
              Lines(Append(text, w)) = AddWord(Lines(text), w)
<1> DEFINE S == LineStates(W)
           step == LineReader(W)
<1>1. Reads(S, W, LineBase, step) /\ \A s \in S, w \in W : step[<<s, w>>] = AddWord(s, w)
  BY LinesTyped
<1>2. \A text \in Seq(W) : Lines(text) = FoldOf(text, LineBase, step)
  BY LinesIs
<1> HIDE DEF S, step
<1>3. FoldOf(<<>>, LineBase, step) = LineBase
  BY <1>1, FoldSteps
<1>4. \A text \in Seq(W) : FoldOf(text, LineBase, step) \in S
  BY <1>1, FoldExists
<1>5. \A text \in Seq(W), w \in W :
        FoldOf(Append(text, w), LineBase, step) = step[<<FoldOf(text, LineBase, step), w>>]
  BY <1>1, FoldSteps
<1>6. Lines(<<>>) = LineBase
  BY <1>2, <1>3, EmptySeq
<1>7. \A text \in Seq(W) : Lines(text) \in S
  BY <1>2, <1>4
<1>8. ASSUME NEW text \in Seq(W), NEW w \in W
      PROVE  Lines(Append(text, w)) = AddWord(Lines(text), w)
  <2>1. Append(text, w) \in Seq(W)
    BY AppendProperties
  <2> QED
    BY <1>1, <1>2, <1>5, <1>7, <2>1
<1> QED
  BY <1>6, <1>7, <1>8 DEF S

\* The reader of code.
Modes == {"code", "line", "quote", "*/", "dq3", "sq3"}
ReadStates(W) == [mode : Modes, lines : LineStates(W), plain : BOOLEAN]
ReadBase == [mode |-> "code", lines |-> << <<>> >>, plain |-> TRUE]
CodeReader(W, lang) == [p \in ReadStates(W) \X W |-> ReadWord(lang, p[1], p[2])]

LEMMA ReadTyped ==
  ASSUME NEW W, NEW lang \in Languages
  PROVE  /\ Reads(ReadStates(W), W, ReadBase, CodeReader(W, lang))
         /\ \A s \in ReadStates(W), w \in W : CodeReader(W, lang)[<<s, w>>] = ReadWord(lang, s, w)
<1> DEFINE S == ReadStates(W)
<1>1. ReadBase \in S
  <2>1. << <<>> >> \in LineStates(W)
    BY LinesTyped DEF Reads, LineBase
  <2> QED
    BY <2>1 DEF ReadBase, ReadStates, Modes
<1>2. ASSUME NEW s \in S, NEW w \in W PROVE ReadWord(lang, s, w) \in S
  <2>1. s.mode \in Modes /\ s.lines \in LineStates(W) /\ s.plain \in BOOLEAN
    BY DEF ReadStates
  <2>2. \A mode \in Modes : Enter(s, mode) \in S
    BY <2>1 DEF Enter, ReadStates
  <2>3. NewLine(s) \in S
    BY <2>1, AddedLine DEF NewLine, ReadStates, Modes
  <2>4. \A mode \in Modes : PutWord(s, mode, w) \in S
    <3>1. [s.lines EXCEPT ![Len(s.lines)] = Append(@, w)] \in LineStates(W)
      BY <2>1, LongerLine DEF Longer
    <3> QED
      BY <2>1, <3>1 DEF PutWord, ReadStates
  <2>5. \A t \in S, unclear \in BOOLEAN : UnclearIf(unclear, t) \in S
    BY DEF UnclearIf, ReadStates
  <2>6. Opens(lang, w) => ClosedBy(lang, w) \in Modes
    BY MarksOf DEF Languages, Modes
  <2>7. Opens(lang, w) \in BOOLEAN /\ IsBlank(s.lines[Len(s.lines)]) \in BOOLEAN
    BY DEF Opens, IsBlank
  <2>8. "code" \in Modes /\ "line" \in Modes /\ "quote" \in Modes
    BY DEF Modes
  <2> HIDE DEF S
  <2>9. ReadInCode(lang, s, w) \in S
    BY <2>2, <2>3, <2>4, <2>5, <2>6, <2>7, <2>8 DEF ReadInCode
  <2>10. ReadInLine(lang, s, w) \in S
    BY <2>3, <2>5, <2>7 DEF ReadInLine
  <2>11. ReadInQuote(lang, s, w) \in S
    BY <2>4, <2>5, <2>7, <2>8 DEF ReadInQuote
  <2>12. ReadInBlock(lang, s, w) \in S
    BY <2>2, <2>5, <2>7, <2>8 DEF ReadInBlock
  <2> QED
    BY <2>9, <2>10, <2>11, <2>12 DEF ReadWord
<1>3. CodeReader(W, lang) \in [S \X W -> S]
  BY <1>2 DEF CodeReader
<1>4. \A s \in S, w \in W : CodeReader(W, lang)[<<s, w>>] = ReadWord(lang, s, w)
  BY DEF CodeReader
<1> QED
  BY <1>1, <1>3, <1>4 DEF Reads

LEMMA ReadTextIs ==
  ASSUME NEW W, NEW lang \in Languages, NEW text \in Seq(W)
  PROVE  ReadText(lang, text) = FoldOf(text, ReadBase, CodeReader(W, lang))
<1> DEFINE N == Len(text)
           S == ReadStates(W)
           base == ReadBase
           step == CodeReader(W, lang)
           IsAfter(f) == f = [n \in 0 .. N |-> IF n = 0 THEN base ELSE ReadWord(lang, f[n - 1], text[n])]
           after == CHOOSE f : IsAfter(f)
<1>1. N \in Nat
  BY LenProperties
<1>2. Reads(S, W, base, step) /\ \A s \in S, w \in W : step[<<s, w>>] = ReadWord(lang, s, w)
  BY ReadTyped
<1> HIDE DEF S, base, step
<1>3. PICK f : /\ f = [n \in 0 .. N |-> f[n]]
               /\ f[0] = base
               /\ \A n \in 1 .. N : /\ f[n - 1] \in S /\ text[n] \in W
                                     /\ f[n] = step[<<f[n - 1], text[n]>>]
  BY <1>2, FoldRows
<1>4. ASSUME NEW n \in 0 .. N PROVE f[n] = IF n = 0 THEN base ELSE ReadWord(lang, f[n - 1], text[n])
  <2>1. n # 0 => n \in 1 .. N
    BY <1>1
  <2> QED
    BY <1>2, <1>3, <2>1
<1>5. IsAfter(f)
  BY <1>3, <1>4
<1>6. IsAfter(after)
  <2> HIDE DEF IsAfter
  <2> QED
    BY <1>5
<1>7. after[0] = base
  <2> HIDE DEF after
  <2> QED
    BY <1>1, <1>6
<1>8. \A n \in 1 .. N : after[n] = ReadWord(lang, after[n - 1], text[n])
  <2>1. \A n \in 1 .. N : n \in 0 .. N /\ n # 0
    BY <1>1
  <2> HIDE DEF after
  <2> QED
    BY <1>6, <2>1
<1>9. ReadText(lang, text) = after[N]
  BY DEF ReadText, ReadBase, base
<1> HIDE DEF after
<1>10. after[N] = FoldOf(text, base, step)
  BY <1>2, <1>7, <1>8, FoldRows
<1> QED
  BY <1>9, <1>10 DEF base, step

LEMMA ReadTextSteps ==
  ASSUME NEW W, NEW lang \in Languages
  PROVE  /\ ReadText(lang, <<>>) = ReadBase
         /\ \A text \in Seq(W) : ReadText(lang, text) \in ReadStates(W)
         /\ \A text \in Seq(W), w \in W :
              ReadText(lang, Append(text, w)) = ReadWord(lang, ReadText(lang, text), w)
<1> DEFINE S == ReadStates(W)
           step == CodeReader(W, lang)
<1>1. Reads(S, W, ReadBase, step) /\ \A s \in S, w \in W : step[<<s, w>>] = ReadWord(lang, s, w)
  BY ReadTyped
<1>2. \A text \in Seq(W) : ReadText(lang, text) = FoldOf(text, ReadBase, step)
  BY ReadTextIs
<1> HIDE DEF S, step
<1>3. FoldOf(<<>>, ReadBase, step) = ReadBase
  BY <1>1, FoldSteps
<1>4. \A text \in Seq(W) : FoldOf(text, ReadBase, step) \in S
  BY <1>1, FoldExists
<1>5. \A text \in Seq(W), w \in W :
        FoldOf(Append(text, w), ReadBase, step) = step[<<FoldOf(text, ReadBase, step), w>>]
  BY <1>1, FoldSteps
<1>6. ReadText(lang, <<>>) = ReadBase
  BY <1>2, <1>3, EmptySeq
<1>7. \A text \in Seq(W) : ReadText(lang, text) \in S
  BY <1>2, <1>4
<1>8. ASSUME NEW text \in Seq(W), NEW w \in W
      PROVE  ReadText(lang, Append(text, w)) = ReadWord(lang, ReadText(lang, text), w)
  <2>1. Append(text, w) \in Seq(W)
    BY AppendProperties
  <2> QED
    BY <1>1, <1>2, <1>5, <1>7, <2>1
<1> QED
  BY <1>6, <1>7, <1>8 DEF S

\* A word of a pass: it is kept, or held back as part of a block.
LEMMA StripWordIs ==
  ASSUME NEW W, NEW marks, NEW s \in StripStates(W), NEW w \in W
  PROVE  LET t == StripWord(s, w, marks)
         IN  /\ s.held = <<>> /\ w # marks[1] => t.held = <<>> /\ t.kept = Append(s.kept, w)
             /\ s.held = <<>> /\ w = marks[1] => t.held # <<>> /\ t.kept = s.kept
             /\ s.held # <<>> /\ w # marks[2] => t.held # <<>> /\ t.kept = s.kept
             /\ s.held # <<>> /\ w = marks[2] => t.held = <<>> /\ t.kept = s.kept
<1>1. s.kept \in Seq(W) /\ s.held \in Seq(W)
  BY DEF StripStates
<1>2. Append(s.held, w) # <<>>
  BY <1>1, AppendProperties
<1>3. /\ [s EXCEPT !.kept = Append(@, w)].held = s.held
      /\ [s EXCEPT !.kept = Append(@, w)].kept = Append(s.kept, w)
      /\ [s EXCEPT !.held = <<>>].held = <<>> /\ [s EXCEPT !.held = <<>>].kept = s.kept
      /\ [s EXCEPT !.held = Append(@, w)].held = Append(s.held, w)
      /\ [s EXCEPT !.held = Append(@, w)].kept = s.kept
  BY DEF StripStates
<1>4. CASE s.held = <<>> /\ w # marks[1]
  BY <1>3, <1>4 DEF StripWord
<1>5. CASE s.held = <<>> /\ w = marks[1]
  BY <1>2, <1>3, <1>5 DEF StripWord
<1>6. CASE s.held # <<>> /\ w # marks[2]
  BY <1>2, <1>3, <1>6 DEF StripWord
<1>7. CASE s.held # <<>> /\ w = marks[2]
  BY <1>3, <1>7 DEF StripWord
<1> QED
  BY <1>4, <1>5, <1>6, <1>7

\* What the passes of a language have kept of a text when no block is open at its
\* end, and where they stand there: in code, or in the block a mark closes.
Star == <<"/*", "*/">>
Double == <<"dq3", "dq3">>
Single == <<"sq3", "sq3">>

KeptText(lang, text) ==
  IF lang = "go" THEN Stripping(text, Star).kept
  ELSE IF lang = "python" THEN Stripping(Stripping(text, Double).kept, Single).kept
  ELSE text

Standing(lang, text) ==
  LET one == IF lang = "go" THEN Stripping(text, Star) ELSE Stripping(text, Double)
      two == Stripping(one.kept, Single)
  IN  IF lang = "other" THEN "code"
      ELSE IF lang = "go" THEN (IF one.held = <<>> THEN "code" ELSE "*/")
      ELSE IF one.held = <<>> THEN (IF two.held = <<>> THEN "code" ELSE "sq3")
      ELSE (IF two.held = <<>> THEN "dq3" ELSE "lost")

\* How a word moves the passes.
Moves(lang, text, w) ==
  LET at == Standing(lang, text)
      next == Standing(lang, Append(text, w))
      kept == KeptText(lang, text)
      more == KeptText(lang, Append(text, w))
  IN  /\ at = "code" /\ ~Opens(lang, w) => next = "code" /\ more = Append(kept, w)
      /\ at = "code" /\ Opens(lang, w) => next = ClosedBy(lang, w) /\ more = kept
      /\ \A c \in {"*/", "dq3", "sq3"} :
           /\ at = c /\ w = c => next = "code" /\ more = kept
           /\ at = c /\ w # c /\ ~(Opens(lang, w) /\ Len(Blocks(lang)) > 1) =>
                next = c /\ more = kept

LEMMA PassesMove ==
  ASSUME NEW W, NEW lang \in Languages, NEW text \in Seq(W), NEW w \in W
  PROVE  Moves(lang, text, w)
<1> DEFINE more == Append(text, w)
<1>1. more \in Seq(W)
  BY AppendProperties
<1>2. CASE lang = "other"
  BY <1>2, MarksOf DEF Moves, Standing, KeptText
<1>3. CASE lang = "go"
  <2> DEFINE s == Stripping(text, Star)
             t == Stripping(more, Star)
  <2>1. s \in StripStates(W) /\ t = StripWord(s, w, Star)
    BY StrippingSteps
  <2>2. Star[1] = "/*" /\ Star[2] = "*/"
    BY DEF Star
  <2> HIDE DEF s, t
  <2>3. /\ s.held = <<>> /\ w # "/*" => t.held = <<>> /\ t.kept = Append(s.kept, w)
        /\ s.held = <<>> /\ w = "/*" => t.held # <<>> /\ t.kept = s.kept
        /\ s.held # <<>> /\ w # "*/" => t.held # <<>> /\ t.kept = s.kept
        /\ s.held # <<>> /\ w = "*/" => t.held = <<>> /\ t.kept = s.kept
    BY <2>1, <2>2, StripWordIs
  <2>4. /\ Standing(lang, text) = IF s.held = <<>> THEN "code" ELSE "*/"
        /\ Standing(lang, more) = IF t.held = <<>> THEN "code" ELSE "*/"
        /\ KeptText(lang, text) = s.kept /\ KeptText(lang, more) = t.kept
    BY <1>3 DEF Standing, KeptText, s, t
  <2>5. /\ Opens(lang, w) <=> w = "/*"
        /\ w = "/*" => ClosedBy(lang, w) = "*/"
        /\ Len(Blocks(lang)) = 1
    BY <1>3, MarksOf
  <2> HIDE DEF more
  <2> QED
    BY <2>3, <2>4, <2>5 DEF Moves, more
<1>4. CASE lang = "python"
  <2> DEFINE s1 == Stripping(text, Double)
             t1 == Stripping(more, Double)
             s2 == Stripping(s1.kept, Single)
             t2 == Stripping(t1.kept, Single)
  <2>1. s1 \in StripStates(W) /\ t1 \in StripStates(W) /\ t1 = StripWord(s1, w, Double)
    BY <1>1, StrippingSteps
  <2>2. Double[1] = "dq3" /\ Double[2] = "dq3" /\ Single[1] = "sq3" /\ Single[2] = "sq3"
    BY DEF Double, Single
  <2>3. s1.kept \in Seq(W)
    BY <2>1 DEF StripStates
  <2>4. s2 \in StripStates(W) /\ Stripping(Append(s1.kept, w), Single) = StripWord(s2, w, Single)
    BY <2>3, StrippingSteps
  <2>5. /\ Standing(lang, text) = IF s1.held = <<>> THEN (IF s2.held = <<>> THEN "code" ELSE "sq3")
                                  ELSE (IF s2.held = <<>> THEN "dq3" ELSE "lost")
        /\ Standing(lang, more) = IF t1.held = <<>> THEN (IF t2.held = <<>> THEN "code" ELSE "sq3")
                                  ELSE (IF t2.held = <<>> THEN "dq3" ELSE "lost")
        /\ KeptText(lang, text) = s2.kept /\ KeptText(lang, more) = t2.kept
    BY <1>4 DEF Standing, KeptText
  <2>6. t1.kept = s1.kept => t2 = s2
    OBVIOUS
  <2>7. t1.kept = Append(s1.kept, w) => t2 = StripWord(s2, w, Single)
    BY <2>4
  <2> HIDE DEF s1, t1, s2, t2
  <2>8. /\ s1.held = <<>> /\ w # "dq3" => t1.held = <<>> /\ t1.kept = Append(s1.kept, w)
        /\ s1.held = <<>> /\ w = "dq3" => t1.held # <<>> /\ t1.kept = s1.kept
        /\ s1.held # <<>> /\ w # "dq3" => t1.held # <<>> /\ t1.kept = s1.kept
        /\ s1.held # <<>> /\ w = "dq3" => t1.held = <<>> /\ t1.kept = s1.kept
    BY <2>1, <2>2, StripWordIs
  <2>9. LET t == StripWord(s2, w, Single)
        IN  /\ s2.held = <<>> /\ w # "sq3" => t.held = <<>> /\ t.kept = Append(s2.kept, w)
            /\ s2.held = <<>> /\ w = "sq3" => t.held # <<>> /\ t.kept = s2.kept
            /\ s2.held # <<>> /\ w # "sq3" => t.held # <<>> /\ t.kept = s2.kept
            /\ s2.held # <<>> /\ w = "sq3" => t.held = <<>> /\ t.kept = s2.kept
    BY <2>2, <2>4, StripWordIs
  <2>10. /\ Opens(lang, w) <=> w \in {"dq3", "sq3"}
         /\ w \in {"dq3", "sq3"} => ClosedBy(lang, w) = w
         /\ Len(Blocks(lang)) = 2
    BY <1>4, MarksOf
  <2> HIDE DEF more
  <2> QED
    BY <2>5, <2>6, <2>7, <2>8, <2>9, <2>10 DEF Moves, more
<1> QED
  BY <1>2, <1>3, <1>4 DEF Languages

\* Before the first word the passes stand in code with nothing kept; what they
\* have kept is a text; and where they stand in code it is what they leave.
LEMMA PassesAre ==
  ASSUME NEW W, NEW lang \in Languages
  PROVE  /\ Standing(lang, <<>>) = "code" /\ KeptText(lang, <<>>) = <<>>
         /\ \A text \in Seq(W) : KeptText(lang, text) \in Seq(W)
         /\ \A text \in Seq(W) : Standing(lang, text) = "code" =>
              StripBlocks(lang, text) = KeptText(lang, text)
<1>1. StripBase.kept = <<>> /\ StripBase.held = <<>>
  BY DEF StripBase
<1>2. \A marks : Stripping(<<>>, marks) = StripBase
  BY StrippingSteps
<1>3. \A marks : \A text \in Seq(W) : Stripping(text, marks).kept \in Seq(W)
  <2>1. \A marks : \A text \in Seq(W) : Stripping(text, marks) \in StripStates(W)
    BY StrippingSteps
  <2> QED
    BY <2>1 DEF StripStates
<1>4. ASSUME NEW marks, NEW text \in Seq(W), Stripping(text, marks).held = <<>>
      PROVE  StripBlock(text, marks) = Stripping(text, marks).kept
  BY <1>3, <1>4, ConcatEmptySeq DEF StripBlock
<1>5. Standing(lang, <<>>) = "code" /\ KeptText(lang, <<>>) = <<>>
  BY <1>1, <1>2 DEF Standing, KeptText, Languages
<1>6. \A text \in Seq(W) : KeptText(lang, text) \in Seq(W)
  BY <1>3 DEF KeptText
<1>7. ASSUME NEW text \in Seq(W), Standing(lang, text) = "code"
      PROVE  StripBlocks(lang, text) = KeptText(lang, text)
  <2>1. CASE lang = "go"
    <3>1. Stripping(text, Star).held = <<>>
      BY <1>7, <2>1 DEF Standing
    <3>2. Blocks(lang)[1] = Star /\ Len(Blocks(lang)) = 1
      BY <2>1, MarksOf DEF Star
    <3> QED
      BY <1>4, <2>1, <3>1, <3>2 DEF StripBlocks, KeptText
  <2>2. CASE lang = "python"
    <3> DEFINE one == Stripping(text, Double).kept
    <3>1. Stripping(text, Double).held = <<>> /\ Stripping(one, Single).held = <<>>
      BY <1>7, <2>2 DEF Standing
    <3>2. Blocks(lang)[1] = Double /\ Blocks(lang)[2] = Single /\ Len(Blocks(lang)) = 2
      BY <2>2, MarksOf DEF Double, Single
    <3>3. StripBlock(text, Double) = one /\ one \in Seq(W)
      BY <1>3, <1>4, <3>1
    <3>4. StripBlock(one, Single) = Stripping(one, Single).kept
      BY <1>4, <3>1, <3>3
    <3> QED
      BY <2>2, <3>2, <3>3, <3>4 DEF StripBlocks, KeptText
  <2>3. CASE lang = "other"
    BY <2>3, MarksOf DEF StripBlocks, KeptText
  <2> QED
    BY <2>1, <2>2, <2>3 DEF Languages
<1> QED
  BY <1>5, <1>6, <1>7

\* Blank lines and line comments, as a line grows.
LEMMA LineGrows ==
  ASSUME NEW W, NEW line \in Seq(W), NEW w \in W, NEW mark, mark # "tab"
  PROVE  /\ IsBlank(Append(line, w)) <=> IsBlank(line) /\ w = "tab"
         /\ IsLineComment(Append(line, w), mark) <=>
              IsLineComment(line, mark) \/ (IsBlank(line) /\ w = mark)
<1> DEFINE N == Len(line)
           more == Append(line, w)
<1>1. /\ N \in Nat /\ DOMAIN line = 1 .. N
      /\ DOMAIN more = 1 .. N + 1
      /\ \A n \in 1 .. N : more[n] = line[n]
      /\ more[N + 1] = w
  <2>1. more \in Seq(W) /\ Len(more) = N + 1
    BY AppendProperties
  <2> HIDE DEF more
  <2>2. DOMAIN more = 1 .. Len(more)
    BY <2>1, LenProperties
  <2> QED
    BY <2>1, <2>2, LenProperties, AppendProperties DEF more
<1>2. N + 1 \in 1 .. N + 1 /\ \A n \in 1 .. N + 1 : n \in 1 .. N \/ n = N + 1
  BY <1>1
<1>3. \A n \in 1 .. N : n \in 1 .. N + 1
  BY <1>1
<1> HIDE DEF N, more
<1>4. IsBlank(more) <=> IsBlank(line) /\ w = "tab"
  BY <1>1, <1>2, <1>3 DEF IsBlank
<1>5. IsLineComment(line, mark) => IsLineComment(more, mark)
  <2> SUFFICES ASSUME NEW n \in 1 .. N, line[n] = mark, \A k \in 1 .. n - 1 : line[k] = "tab"
               PROVE  IsLineComment(more, mark)
    BY <1>1 DEF IsLineComment
  <2>1. \A k \in 1 .. n - 1 : k \in 1 .. N
    BY <1>1
  <2>2. \A k \in 1 .. n - 1 : more[k] = "tab"
    BY <1>1, <2>1
  <2>3. n \in DOMAIN more /\ more[n] = mark
    BY <1>1, <1>3
  <2> QED
    BY <2>2, <2>3 DEF IsLineComment
<1>6. IsBlank(line) /\ w = mark => IsLineComment(more, mark)
  <2> SUFFICES ASSUME IsBlank(line), w = mark PROVE IsLineComment(more, mark)
    OBVIOUS
  <2>1. (N + 1) - 1 = N /\ N + 1 \in DOMAIN more
    BY <1>1, <1>2
  <2>2. \A k \in 1 .. N : more[k] = "tab"
    BY <1>1 DEF IsBlank
  <2>3. \A k \in 1 .. (N + 1) - 1 : more[k] = "tab"
    BY <2>1, <2>2
  <2> QED
    BY <1>1, <2>1, <2>3 DEF IsLineComment
<1>7. IsLineComment(more, mark) => IsLineComment(line, mark) \/ (IsBlank(line) /\ w = mark)
  <2> SUFFICES ASSUME NEW n \in 1 .. N + 1, more[n] = mark, \A k \in 1 .. n - 1 : more[k] = "tab"
               PROVE  IsLineComment(line, mark) \/ (IsBlank(line) /\ w = mark)
    BY <1>1 DEF IsLineComment
  <2>1. CASE n \in 1 .. N
    <3>1. \A k \in 1 .. n - 1 : k \in 1 .. N
      BY <1>1, <2>1
    <3>2. \A k \in 1 .. n - 1 : line[k] = "tab"
      BY <1>1, <3>1
    <3>3. n \in DOMAIN line /\ line[n] = mark
      BY <1>1, <2>1
    <3>4. IsLineComment(line, mark)
      BY <3>2, <3>3 DEF IsLineComment
    <3> QED
      BY <3>4
  <2>2. CASE n = N + 1
    <3>1. n - 1 = N
      BY <1>1, <2>2
    <3>2. \A k \in 1 .. N : line[k] = "tab"
      BY <1>1, <3>1
    <3>3. IsBlank(line) /\ w = mark
      BY <1>1, <2>2, <3>2 DEF IsBlank
    <3> QED
      BY <3>3
  <2> QED
    BY <1>2, <2>1, <2>2
<1> QED
  BY <1>4, <1>5, <1>6, <1>7 DEF more

LEMMA EmptyLine ==
  ASSUME NEW mark
  PROVE  IsBlank(<<>>) /\ ~IsLineComment(<<>>, mark)
BY DEF IsBlank, IsLineComment

LEMMA CommentHasMark ==
  ASSUME NEW W, NEW line \in Seq(W), NEW mark, mark # "tab", IsLineComment(line, mark)
  PROVE  ~IsBlank(line)
BY DEF IsBlank, IsLineComment

\* The lines the passes leave and the lines of code a reader in some mode has put
\* down: the same, but that a line comment of the first is a blank line of the
\* second.  The last of them is a comment when the reader is in one.
Match(left, read, mark, mode) ==
  LET N == Len(left)
  IN  /\ Len(read) = N
      /\ \A n \in 1 .. N : IF IsLineComment(left[n], mark) THEN IsBlank(read[n])
                           ELSE left[n] = read[n]
      /\ IsLineComment(left[N], mark) <=> mode = "line"
      /\ mode = "quote" => ~IsBlank(left[N])

\* Matching lines match when both have a line more,
LEMMA MatchNewLine ==
  ASSUME NEW W, NEW left \in LineStates(W), NEW read \in LineStates(W), NEW mark, NEW mode,
         Match(left, read, mark, mode)
  PROVE  Match(Append(left, <<>>), Append(read, <<>>), mark, "code")
<1> DEFINE N == Len(left)
           l == Append(left, <<>>)
           r == Append(read, <<>>)
<1>1. N \in Nat /\ Len(read) = N
  BY LastLine DEF Match
<1>2. /\ Len(l) = N + 1 /\ l[N + 1] = <<>>
      /\ \A n \in 1 .. N : l[n] = left[n]
  BY AddedLine
<1>3. /\ Len(r) = N + 1 /\ r[N + 1] = <<>>
      /\ \A n \in 1 .. N : r[n] = read[n]
  BY <1>1, AddedLine
<1>4. \A n \in 1 .. N + 1 : n \in 1 .. N \/ n = N + 1
  BY <1>1
<1> HIDE DEF l, r
<1>5. \A n \in 1 .. N + 1 : IF IsLineComment(l[n], mark) THEN IsBlank(r[n]) ELSE l[n] = r[n]
  <2>1. \A n \in 1 .. N : IF IsLineComment(l[n], mark) THEN IsBlank(r[n]) ELSE l[n] = r[n]
    BY <1>2, <1>3 DEF Match
  <2>2. ~IsLineComment(l[N + 1], mark) /\ l[N + 1] = r[N + 1]
    BY <1>2, <1>3, EmptyLine
  <2> QED
    BY <1>4, <2>1, <2>2
<1>6. ~IsLineComment(l[N + 1], mark)
  BY <1>2, EmptyLine
<1> HIDE DEF N
<1>7. Match(l, r, mark, "code")
  BY <1>2, <1>3, <1>5, <1>6 DEF Match
<1> QED
  BY <1>7 DEF l, r

\* a word more on the last one that is no comment and begins none,
LEMMA MatchWord ==
  ASSUME NEW W, NEW left \in LineStates(W), NEW read \in LineStates(W), NEW mark, NEW mode,
         NEW w \in W, NEW next,
         Match(left, read, mark, mode), mode # "line", next # "line", mark # "tab",
         w # mark \/ ~IsBlank(left[Len(left)]),
         next = "quote" => w # "tab" \/ ~IsBlank(left[Len(left)])
  PROVE  Match(Longer(left, w), Longer(read, w), mark, next)
<1> DEFINE N == Len(left)
           l == Longer(left, w)
           r == Longer(read, w)
           line == left[N]
<1>1. N \in Nat /\ N \in 1 .. N /\ line \in Seq(W) /\ Len(read) = N
  BY LastLine DEF Match
<1>2. ~IsLineComment(line, mark) /\ read[N] = line
  BY <1>1 DEF Match
<1>3. /\ Len(l) = N /\ l[N] = Append(line, w)
      /\ \A n \in 1 .. N - 1 : l[n] = left[n]
  BY LongerLine
<1>4. /\ Len(r) = N /\ r[N] = Append(line, w)
      /\ \A n \in 1 .. N - 1 : r[n] = read[n]
  <2>1. /\ Len(r) = Len(read) /\ r[Len(read)] = Append(read[Len(read)], w)
        /\ \A n \in 1 .. Len(read) - 1 : r[n] = read[n]
    BY LongerLine
  <2> HIDE DEF r, line, N
  <2> QED
    BY <1>1, <1>2, <2>1
<1>5. \A n \in 1 .. N : n \in 1 .. N - 1 \/ n = N
  BY <1>1
<1>6. ~IsLineComment(Append(line, w), mark)
  BY <1>1, <1>2, LineGrows
<1>7. next = "quote" => ~IsBlank(Append(line, w))
  BY <1>1, LineGrows
<1> HIDE DEF l, r, line
<1>8. \A n \in 1 .. N : IF IsLineComment(l[n], mark) THEN IsBlank(r[n]) ELSE l[n] = r[n]
  <2>1. \A n \in 1 .. N - 1 : n \in 1 .. N
    BY <1>1
  <2>2. \A n \in 1 .. N - 1 : IF IsLineComment(l[n], mark) THEN IsBlank(r[n]) ELSE l[n] = r[n]
    BY <1>3, <1>4, <2>1 DEF Match
  <2> QED
    BY <1>3, <1>4, <1>5, <1>6, <2>2
<1> HIDE DEF N
<1>9. Match(l, r, mark, next)
  BY <1>3, <1>4, <1>6, <1>7, <1>8 DEF Match
<1> QED
  BY <1>9 DEF l, r

\* and a word more on a comment the reader is in or enters.
LEMMA MatchComment ==
  ASSUME NEW W, NEW left \in LineStates(W), NEW read \in LineStates(W), NEW mark, NEW mode,
         NEW w \in W, Match(left, read, mark, mode), mark # "tab",
         mode = "line" \/ (w = mark /\ IsBlank(read[Len(read)]))
  PROVE  Match(Longer(left, w), read, mark, "line")
<1> DEFINE N == Len(left)
           l == Longer(left, w)
           line == left[N]
<1>1. N \in Nat /\ N \in 1 .. N /\ line \in Seq(W) /\ Len(read) = N
  BY LastLine DEF Match
<1>2. /\ IF IsLineComment(line, mark) THEN IsBlank(read[N]) ELSE line = read[N]
      /\ IsLineComment(line, mark) <=> mode = "line"
  BY <1>1 DEF Match
<1>3. /\ Len(l) = N /\ l[N] = Append(line, w)
      /\ \A n \in 1 .. N - 1 : l[n] = left[n]
  BY LongerLine
<1>4. \A n \in 1 .. N : n \in 1 .. N - 1 \/ n = N
  BY <1>1
<1>5. IsLineComment(line, mark) \/ (IsBlank(line) /\ w = mark)
  BY <1>1, <1>2
<1>6. IsLineComment(Append(line, w), mark)
  BY <1>1, <1>5, LineGrows
<1>7. IsBlank(read[N])
  BY <1>1, <1>2
<1> HIDE DEF l, line
<1>8. \A n \in 1 .. N : IF IsLineComment(l[n], mark) THEN IsBlank(read[n]) ELSE l[n] = read[n]
  <2>1. \A n \in 1 .. N - 1 : n \in 1 .. N
    BY <1>1
  <2>2. \A n \in 1 .. N - 1 : IF IsLineComment(l[n], mark) THEN IsBlank(read[n]) ELSE l[n] = read[n]
    BY <1>3, <2>1 DEF Match
  <2> QED
    BY <1>3, <1>4, <1>6, <1>7, <2>2
<1> HIDE DEF N
<1>9. Match(l, read, mark, "line")
  BY <1>1, <1>3, <1>6, <1>8 DEF Match
<1> QED
  BY <1>9 DEF l

\* A reader that goes into a block, or comes out of one, changes no line.
LEMMA MatchBlock ==
  ASSUME NEW left, NEW read, NEW mark, NEW mode, NEW next, Match(left, read, mark, mode),
         mode # "line", next \notin {"line", "quote"}
  PROVE  Match(left, read, mark, next)
BY DEF Match

\* What the languages' marks are not.
LEMMA WordsOfMarks ==
  ASSUME NEW lang \in Languages
  PROVE  /\ LineMark(lang) \notin {"tab", "nl", "quote"}
         /\ ~Opens(lang, LineMark(lang)) /\ ~Opens(lang, "nl") /\ ~Opens(lang, "quote")
         /\ \A w : Opens(lang, w) => ClosedBy(lang, w) \in {"*/", "dq3", "sq3"}
BY MarksOf DEF Languages

\* Where the passes and the reader are after the same words, as long as the text
\* is plain: in the same place, with matching lines.
Agree(lang, text) ==
  LET s == ReadText(lang, text)
  IN  s.plain =>
        /\ Standing(lang, text) = IF s.mode \in {"code", "line", "quote"} THEN "code" ELSE s.mode
        /\ Match(Lines(KeptText(lang, text)), s.lines, LineMark(lang), s.mode)

LEMMA AgreeAtFirst ==
  ASSUME NEW lang \in Languages
  PROVE  Agree(lang, <<>>)
<1> DEFINE W == {}
<1>1. Standing(lang, <<>>) = "code" /\ KeptText(lang, <<>>) = <<>>
  BY PassesAre
<1>2. Lines(<<>>) = << <<>> >>
  BY LinesSteps DEF LineBase
<1>3. ReadText(lang, <<>>) = ReadBase
  BY ReadTextSteps
<1>4. Len(<< <<>> >>) = 1 /\ << <<>> >>[1] = <<>> /\ \A n \in 1 .. 1 : n = 1
  OBVIOUS
<1>5. Match(<< <<>> >>, << <<>> >>, LineMark(lang), "code")
  BY <1>4, EmptyLine DEF Match
<1> QED
  BY <1>1, <1>2, <1>3, <1>5 DEF Agree, ReadBase

LEMMA AgreeOnWord ==
  ASSUME NEW W, NEW lang \in Languages, NEW text \in Seq(W), NEW w \in W, Agree(lang, text)
  PROVE  Agree(lang, Append(text, w))
<1> DEFINE more == Append(text, w)
           s == ReadText(lang, text)
           t == ReadText(lang, more)
           at == Standing(lang, text)
           next == Standing(lang, more)
           kept == KeptText(lang, text)
           left == Lines(KeptText(lang, text))
           leftNext == Lines(KeptText(lang, more))
           mark == LineMark(lang)
           place(mode) == IF mode \in {"code", "line", "quote"} THEN "code" ELSE mode
           Blocks3 == {"*/", "dq3", "sq3"}
<1>1. s \in ReadStates(W) /\ t = ReadWord(lang, s, w)
  BY ReadTextSteps
<1>2. kept \in Seq(W)
  BY PassesAre
<1>3. left \in LineStates(W) /\ Lines(Append(kept, w)) = AddWord(left, w)
  BY <1>2, LinesSteps
<1>4. Moves(lang, text, w)
  BY PassesMove
<1>5. /\ mark \notin {"tab", "nl", "quote"}
      /\ ~Opens(lang, mark) /\ ~Opens(lang, "nl") /\ ~Opens(lang, "quote")
      /\ Opens(lang, w) => ClosedBy(lang, w) \in Blocks3
  BY WordsOfMarks
<1>6. /\ s.mode \in Modes /\ s.lines \in LineStates(W) /\ s.plain \in BOOLEAN
  BY <1>1 DEF ReadStates
<1>7. /\ at = "code" /\ ~Opens(lang, w) => next = "code" /\ leftNext = AddWord(left, w)
      /\ at = "code" /\ Opens(lang, w) => next = ClosedBy(lang, w) /\ leftNext = left
      /\ \A c \in Blocks3 :
           /\ at = c /\ w = c => next = "code" /\ leftNext = left
           /\ at = c /\ w # c /\ ~(Opens(lang, w) /\ Len(Blocks(lang)) > 1) =>
                next = c /\ leftNext = left
  <2>1. KeptText(lang, more) = Append(kept, w) => leftNext = AddWord(left, w)
    BY <1>3
  <2>2. KeptText(lang, more) = kept => leftNext = left
    OBVIOUS
  <2> HIDE DEF leftNext, left
  <2> QED
    BY <1>4, <2>1, <2>2 DEF Moves
<1>8. AddWord(left, w) = IF w = "nl" THEN Append(left, <<>>) ELSE Longer(left, w)
  BY DEF AddWord, Longer
<1>9. Agree(lang, text) =>
        (s.plain => at = place(s.mode) /\ Match(left, s.lines, mark, s.mode))
  BY DEF Agree
\* The fields of what the reader makes of a state.
<1>10. /\ \A mode : /\ Enter(s, mode).mode = mode /\ Enter(s, mode).lines = s.lines
                    /\ Enter(s, mode).plain = s.plain
       /\ \A mode : /\ PutWord(s, mode, w).mode = mode /\ PutWord(s, mode, w).plain = s.plain
                    /\ PutWord(s, mode, w).lines = Longer(s.lines, w)
       /\ /\ NewLine(s).mode = "code" /\ NewLine(s).plain = s.plain
          /\ NewLine(s).lines = Append(s.lines, <<>>)
  BY <1>1 DEF Enter, PutWord, NewLine, ReadStates, Longer
<1>11. \A unclear, u : u \in [mode : Modes, lines : LineStates(W), plain : BOOLEAN] =>
         /\ UnclearIf(unclear, u).mode = u.mode /\ UnclearIf(unclear, u).lines = u.lines
         /\ UnclearIf(unclear, u).plain => u.plain /\ ~unclear
  BY DEF UnclearIf
<1>12. /\ Enter(s, "line") \in ReadStates(W) /\ PutWord(s, "quote", w) \in ReadStates(W)
  <2>1. Longer(s.lines, w) \in LineStates(W)
    BY <1>6, LongerLine
  <2> QED
    BY <1>1, <1>6, <2>1 DEF Enter, PutWord, ReadStates, Modes, Longer
<1> HIDE DEF s, t, at, next, left, leftNext, kept, mark, more, place, Blocks3
<1> SUFFICES ASSUME t.plain
             PROVE  next = place(t.mode) /\ Match(leftNext, t.lines, mark, t.mode)
  BY DEF Agree, t, next, leftNext, mark, place, more
<1>13. CASE s.mode = "code"
  <2>1. t = ReadInCode(lang, s, w)
    BY <1>1, <1>13 DEF ReadWord
  <2>2. CASE w = mark
    <3>1. t = UnclearIf(~IsBlank(s.lines[Len(s.lines)]), Enter(s, "line"))
      BY <1>5, <2>1, <2>2 DEF ReadInCode, mark
    <3>2. t.mode = "line" /\ t.lines = s.lines /\ s.plain /\ IsBlank(s.lines[Len(s.lines)])
      BY <1>10, <1>11, <1>12, <3>1 DEF ReadStates
    <3>3. at = "code" /\ Match(left, s.lines, mark, "code")
      BY <1>9, <1>13, <3>2 DEF place
    <3>4. next = "code" /\ leftNext = Longer(left, w)
      BY <1>5, <1>7, <1>8, <2>2, <3>3
    <3>5. Match(Longer(left, w), s.lines, mark, "line")
      BY <1>3, <1>5, <1>6, <2>2, <3>2, <3>3, MatchComment
    <3> QED
      BY <3>2, <3>4, <3>5 DEF place
  <2>3. CASE w # mark /\ Opens(lang, w)
    <3>1. t = Enter(s, ClosedBy(lang, w))
      BY <1>5, <2>1, <2>3 DEF ReadInCode, mark
    <3>2. t.mode = ClosedBy(lang, w) /\ t.lines = s.lines /\ s.plain
      BY <1>10, <3>1
    <3>3. at = "code" /\ Match(left, s.lines, mark, "code")
      BY <1>9, <1>13, <3>2 DEF place
    <3>4. next = ClosedBy(lang, w) /\ leftNext = left
      BY <1>7, <2>3, <3>3
    <3>5. Match(left, s.lines, mark, t.mode)
      BY <1>5, <2>3, <3>2, <3>3, MatchBlock DEF Blocks3
    <3> QED
      BY <1>5, <2>3, <3>2, <3>4, <3>5 DEF place, Blocks3
  <2>4. CASE w = "quote"
    <3>1. t = PutWord(s, "quote", w)
      BY <1>5, <2>1, <2>4 DEF ReadInCode, mark
    <3>2. t.mode = "quote" /\ t.lines = Longer(s.lines, w) /\ s.plain
      BY <1>10, <3>1
    <3>3. at = "code" /\ Match(left, s.lines, mark, "code")
      BY <1>9, <1>13, <3>2 DEF place
    <3>4. next = "code" /\ leftNext = Longer(left, w)
      BY <1>5, <1>7, <1>8, <2>4, <3>3
    <3>5. w # mark /\ w # "tab" /\ mark # "tab"
      BY <1>5, <2>4
    <3>6. Match(Longer(left, w), Longer(s.lines, w), mark, "quote")
      BY <1>3, <1>6, <3>3, <3>5, MatchWord
    <3> QED
      BY <3>2, <3>4, <3>6 DEF place
  <2>5. CASE w = "nl"
    <3>1. t = NewLine(s)
      BY <1>5, <2>1, <2>5 DEF ReadInCode, mark
    <3>2. t.mode = "code" /\ t.lines = Append(s.lines, <<>>) /\ s.plain
      BY <1>10, <3>1
    <3>3. at = "code" /\ Match(left, s.lines, mark, "code")
      BY <1>9, <1>13, <3>2 DEF place
    <3>4. next = "code" /\ leftNext = Append(left, <<>>)
      BY <1>5, <1>7, <1>8, <2>5, <3>3
    <3>5. Match(Append(left, <<>>), Append(s.lines, <<>>), mark, "code")
      BY <1>3, <1>6, <3>3, MatchNewLine
    <3> QED
      BY <3>2, <3>4, <3>5 DEF place
  <2>6. CASE w # mark /\ ~Opens(lang, w) /\ w # "quote" /\ w # "nl"
    <3>1. t = PutWord(s, "code", w)
      BY <2>1, <2>6 DEF ReadInCode, mark
    <3>2. t.mode = "code" /\ t.lines = Longer(s.lines, w) /\ s.plain
      BY <1>10, <3>1
    <3>3. at = "code" /\ Match(left, s.lines, mark, "code")
      BY <1>9, <1>13, <3>2 DEF place
    <3>4. next = "code" /\ leftNext = Longer(left, w)
      BY <1>7, <1>8, <2>6, <3>3
    <3>5. Match(Longer(left, w), Longer(s.lines, w), mark, "code")
      BY <1>3, <1>5, <1>6, <2>6, <3>3, MatchWord
    <3> QED
      BY <3>2, <3>4, <3>5 DEF place
  <2> QED
    BY <2>2, <2>3, <2>4, <2>5, <2>6
<1>14. CASE s.mode = "line"
  <2>1. t = ReadInLine(lang, s, w)
    BY <1>1, <1>14 DEF ReadWord
  <2>2. CASE w = "nl"
    <3>1. t = NewLine(s)
      BY <2>1, <2>2 DEF ReadInLine
    <3>2. t.mode = "code" /\ t.lines = Append(s.lines, <<>>) /\ s.plain
      BY <1>10, <3>1
    <3>3. at = "code" /\ Match(left, s.lines, mark, "line")
      BY <1>9, <1>14, <3>2 DEF place
    <3>4. next = "code" /\ leftNext = Append(left, <<>>)
      BY <1>5, <1>7, <1>8, <2>2, <3>3
    <3>5. Match(Append(left, <<>>), Append(s.lines, <<>>), mark, "code")
      BY <1>3, <1>6, <3>3, MatchNewLine
    <3> QED
      BY <3>2, <3>4, <3>5 DEF place
  <2>3. CASE w # "nl"
    <3>1. t = UnclearIf(Opens(lang, w), s)
      BY <2>1, <2>3 DEF ReadInLine
    <3>2. t.mode = "line" /\ t.lines = s.lines /\ s.plain /\ ~Opens(lang, w)
      BY <1>1, <1>11, <1>14, <3>1 DEF ReadStates
    <3>3. at = "code" /\ Match(left, s.lines, mark, "line")
      BY <1>9, <1>14, <3>2 DEF place
    <3>4. next = "code" /\ leftNext = Longer(left, w)
      BY <1>7, <1>8, <2>3, <3>2, <3>3
    <3>5. Match(Longer(left, w), s.lines, mark, "line")
      BY <1>3, <1>5, <1>6, <3>3, MatchComment
    <3> QED
      BY <3>2, <3>4, <3>5 DEF place
  <2> QED
    BY <2>2, <2>3
<1>15. CASE s.mode = "quote"
  <2>1. t = ReadInQuote(lang, s, w)
    BY <1>1, <1>15 DEF ReadWord
  <2>2. CASE w = "quote"
    <3>1. t = PutWord(s, "code", w)
      BY <2>1, <2>2 DEF ReadInQuote
    <3>2. t.mode = "code" /\ t.lines = Longer(s.lines, w) /\ s.plain
      BY <1>10, <3>1
    <3>3. at = "code" /\ Match(left, s.lines, mark, "quote")
      BY <1>9, <1>15, <3>2 DEF place
    <3>4. next = "code" /\ leftNext = Longer(left, w)
      BY <1>5, <1>7, <1>8, <2>2, <3>3
    <3>5. Match(Longer(left, w), Longer(s.lines, w), mark, "code")
      BY <1>3, <1>5, <1>6, <2>2, <3>3, MatchWord
    <3> QED
      BY <3>2, <3>4, <3>5 DEF place
  <2>3. CASE w # "quote"
    <3>1. t = UnclearIf(w = "nl" \/ Opens(lang, w), PutWord(s, "quote", w))
      BY <2>1, <2>3 DEF ReadInQuote
    <3>2. t.mode = "quote" /\ t.lines = Longer(s.lines, w) /\ s.plain /\ w # "nl" /\ ~Opens(lang, w)
      BY <1>10, <1>11, <1>12, <3>1 DEF ReadStates
    <3>3. at = "code" /\ Match(left, s.lines, mark, "quote")
      BY <1>9, <1>15, <3>2 DEF place
    <3>4. next = "code" /\ leftNext = Longer(left, w)
      BY <1>7, <1>8, <3>2, <3>3
    <3>5. ~IsBlank(left[Len(left)]) /\ mark # "tab"
      BY <1>5, <3>3 DEF Match
    <3>6. Match(Longer(left, w), Longer(s.lines, w), mark, "quote")
      BY <1>3, <1>6, <3>3, <3>5, MatchWord
    <3> QED
      BY <3>2, <3>4, <3>6 DEF place
  <2> QED
    BY <2>2, <2>3
<1>16. CASE s.mode \in Blocks3
  <2>1. t = ReadInBlock(lang, s, w)
    BY <1>1, <1>16 DEF ReadWord, Blocks3
  <2>2. CASE w = s.mode
    <3>1. t = Enter(s, "code")
      BY <2>1, <2>2 DEF ReadInBlock
    <3>2. t.mode = "code" /\ t.lines = s.lines /\ s.plain
      BY <1>10, <3>1
    <3>3. at = s.mode /\ Match(left, s.lines, mark, s.mode)
      BY <1>9, <1>16, <3>2 DEF place, Blocks3
    <3>4. next = "code" /\ leftNext = left
      BY <1>7, <1>16, <2>2, <3>3
    <3>5. Match(left, s.lines, mark, "code")
      BY <1>16, <3>3, MatchBlock DEF Blocks3
    <3> QED
      BY <3>2, <3>4, <3>5 DEF place
  <2>3. CASE w # s.mode
    <3>1. t = UnclearIf(Opens(lang, w) /\ Len(Blocks(lang)) > 1, s)
      BY <2>1, <2>3 DEF ReadInBlock
    <3>2. /\ t.mode = s.mode /\ t.lines = s.lines /\ s.plain
          /\ ~(Opens(lang, w) /\ Len(Blocks(lang)) > 1)
      BY <1>1, <1>11, <3>1 DEF ReadStates
    <3>3. at = s.mode /\ Match(left, s.lines, mark, s.mode)
      BY <1>9, <1>16, <3>2 DEF place, Blocks3
    <3>4. next = s.mode /\ leftNext = left
      BY <1>7, <1>16, <2>3, <3>2, <3>3
    <3> QED
      BY <1>16, <3>2, <3>3, <3>4 DEF place, Blocks3
  <2> QED
    BY <2>2, <2>3
<1> QED
  BY <1>6, <1>13, <1>14, <1>15, <1>16 DEF Modes, Blocks3

LEMMA AlwaysAgree ==
  ASSUME NEW W, NEW lang \in Languages
  PROVE  \A text \in Seq(W) : Agree(lang, text)
<1> DEFINE T == {text \in Seq(W) : Agree(lang, text)}
<1>1. <<>> \in T
  BY AgreeAtFirst, EmptySeq
<1>2. ASSUME NEW text \in Seq(W), NEW w \in W, text \in T PROVE Append(text, w) \in T
  BY <1>2, AgreeOnWord, AppendProperties
<1>3. \A text \in Seq(W) : text \in T
  <2> HIDE DEF T
  <2> QED
    BY <1>1, <1>2, TextInduction
<1> QED
  BY <1>3

\* Sequences that agree at some places leave the same there.
LEMMA SameThose ==
  ASSUME NEW S, NEW one \in Seq(S), NEW other \in Seq(S), Len(one) = Len(other),
         NEW places \in SUBSET (1 .. Len(one)), \A n \in places : one[n] = other[n]
  PROVE  Those(one, places) = Those(other, places)
<1>1. places \in SUBSET Nat /\ IsFiniteSet(places)
  BY ThoseIs
<1>2. \A k \in 1 .. Cardinality(places) : Nth(places, k) \in places
  BY <1>1, NthIs
<1> QED
  BY <1>2 DEF Those

\* A plain text's structural hash is its code.
LEMMA HashIsCodeOf ==
  ASSUME NEW W, NEW lang \in Languages, NEW text \in Seq(W), Plain(lang, text)
  PROVE  StructuralHash(lang, text) = Code(lang, text)
<1> DEFINE s == ReadText(lang, text)
           left == Lines(StripBlocks(lang, text))
           mark == LineMark(lang)
           N == Len(left)
           coded == {n \in DOMAIN left : ~IsLineComment(left[n], mark) /\ ~IsBlank(left[n])}
           read == {n \in DOMAIN s.lines : ~IsBlank(s.lines[n])}
<1>1. s.plain /\ s.mode \in {"code", "line"}
  BY DEF Plain
<1>2. /\ Standing(lang, text) = "code"
      /\ Match(Lines(KeptText(lang, text)), s.lines, mark, s.mode)
  BY <1>1, AlwaysAgree DEF Agree
<1>3. KeptText(lang, text) \in Seq(W) /\ StripBlocks(lang, text) = KeptText(lang, text)
  BY <1>2, PassesAre
<1>4. left \in LineStates(W) /\ s.lines \in LineStates(W) /\ Match(left, s.lines, mark, s.mode)
  <2>1. left \in LineStates(W)
    BY <1>3, LinesSteps
  <2>2. s \in ReadStates(W)
    BY ReadTextSteps
  <2> QED
    BY <1>2, <1>3, <2>1, <2>2 DEF ReadStates
<1> HIDE DEF left, s
<1>5. /\ left \in Seq(Seq(W)) /\ s.lines \in Seq(Seq(W)) /\ Len(s.lines) = N
      /\ DOMAIN left = 1 .. N /\ DOMAIN s.lines = 1 .. N
      /\ \A n \in 1 .. N : left[n] \in Seq(W)
  <2>1. left \in Seq(Seq(W)) /\ s.lines \in Seq(Seq(W)) /\ Len(s.lines) = N
    BY <1>4 DEF LineStates, Match
  <2>2. DOMAIN left = 1 .. N /\ DOMAIN s.lines = 1 .. Len(s.lines)
    BY <2>1, LenProperties
  <2> QED
    BY <1>4, <2>1, <2>2, LastLine
<1>6. \A n \in 1 .. N : IF IsLineComment(left[n], mark) THEN IsBlank(s.lines[n])
                        ELSE left[n] = s.lines[n]
  BY <1>4 DEF Match
<1>7. coded = read
  BY <1>5, <1>6
<1>8. \A n \in coded : left[n] = s.lines[n]
  BY <1>5, <1>6
<1>9. coded \in SUBSET (1 .. N)
  BY <1>5
<1> HIDE DEF coded, read
<1>10. Those(left, coded) = Those(s.lines, coded)
  BY <1>5, <1>8, <1>9, SameThose
<1>11. StructuralHash(lang, text) = Those(left, coded)
  BY DEF StructuralHash, StripByLanguage, left, coded, mark
<1>12. Code(lang, text) = Those(s.lines, read)
  BY DEF Code, s, read
<1> QED
  BY <1>7, <1>10, <1>11, <1>12
=============================================================================
