------------------------------ MODULE ScraperProofs ------------------------------
(***************************************************************************)
(* The scraper returns the maximum of what the healthy instances hold,     *)
(* without gaps, whatever the order in which splits and instances answer.  *)
(*                                                                         *)
(* The data are built by recursion: a merge of sorted lists, a fold over   *)
(* the results, a concatenation.  That such a recursion has a solution,    *)
(* and what it computes, is proved by induction over sets of numbers: the  *)
(* first lemmas.                                                           *)
(***************************************************************************)
EXTENDS MetricsScraper, FiniteSetTheorems, FunctionTheorems, WellFoundedInduction, TLAPS

\* A set of natural numbers that is not empty has a least element.
LEMMA LeastLemma ==
  ASSUME NEW T, T \subseteq Nat, T # {}
  PROVE  \E x \in T : \A y \in T : x <= y
<1> DEFINE R == OpToRel(<, Nat)
<1>1. \A x, y \in Nat : <<y, x>> \notin R => x <= y
  BY DEF OpToRel
<1>2. IsWellFoundedOn(R, Nat)
  BY NatLessThanWellFounded
<1> HIDE DEF R
<1>3. \E x \in T : \A y \in T : ~(<<y, x>> \in R)
  BY <1>2, WFMin
<1> QED
  BY <1>1, <1>3

\* Induction, for the set of the numbers that have a property.
LEMMA InductionLemma ==
  ASSUME NEW T, 0 \in T, \A n \in Nat : n \in T => n + 1 \in T
  PROVE  Nat \subseteq T
<1> SUFFICES ASSUME Nat \ T # {} PROVE FALSE
  OBVIOUS
<1>1. PICK x \in Nat \ T : \A y \in Nat \ T : x <= y
  BY LeastLemma
<1>2. x # 0 /\ x - 1 \in Nat
  BY <1>1
<1>3. x - 1 \in T
  BY <1>1, <1>2
<1> QED
  BY <1>1, <1>2, <1>3

\* F maps a function to the one that the body of a recursion makes of it; the calls of
\* the body have a smaller measure m, which is at most N.
IsRecursion(F, S, V, m, N) ==
  /\ N \in Nat
  /\ m \in [S -> Nat]
  /\ \A x \in S : m[x] <= N
  /\ [S -> V] # {}
  /\ F \in [[S -> V] -> [S -> V]]
  /\ \A g, h \in [S -> V], x \in S :
       (\A y \in S : m[y] < m[x] => g[y] = h[y]) => F[g][x] = F[h][x]

\* A recursion whose calls have a smaller measure has a solution.
LEMMA RecursionLemma ==
  ASSUME NEW F, NEW S, NEW V, NEW m, NEW N, IsRecursion(F, S, V, m, N)
  PROVE  \E g \in [S -> V] : g = F[g]
<1> DEFINE Solved(g, k) == \A x \in S : m[x] < k => F[g][x] = g[x]
           T == {k \in Nat : \E g \in [S -> V] : Solved(g, k)}
<1>0. /\ N \in Nat
      /\ m \in [S -> Nat]
      /\ \A x \in S : m[x] <= N
      /\ [S -> V] # {}
      /\ F \in [[S -> V] -> [S -> V]]
  BY DEF IsRecursion
<1>1. 0 \in T
  BY <1>0
<1>2. ASSUME NEW k \in Nat, k \in T PROVE k + 1 \in T
  <2>1. PICK g \in [S -> V] : Solved(g, k)
    BY <1>2
  <2>2. F[g] \in [S -> V]
    BY <1>0
  <2>3. ASSUME NEW x \in S, m[x] < k + 1 PROVE F[F[g]][x] = F[g][x]
    <3>1. \A y \in S : m[y] < m[x] => F[g][y] = g[y]
      <4> SUFFICES ASSUME NEW y \in S, m[y] < m[x] PROVE F[g][y] = g[y]
        OBVIOUS
      <4>1. m[y] \in Nat /\ m[x] \in Nat
        BY <1>0
      <4>2. m[y] < k
        BY <4>1, <2>3
      <4> QED
        BY <4>2, <2>1
    <3> HIDE DEF Solved
    <3> QED
      BY <2>2, <3>1 DEF IsRecursion
  <2> QED
    BY <2>2, <2>3
<1>3. N + 1 \in T
  <2> HIDE DEF T
  <2>1. Nat \subseteq T
    BY <1>1, <1>2, InductionLemma
  <2> QED
    BY <2>1, <1>0
<1>4. PICK g \in [S -> V] : Solved(g, N + 1)
  BY <1>3
<1>5. \A x \in S : F[g][x] = g[x]
  BY <1>4, <1>0
<1>6. F[g] \in [S -> V]
  BY <1>0
<1> QED
  BY <1>5, <1>6

\* The largest of a set of numbers below a bound.
LEMMA MaxLemma ==
  ASSUME NEW T, T \subseteq Nat, T # {}, NEW N \in Nat, \A x \in T : x <= N
  PROVE  Max(T) \in T /\ \A y \in T : y <= Max(T)
<1> DEFINE U == {N - x : x \in T}
<1>1. U \subseteq Nat /\ U # {}
  <2>1. U \subseteq Nat
    OBVIOUS
  <2>2. PICK x \in T : TRUE
    OBVIOUS
  <2>3. N - x \in U
    BY <2>2
  <2> QED
    BY <2>1, <2>3
<1> HIDE DEF U
<1>2. PICK u \in U : \A v \in U : u <= v
  BY <1>1, LeastLemma
<1>3. PICK x \in T : u = N - x
  BY DEF U
<1>4. \A y \in T : x >= y
  <2> SUFFICES ASSUME NEW y \in T PROVE x >= y
    OBVIOUS
  <2>1. u <= N - y
    BY <1>2 DEF U
  <2> QED
    BY <1>3, <2>1
<1>5. Max(T) \in T /\ \A y \in T : Max(T) >= y
  BY <1>4 DEF Max
<1> QED
  BY <1>5

\* The recursion of FoldLeft: F takes the result so far and the index of an element.
IsFold(iter, N, base, F) ==
  iter = [s \in SUBSET (1..N) |-> IF s = {} THEN base ELSE F[<<iter[s \ {Max(s)}], Max(s)>>]]

\* The recursion of a fold has a solution.
LEMMA FoldLemma ==
  ASSUME NEW N \in Nat, NEW A, NEW base \in A, NEW F \in [A \X (1..N) -> A]
  PROVE  \E iter \in [SUBSET (1..N) -> A] : IsFold(iter, N, base, F)
<1> DEFINE S == SUBSET (1..N)
           m == [s \in S |-> Cardinality(s)]
           Body(g) == [s \in S |-> IF s = {} THEN base ELSE F[<<g[s \ {Max(s)}], Max(s)>>]]
           G == [g \in [S -> A] |-> Body(g)]
<1>1. \A s \in S : IsFiniteSet(s) /\ Cardinality(s) \in Nat /\ Cardinality(s) <= N
  <2> SUFFICES ASSUME NEW s \in S
               PROVE  IsFiniteSet(s) /\ Cardinality(s) \in Nat /\ Cardinality(s) <= N
    OBVIOUS
  <2>1. IsFiniteSet(1..N) /\ Cardinality(1..N) = N
    BY FS_Interval
  <2>2. s \in SUBSET (1..N)
    OBVIOUS
  <2> HIDE DEF S
  <2>3. IsFiniteSet(s) /\ Cardinality(s) <= Cardinality(1..N)
    BY <2>1, <2>2, FS_Subset, Zenon
  <2> QED
    BY <2>1, <2>3, FS_CardinalityType
<1>2. m \in [S -> Nat] /\ \A s \in S : m[s] <= N
  BY <1>1
<1>3. \A s \in S : s # {} => Max(s) \in s /\ Max(s) \in 1..N
  <2> SUFFICES ASSUME NEW s \in S, s # {} PROVE Max(s) \in s /\ Max(s) \in 1..N
    OBVIOUS
  <2>1. s \subseteq Nat /\ \A x \in s : x <= N
    OBVIOUS
  <2> QED
    BY <2>1, MaxLemma
<1>4. ASSUME NEW g \in [S -> A] PROVE Body(g) \in [S -> A]
  <2> SUFFICES ASSUME NEW s \in S, s # {} PROVE F[<<g[s \ {Max(s)}], Max(s)>>] \in A
    OBVIOUS
  <2>1. s \ {Max(s)} \in S /\ Max(s) \in 1..N
    BY <1>3
  <2>2. g[s \ {Max(s)}] \in A
    BY <2>1
  <2> QED
    BY <2>1, <2>2
<1>5. G \in [[S -> A] -> [S -> A]]
  BY <1>4
<1>6. \A g, h \in [S -> A], s \in S :
        (\A t \in S : m[t] < m[s] => g[t] = h[t]) => G[g][s] = G[h][s]
  <2> SUFFICES ASSUME NEW g \in [S -> A], NEW h \in [S -> A], NEW s \in S,
                      \A t \in S : m[t] < m[s] => g[t] = h[t]
               PROVE  Body(g)[s] = Body(h)[s]
    <3>1. \A g \in [S -> A] : G[g] = Body(g)
      OBVIOUS
    <3> HIDE DEF G, Body, m, S
    <3> QED
      BY <3>1
  <2>1. CASE s = {}
    BY <2>1
  <2>2. CASE s # {}
    <3>1. Max(s) \in s /\ s \ {Max(s)} \in S
      BY <1>3, <2>2
    <3>2. Cardinality(s \ {Max(s)}) = Cardinality(s) - 1
      BY <3>1, <1>1, FS_RemoveElement
    <3>3. m[s \ {Max(s)}] < m[s]
      BY <3>1, <3>2, <1>1
    <3> QED
      BY <3>1, <3>3
  <2> QED
    BY <2>1, <2>2
<1>7. [S -> A] # {}
  <2>1. [s \in S |-> base] \in [S -> A]
    OBVIOUS
  <2> QED
    BY <2>1
<1>8. \E g \in [S -> A] : g = G[g]
  <2> HIDE DEF S, m, G
  <2>1. IsRecursion(G, S, A, m, N)
    BY <1>2, <1>5, <1>6, <1>7 DEF IsRecursion
  <2> QED
    BY <2>1, RecursionLemma
<1>9. PICK g \in [S -> A] : g = G[g]
  BY <1>8
<1>10. g = Body(g)
  BY <1>9
<1> QED
  BY <1>10 DEF IsFold

\* The largest of some indices is an index.
LEMMA LargestLemma ==
  ASSUME NEW N \in Nat, NEW s \in SUBSET (1..N), s # {}
  PROVE  Max(s) \in 1..N /\ s \ {Max(s)} \in SUBSET (1..N)
<1>1. s \subseteq Nat /\ \A x \in s : x <= N
  OBVIOUS
<1>2. Max(s) \in s
  BY <1>1, MaxLemma
<1> QED
  BY <1>2

\* The largest of the first n indices is n.
LEMMA UpToLemma ==
  ASSUME NEW N \in Nat, NEW n \in 1..N
  PROVE  /\ 1..n \in SUBSET (1..N) /\ 1..n # {}
         /\ Max(1..n) = n
         /\ (1..n) \ {n} = 1..(n - 1)
<1>1. 1..n \in SUBSET (1..N)
  <2>1. \A k \in 1..n : k \in 1..N
    OBVIOUS
  <2> QED
    BY <2>1
<1>2. n \in 1..n
  OBVIOUS
<1>3. Max(1..n) \in 1..n /\ n <= Max(1..n)
  <2>1. 1..n \subseteq Nat /\ \A x \in 1..n : x <= n
    OBVIOUS
  <2> QED
    BY <1>2, <2>1, MaxLemma
<1>4. Max(1..n) = n
  BY <1>3
<1> QED
  BY <1>1, <1>2, <1>4

FoldsWith(fold, N, A, base, F) ==
  /\ fold[{}] = base
  /\ \A s \in SUBSET (1..N) : s # {} /\ fold[s \ {Max(s)}] \in A =>
       fold[s] = F[<<fold[s \ {Max(s)}], Max(s)>>]

\* The results of a fold after 0, 1, ... elements.
IsRun(g, N, base, F, result) ==
  /\ g[0] = base
  /\ \A n \in 1..N : g[n] = F[<<g[n - 1], n>>]
  /\ g[N] = result

\* A fold goes through the list from its first element to its last.
LEMMA FoldRunLemma ==
  ASSUME NEW N \in Nat, NEW A, NEW base \in A, NEW F \in [A \X (1..N) -> A], NEW fold,
         FoldsWith(fold, N, A, base, F)
  PROVE  \E g \in [0..N -> A] : IsRun(g, N, base, F, fold[1..N])
<1> DEFINE g == [n \in 0..N |-> fold[1..n]]
           T == {n \in Nat : n <= N => fold[1..n] \in A}
<1>1. ASSUME NEW n \in 1..N, fold[1..(n - 1)] \in A
      PROVE  fold[1..n] = F[<<fold[1..(n - 1)], n>>] /\ fold[1..n] \in A
  <2>1. /\ 1..n \in SUBSET (1..N) /\ 1..n # {} /\ Max(1..n) = n
        /\ (1..n) \ {Max(1..n)} = 1..(n - 1)
    BY UpToLemma
  <2>2. fold[(1..n) \ {Max(1..n)}] \in A
    BY <1>1, <2>1
  <2>3. fold[1..n] = F[<<fold[(1..n) \ {Max(1..n)}], Max(1..n)>>]
    BY <2>1, <2>2 DEF FoldsWith
  <2>4. fold[1..n] = F[<<fold[1..(n - 1)], n>>]
    BY <2>1, <2>3
  <2> QED
    BY <1>1, <2>4
<1>2. 1..0 = {}
  OBVIOUS
<1>3. 0 \in T
  BY <1>2 DEF FoldsWith
<1>4. ASSUME NEW n \in Nat, n \in T PROVE n + 1 \in T
  <2> SUFFICES ASSUME n + 1 <= N PROVE fold[1..(n + 1)] \in A
    OBVIOUS
  <2>1. n + 1 \in 1..N /\ (n + 1) - 1 = n /\ fold[1..n] \in A
    BY <1>4
  <2> QED
    BY <1>1, <2>1
<1> HIDE DEF T
<1>5. Nat \subseteq T
  BY <1>3, <1>4, InductionLemma
<1>6. \A n \in 0..N : fold[1..n] \in A
  BY <1>5 DEF T
<1>7. g \in [0..N -> A]
  BY <1>6
<1>8. ASSUME NEW n \in 1..N PROVE g[n] = F[<<g[n - 1], n>>]
  <2>1. n \in 0..N /\ n - 1 \in 0..N
    OBVIOUS
  <2> QED
    BY <1>1, <1>6, <2>1
<1>9. g[0] = base /\ g[N] = fold[1..N]
  BY <1>2 DEF FoldsWith
<1> HIDE DEF g
<1> QED
  BY <1>7, <1>8, <1>9 DEF IsRun

\* FlattenSeq puts one sequence after the other.
LEMMA FlattenLemma ==
  ASSUME NEW A, NEW seqs \in Seq(Seq(A))
  PROVE  \E g \in [0..Len(seqs) -> Seq(A)] :
           /\ g[0] = << >>
           /\ \A n \in 1..Len(seqs) : g[n] = g[n - 1] \o seqs[n]
           /\ FlattenSeq(seqs) = g[Len(seqs)]
<1> DEFINE N == Len(seqs)
           S == 1..N
           m == [n \in S |-> n]
           Body(g) == [i \in S |-> IF i = 1 THEN seqs[i] ELSE g[i - 1] \o seqs[i]]
           G == [g \in [S -> Seq(A)] |-> Body(g)]
<1>1. CASE N = 0
  <2>1. seqs = << >> /\ FlattenSeq(seqs) = << >>
    BY <1>1 DEF FlattenSeq
  <2> DEFINE h == [n \in 0..N |-> << >>]
  <2>2. h \in [0..N -> Seq(A)] /\ h[0] = << >> /\ FlattenSeq(seqs) = h[N]
    BY <1>1, <2>1
  <2>3. \A n \in 1..N : h[n] = h[n - 1] \o seqs[n]
    BY <1>1
  <2> QED
    BY <2>2, <2>3
<1>2. CASE N # 0
  <2>1. \A g \in [S -> Seq(A)] : Body(g) \in [S -> Seq(A)]
    <3> SUFFICES ASSUME NEW g \in [S -> Seq(A)], NEW i \in S
                 PROVE  Body(g)[i] \in Seq(A)
      OBVIOUS
    <3>1. i # 1 => i - 1 \in S
      OBVIOUS
    <3>2. i # 1 => g[i - 1] \in Seq(A)
      BY <3>1
    <3>3. seqs[i] \in Seq(A)
      OBVIOUS
    <3>4. i # 1 => g[i - 1] \o seqs[i] \in Seq(A)
      BY <3>2, <3>3
    <3> QED
      BY <3>3, <3>4
  <2>2. G \in [[S -> Seq(A)] -> [S -> Seq(A)]]
    BY <2>1
  <2>3. \A g, h \in [S -> Seq(A)], i \in S :
          (\A j \in S : m[j] < m[i] => g[j] = h[j]) => G[g][i] = G[h][i]
    <3> SUFFICES ASSUME NEW g \in [S -> Seq(A)], NEW h \in [S -> Seq(A)], NEW i \in S,
                        \A j \in S : m[j] < m[i] => g[j] = h[j]
                 PROVE  G[g][i] = G[h][i]
      BY Zenon
    <3>1. i # 1 => i - 1 \in S /\ m[i - 1] < m[i]
      OBVIOUS
    <3>2. i # 1 => g[i - 1] = h[i - 1]
      BY <3>1
    <3> QED
      BY <3>2
  <2>4. m \in [S -> Nat] /\ \A i \in S : m[i] <= N
    OBVIOUS
  <2>5. [S -> Seq(A)] # {}
    <3>1. [i \in S |-> << >>] \in [S -> Seq(A)]
      OBVIOUS
    <3> QED
      BY <3>1
  <2>6. PICK g \in [S -> Seq(A)] : g = G[g]
    <3> HIDE DEF S, m, G
    <3>1. N \in Nat
      OBVIOUS
    <3> HIDE DEF N
    <3>2. IsRecursion(G, S, Seq(A), m, N)
      BY <2>2, <2>3, <2>4, <2>5, <3>1 DEF IsRecursion
    <3> QED
      BY <3>2, RecursionLemma
  <2>7. g = Body(g)
    BY <2>6
  <2> DEFINE f == CHOOSE f : f = Body(f)
  <2>8. f = Body(f)
    BY <2>7
  <2>9. FlattenSeq(seqs) = f[N]
    BY <1>2 DEF FlattenSeq
  <2> QED
    <3> HIDE DEF f
    <3>0. \A i \in S : f[i] = IF i = 1 THEN seqs[i] ELSE f[i - 1] \o seqs[i]
      BY <2>8
    <3> DEFINE T == {n \in Nat : n \in S => f[n] \in Seq(A)}
    <3>1. \A n \in Nat : n \in T
      <4>1. 0 \in T
        OBVIOUS
      <4>2. ASSUME NEW n \in Nat, n \in T PROVE n + 1 \in T
        <5> SUFFICES ASSUME n + 1 \in S PROVE f[n + 1] \in Seq(A)
          OBVIOUS
        <5>1. f[n + 1] = IF n + 1 = 1 THEN seqs[n + 1] ELSE f[n + 1 - 1] \o seqs[n + 1]
          BY <3>0
        <5>2. seqs[n + 1] \in Seq(A)
          OBVIOUS
        <5>3. n # 0 => f[n] \in Seq(A)
          BY <4>2
        <5>4. n # 0 => f[n] \o seqs[n + 1] \in Seq(A)
          BY <5>2, <5>3
        <5>5. n + 1 - 1 = n /\ (n + 1 = 1 <=> n = 0)
          OBVIOUS
        <5> QED
          BY <5>1, <5>2, <5>4, <5>5
      <4> HIDE DEF T
      <4> QED
        BY <4>1, <4>2, InductionLemma
    <3>2. \A n \in S : f[n] \in Seq(A)
      BY <3>1
    <3> DEFINE h == [n \in 0..N |-> IF n = 0 THEN << >> ELSE f[n]]
    <3>3. h \in [0..N -> Seq(A)]
      BY <3>2
    <3>4. h[0] = << >> /\ FlattenSeq(seqs) = h[N]
      BY <1>2, <2>9
    <3>5. ASSUME NEW n \in 1..N PROVE h[n] = h[n - 1] \o seqs[n]
      <4>1. f[n] = IF n = 1 THEN seqs[n] ELSE f[n - 1] \o seqs[n]
        BY <3>0
      <4>2. n = 1 => h[n - 1] = << >>
        OBVIOUS
      <4>3. n # 1 => h[n - 1] = f[n - 1]
        OBVIOUS
      <4>4. h[n] = f[n]
        OBVIOUS
      <4>5. seqs[n] \in Seq(A)
        OBVIOUS
      <4>6. << >> \o seqs[n] = seqs[n]
        BY <4>5
      <4> HIDE DEF h
      <4> QED
        BY <4>1, <4>2, <4>3, <4>4, <4>6
    <3> QED
      BY <3>3, <3>4, <3>5
<1> QED
  BY <1>1, <1>2

--------------------------------------------------------------------------------
(***************************************************************************)
(* How often a sequence of points has a time.                              *)
(***************************************************************************)
Found(points, t) == {n \in DOMAIN points : points[n].time = t}
Count(points, t) == Cardinality(Found(points, t))

\* Points with a time can be counted.
LEMMA CountTypeLemma ==
  ASSUME NEW s \in Seq(DataPoint), NEW t
  PROVE  /\ IsFiniteSet(Found(s, t))
         /\ Count(s, t) \in Nat
         /\ Count(s, t) = 0 <=> t \notin Times(s)
<1>1. Found(s, t) \in SUBSET (1..Len(s))
  BY DEF Found
<1>2. IsFiniteSet(1..Len(s))
  BY FS_Interval
<1>3. IsFiniteSet(Found(s, t))
  BY <1>1, <1>2, FS_Subset
<1>4. Count(s, t) \in Nat
  BY <1>3, FS_CardinalityType DEF Count
<1>5. Count(s, t) = 0 <=> Found(s, t) = {}
  BY <1>3, FS_EmptySet DEF Count
<1>6. Found(s, t) = {} <=> t \notin Times(s)
  BY DEF Found, Times
<1> QED
  BY <1>3, <1>4, <1>5, <1>6

\* An injective function from S onto T.
LEMMA SameSizeLemma ==
  ASSUME NEW S, IsFiniteSet(S), NEW T, NEW f \in [S -> T],
         \A x, y \in S : f[x] = f[y] => x = y,
         \A z \in T : \E x \in S : f[x] = z
  PROVE  IsFiniteSet(T) /\ Cardinality(T) = Cardinality(S)
<1>1. f \in Bijection(S, T)
  BY Fun_IsBij
<1>2. ExistsBijection(S, T)
  BY <1>1 DEF ExistsBijection
<1> QED
  BY <1>2, FS_Bijection

\* A concatenation has as many points with a time as its two parts.
LEMMA CountJoinedLemma ==
  ASSUME NEW s \in Seq(DataPoint), NEW u \in Seq(DataPoint), NEW t
  PROVE  Count(s \o u, t) = Count(s, t) + Count(u, t)
<1> DEFINE f == [n \in Found(u, t) |-> n + Len(s)]
           T == {n + Len(s) : n \in Found(u, t)}
<1>1. Found(u, t) \subseteq 1..Len(u) /\ Found(s, t) \subseteq 1..Len(s)
  BY DEF Found
<1>2. Len(s) \in Nat /\ Len(u) \in Nat
  OBVIOUS
<1>3. IsFiniteSet(T) /\ Cardinality(T) = Count(u, t)
  <2>1. f \in [Found(u, t) -> T]
    OBVIOUS
  <2>2. \A x, y \in Found(u, t) : f[x] = f[y] => x = y
    BY <1>1, <1>2
  <2>3. \A z \in T : \E x \in Found(u, t) : f[x] = z
    OBVIOUS
  <2> HIDE DEF f, T
  <2> QED
    BY <2>1, <2>2, <2>3, CountTypeLemma, SameSizeLemma DEF Count
<1>4. Found(s \o u, t) = Found(s, t) \cup T
  <2> DEFINE w == s \o u
  <2>1. DOMAIN w = 1..(Len(s) + Len(u))
    OBVIOUS
  <2>2. \A n \in 1..Len(s) : w[n] = s[n]
    OBVIOUS
  <2>3. \A n \in 1..Len(u) : w[n + Len(s)] = u[n]
    OBVIOUS
  <2> HIDE DEF w
  <2>4. ASSUME NEW n \in Found(w, t) PROVE n \in Found(s, t) \cup T
    <3>1. n \in 1..(Len(s) + Len(u)) /\ w[n].time = t
      BY <2>1 DEF Found
    <3>2. CASE n <= Len(s)
      BY <2>2, <3>1, <3>2, <1>2 DEF Found
    <3>3. CASE n > Len(s)
      <4>1. n - Len(s) \in 1..Len(u) /\ n = (n - Len(s)) + Len(s)
        BY <3>1, <3>3, <1>2
      <4>2. u[n - Len(s)].time = t
        BY <2>3, <4>1, <3>1
      <4>3. n - Len(s) \in Found(u, t)
        BY <4>1, <4>2 DEF Found
      <4> QED
        BY <4>1, <4>3
    <3> QED
      BY <3>1, <3>2, <3>3, <1>2
  <2>5. ASSUME NEW n \in Found(s, t) PROVE n \in Found(w, t)
    BY <2>1, <2>2, <1>2 DEF Found
  <2>6. ASSUME NEW n \in Found(u, t) PROVE n + Len(s) \in Found(w, t)
    <3>1. n \in 1..Len(u) /\ u[n].time = t
      BY DEF Found
    <3>2. n + Len(s) \in 1..(Len(s) + Len(u))
      BY <3>1, <1>2
    <3>3. w[n + Len(s)].time = t
      BY <3>1, <2>3
    <3> QED
      BY <3>2, <3>3, <2>1 DEF Found
  <2>7. Found(w, t) = Found(s, t) \cup T
    BY <2>4, <2>5, <2>6
  <2> QED
    BY <2>7 DEF w
<1>5. Found(s, t) \cap T = {}
  BY <1>1, <1>2
<1> HIDE DEF T
<1>6. Cardinality(Found(s, t) \cup T) =
        Cardinality(Found(s, t)) + Cardinality(T) - Cardinality(Found(s, t) \cap T)
  BY <1>3, CountTypeLemma, FS_Union
<1>7. Cardinality(Found(s, t) \cap T) = 0
  BY <1>5, FS_EmptySet
<1> QED
  BY <1>3, <1>4, <1>6, <1>7, CountTypeLemma DEF Count

\* One point counts once, at its time.
LEMMA CountOneLemma ==
  ASSUME NEW x \in DataPoint, NEW t
  PROVE  Count(<<x>>, t) = IF x.time = t THEN 1 ELSE 0
<1>1. Found(<<x>>, t) = IF x.time = t THEN {1} ELSE {}
  BY DEF Found
<1> QED
  BY <1>1, FS_EmptySet, FS_Singleton DEF Count

\* A time that no point has counts zero.
LEMMA CountNoneLemma ==
  ASSUME NEW t
  PROVE  Count(<< >>, t) = 0
<1>1. Found(<< >>, t) = {}
  BY DEF Found
<1> QED
  BY <1>1, FS_EmptySet DEF Count

--------------------------------------------------------------------------------
(***************************************************************************)
(* The stable sort.                                                        *)
(***************************************************************************)
UpTo(key, n) == {m \in DOMAIN key : key[m] < key[n] \/ (key[m] = key[n] /\ m <= n)}

\* The places given by Rank are 1..N, and smaller keys come first.
LEMMA RankLemma ==
  ASSUME NEW N \in Nat, NEW key \in [1..N -> Int]
  PROVE  /\ \A n \in 1..N : Rank(key, n) \in 1..N
         /\ \A m, n \in 1..N : Rank(key, m) = Rank(key, n) => m = n
         /\ \A m, n \in 1..N : Rank(key, m) <= Rank(key, n) => key[m] <= key[n]
         /\ \A k \in 1..N : \E n \in 1..N : Rank(key, n) = k
<1>1. IsFiniteSet(1..N) /\ Cardinality(1..N) = N
  BY FS_Interval
<1>2. ASSUME NEW n \in 1..N
      PROVE  /\ UpTo(key, n) \in SUBSET (1..N) /\ n \in UpTo(key, n)
             /\ IsFiniteSet(UpTo(key, n))
             /\ Rank(key, n) = Cardinality(UpTo(key, n))
             /\ Rank(key, n) \in 1..N
  <2>1. UpTo(key, n) \in SUBSET (1..N) /\ n \in UpTo(key, n)
    BY DEF UpTo
  <2>2. IsFiniteSet(UpTo(key, n)) /\ Cardinality(UpTo(key, n)) <= N
    BY <1>1, <2>1, FS_Subset
  <2>3. Cardinality(UpTo(key, n)) \in Nat /\ Cardinality(UpTo(key, n)) # 0
    BY <2>1, <2>2, FS_CardinalityType, FS_EmptySet
  <2>4. Rank(key, n) = Cardinality(UpTo(key, n))
    BY DEF Rank, UpTo
  <2> QED
    BY <2>1, <2>2, <2>3, <2>4
<1>3. ASSUME NEW m \in 1..N, NEW n \in 1..N, m # n, m \in UpTo(key, n)
      PROVE  Rank(key, m) < Rank(key, n)
  <2>1. UpTo(key, m) \subseteq UpTo(key, n) /\ n \notin UpTo(key, m)
    <3>1. key[m] \in Int /\ key[n] \in Int
      OBVIOUS
    <3>2. key[m] < key[n] \/ (key[m] = key[n] /\ m < n)
      BY <1>3, <3>1 DEF UpTo
    <3>3. n \notin UpTo(key, m)
      BY <3>1, <3>2 DEF UpTo
    <3>4. ASSUME NEW x \in UpTo(key, m) PROVE x \in UpTo(key, n)
      <4>1. x \in 1..N /\ key[x] \in Int /\ x \in DOMAIN key
        BY DEF UpTo
      <4>2. key[x] < key[m] \/ (key[x] = key[m] /\ x <= m)
        BY DEF UpTo
      <4>3. key[x] < key[n] \/ (key[x] = key[n] /\ x <= n)
        BY <3>1, <3>2, <4>1, <4>2
      <4> QED
        BY <4>1, <4>3 DEF UpTo
    <3> QED
      BY <3>3, <3>4
  <2>2. n \in UpTo(key, n) /\ IsFiniteSet(UpTo(key, n))
    BY <1>2
  <2>3. UpTo(key, m) \in SUBSET UpTo(key, n) /\ UpTo(key, m) # UpTo(key, n)
    BY <2>1, <2>2
  <2>4. /\ Cardinality(UpTo(key, m)) <= Cardinality(UpTo(key, n))
        /\ Cardinality(UpTo(key, m)) # Cardinality(UpTo(key, n))
    BY <2>2, <2>3, FS_Subset
  <2>5. Rank(key, m) \in 1..N /\ Rank(key, n) \in 1..N
    BY <1>2
  <2>6. Rank(key, m) = Cardinality(UpTo(key, m)) /\ Rank(key, n) = Cardinality(UpTo(key, n))
    BY <1>2
  <2> QED
    BY <2>4, <2>5, <2>6
<1>4. \A m, n \in 1..N : m \in UpTo(key, n) \/ n \in UpTo(key, m)
  <2> SUFFICES ASSUME NEW m \in 1..N, NEW n \in 1..N
               PROVE  m \in UpTo(key, n) \/ n \in UpTo(key, m)
    OBVIOUS
  <2>1. key[m] \in Int /\ key[n] \in Int
    OBVIOUS
  <2> QED
    BY <2>1 DEF UpTo
<1>5. \A n \in 1..N : Rank(key, n) \in 1..N
  BY <1>2
<1>6. \A m, n \in 1..N : Rank(key, m) = Rank(key, n) => m = n
  <2> SUFFICES ASSUME NEW m \in 1..N, NEW n \in 1..N, Rank(key, m) = Rank(key, n), m # n
               PROVE  FALSE
    OBVIOUS
  <2>1. Rank(key, m) < Rank(key, n) \/ Rank(key, n) < Rank(key, m)
    BY <1>3, <1>4
  <2>2. Rank(key, m) \in Int
    BY <1>5
  <2> QED
    BY <2>1, <2>2
<1>7. \A m, n \in 1..N : Rank(key, m) <= Rank(key, n) => key[m] <= key[n]
  <2> SUFFICES ASSUME NEW m \in 1..N, NEW n \in 1..N, Rank(key, m) <= Rank(key, n),
                      key[n] < key[m]
               PROVE  FALSE
    OBVIOUS
  <2>1. n \in UpTo(key, m) /\ m # n
    BY DEF UpTo
  <2>2. Rank(key, n) < Rank(key, m)
    BY <1>3, <2>1
  <2>3. Rank(key, m) \in Int /\ Rank(key, n) \in Int
    BY <1>5
  <2> QED
    BY <2>2, <2>3
<1>8. \A k \in 1..N : \E n \in 1..N : Rank(key, n) = k
  <2> DEFINE r == [n \in 1..N |-> Rank(key, n)]
  <2>1. r \in [1..N -> 1..N] /\ \A m, n \in 1..N : r[m] = r[n] => m = n
    BY <1>5, <1>6
  <2>2. \A n \in 1..N : r[n] = Rank(key, n)
    OBVIOUS
  <2> HIDE DEF r
  <2>3. r \in Injection(1..N, 1..N)
    BY <2>1, Fun_IsInj
  <2>4. r \in Surjection(1..N, 1..N)
    BY <1>1, <2>3, FS_Injection
  <2> QED
    BY <2>2, <2>4 DEF Surjection
<1> QED
  BY <1>5, <1>6, <1>7, <1>8

\* w is the list s, permuted by p so that the keys ascend.
SortedBy(w, s, key, p) ==
  /\ p \in [1..Len(s) -> 1..Len(s)]
  /\ \A i, j \in 1..Len(s) : p[i] = p[j] => i = j
  /\ \A n \in 1..Len(s) : \E i \in 1..Len(s) : p[i] = n
  /\ \A i, j \in 1..Len(s) : i <= j => key[p[i]] <= key[p[j]]
  /\ \A i \in 1..Len(s) : w[i] = s[p[i]]

\* The sort of a list by a time: some permutation of it, in order.
LEMMA SliceStableLemma ==
  ASSUME NEW A, NEW s \in Seq(A), NEW key \in [1..Len(s) -> Int]
  PROVE  /\ SliceStable(s, key) \in Seq(A)
         /\ Len(SliceStable(s, key)) = Len(s)
         /\ \E p : SortedBy(SliceStable(s, key), s, key, p)
<1> DEFINE N == Len(s)
           p == [k \in 1..N |-> CHOOSE n \in 1..N : Rank(key, n) = k]
<1>1. N \in Nat /\ DOMAIN s = 1..N /\ key \in [1..N -> Int]
  OBVIOUS
<1> HIDE DEF N
<1>2. \A k \in 1..N : p[k] \in 1..N /\ Rank(key, p[k]) = k
  <2>1. \A k \in 1..N : \E n \in 1..N : Rank(key, n) = k
    BY <1>1, RankLemma
  <2> QED
    BY <2>1
<1>3. p \in [1..N -> 1..N]
  BY <1>2
<1>4. \A k \in 1..N : SliceStable(s, key)[k] = s[p[k]]
  BY <1>1 DEF SliceStable
<1>5. DOMAIN SliceStable(s, key) = 1..N
  BY <1>1 DEF SliceStable
<1>6. \A n \in 1..N : s[n] \in A
  BY DEF N
<1>7. SliceStable(s, key) = [k \in 1..N |-> s[p[k]]]
  BY <1>1 DEF SliceStable
<1> HIDE DEF p
<1>8. SliceStable(s, key) \in [1..N -> A]
  BY <1>3, <1>6, <1>7
<1>9. SliceStable(s, key) \in Seq(A) /\ Len(SliceStable(s, key)) = N
  BY <1>1, <1>5, <1>8
<1>10. \A i, j \in 1..N : p[i] = p[j] => i = j
  BY <1>2
<1>11. \A n \in 1..N : \E i \in 1..N : p[i] = n
  <2> SUFFICES ASSUME NEW n \in 1..N PROVE \E i \in 1..N : p[i] = n
    OBVIOUS
  <2>1. Rank(key, n) \in 1..N
    BY <1>1, RankLemma
  <2>2. p[Rank(key, n)] \in 1..N /\ Rank(key, p[Rank(key, n)]) = Rank(key, n)
    BY <2>1, <1>2
  <2>3. p[Rank(key, n)] = n
    BY <2>2, <1>1, RankLemma
  <2> QED
    BY <2>1, <2>3
<1>12. \A i, j \in 1..N : i <= j => key[p[i]] <= key[p[j]]
  <2> SUFFICES ASSUME NEW i \in 1..N, NEW j \in 1..N, i <= j
               PROVE  key[p[i]] <= key[p[j]]
    OBVIOUS
  <2>1. Rank(key, p[i]) <= Rank(key, p[j])
    BY <1>2
  <2>2. p[i] \in 1..N /\ p[j] \in 1..N
    BY <1>2
  <2> QED
    BY <1>1, <2>1, <2>2, RankLemma
<1> QED
  <2>1. SortedBy(SliceStable(s, key), s, key, p)
    BY <1>3, <1>4, <1>10, <1>11, <1>12 DEF N, SortedBy
  <2> QED
    BY <1>9, <2>1 DEF N

--------------------------------------------------------------------------------
(***************************************************************************)
(* The merge of two sorted lists of points.                                *)
(***************************************************************************)
Points(s) == {s[n] : n \in DOMAIN s}

InOrder(s) == \A m, n \in DOMAIN s : m <= n => s[m].time <= s[n].time

\* Points with the same time are the same.
Uniform(s) == \A p, q \in Points(s) : p.time = q.time => p = q

\* Lists that can be merged: what both have, both have equally often.
Mergeable(a, b) ==
  /\ a \in Seq(DataPoint) /\ b \in Seq(DataPoint)
  /\ InOrder(a) /\ InOrder(b)
  /\ Uniform(a) /\ Uniform(b)
  /\ \A t \in Times(a) \cap Times(b) : Count(a, t) = Count(b, t)

IsMerge(a, b, merged) ==
  /\ merged \in Seq(DataPoint)
  /\ InOrder(merged)
  /\ Points(merged) \subseteq Points(a) \cup Points(b)
  /\ \A p \in Points(merged), q \in Points(a) \cup Points(b) :
       q.time = p.time => q.value <= p.value
  /\ \A t : Count(merged, t) = IF t \in Times(a) THEN Count(a, t) ELSE Count(b, t)

LEMMA TimesLemma ==
  ASSUME NEW s
  PROVE  Times(s) = {p.time : p \in Points(s)}
BY DEF Times, Points

\* A point put before a list: its points, order and counts.
LEMMA ConsLemma ==
  ASSUME NEW x \in DataPoint, NEW s \in Seq(DataPoint)
  PROVE  /\ <<x>> \o s \in Seq(DataPoint)
         /\ Points(<<x>> \o s) = {x} \cup Points(s)
         /\ InOrder(<<x>> \o s) <=> InOrder(s) /\ \A p \in Points(s) : x.time <= p.time
         /\ \A t : Count(<<x>> \o s, t) = IF x.time = t THEN Count(s, t) + 1 ELSE Count(s, t)
         /\ Points(s) \subseteq DataPoint
<1> DEFINE w == <<x>> \o s
<1>1. w \in Seq(DataPoint) /\ Len(w) = Len(s) + 1 /\ Len(s) \in Nat /\ <<x>> \in Seq(DataPoint)
  OBVIOUS
<1>2. w[1] = x /\ \A n \in 1..Len(s) : w[n + 1] = s[n]
  OBVIOUS
<1>3. \A t : Count(w, t) = Count(<<x>>, t) + Count(s, t)
  BY <1>1, CountJoinedLemma
<1> HIDE DEF w
<1>4. DOMAIN w = 1..(Len(s) + 1) /\ DOMAIN s = 1..Len(s)
  BY <1>1
<1>5. \A n \in DOMAIN s : n + 1 \in DOMAIN w /\ w[n + 1] = s[n]
  BY <1>1, <1>2, <1>4
<1>6. \A n \in DOMAIN w : n = 1 \/ (n - 1 \in DOMAIN s /\ w[n] = s[n - 1])
  <2> SUFFICES ASSUME NEW n \in DOMAIN w, n # 1
               PROVE  n - 1 \in DOMAIN s /\ w[n] = s[n - 1]
    OBVIOUS
  <2>1. n - 1 \in 1..Len(s) /\ (n - 1) + 1 = n
    BY <1>1, <1>4
  <2> QED
    BY <2>1, <1>2, <1>4
<1>7. 1 \in DOMAIN w
  BY <1>1, <1>4
<1>8. Points(w) = {x} \cup Points(s)
  <2>1. ASSUME NEW p \in Points(w) PROVE p \in {x} \cup Points(s)
    BY <1>2, <1>6 DEF Points
  <2>2. ASSUME NEW p \in Points(s) PROVE p \in Points(w)
    BY <1>5 DEF Points
  <2>3. x \in Points(w)
    BY <1>2, <1>7 DEF Points
  <2> QED
    BY <2>1, <2>2, <2>3
<1>9. \A n \in DOMAIN s : s[n] \in DataPoint
  OBVIOUS
<1>10. Points(s) \subseteq DataPoint
  BY <1>9 DEF Points
<1>11. InOrder(w) => InOrder(s) /\ \A p \in Points(s) : x.time <= p.time
  <2> SUFFICES ASSUME InOrder(w)
               PROVE  InOrder(s) /\ \A p \in Points(s) : x.time <= p.time
    OBVIOUS
  <2>1. ASSUME NEW m \in DOMAIN s, NEW n \in DOMAIN s, m <= n
        PROVE  s[m].time <= s[n].time
    <3>1. m + 1 <= n + 1
      BY <2>1, <1>4
    <3> QED
      BY <3>1, <1>5 DEF InOrder
  <2>2. ASSUME NEW n \in DOMAIN s PROVE x.time <= s[n].time
    <3>1. 1 <= n + 1
      BY <1>4
    <3> QED
      BY <3>1, <1>2, <1>5, <1>7 DEF InOrder
  <2> QED
    BY <2>1, <2>2 DEF InOrder, Points
<1>12. InOrder(s) /\ (\A p \in Points(s) : x.time <= p.time) => InOrder(w)
  <2> SUFFICES ASSUME InOrder(s), \A p \in Points(s) : x.time <= p.time,
                      NEW m \in DOMAIN w, NEW n \in DOMAIN w, m <= n
               PROVE  w[m].time <= w[n].time
    BY DEF InOrder
  <2>1. CASE m = 1 /\ n = 1
    BY <2>1, <1>2 DEF DataPoint
  <2>2. CASE m = 1 /\ n # 1
    BY <2>2, <1>2, <1>6 DEF Points
  <2>3. CASE m # 1
    <3>1. n # 1 /\ m - 1 <= n - 1
      BY <2>3, <1>1, <1>4
    <3> QED
      BY <2>3, <3>1, <1>6 DEF InOrder
  <2> QED
    BY <2>1, <2>2, <2>3
<1>13. \A t : Count(w, t) = IF x.time = t THEN Count(s, t) + 1 ELSE Count(s, t)
  BY <1>3, CountOneLemma, CountTypeLemma
<1> QED
  BY <1>1, <1>8, <1>10, <1>11, <1>12, <1>13 DEF w

LEMMA EmptyLemma ==
  /\ << >> \in Seq(DataPoint) /\ Points(<< >>) = {} /\ Times(<< >>) = {}
  /\ InOrder(<< >>) /\ Uniform(<< >>)
BY DEF Points, Times, InOrder, Uniform

\* A list is the merge of itself with the empty list.
LEMMA MergeNoneLemma ==
  ASSUME NEW a, NEW b, Mergeable(a, b)
  PROVE  /\ a = << >> => IsMerge(a, b, b)
         /\ b = << >> => IsMerge(a, b, a)
<1>1. /\ a \in Seq(DataPoint) /\ b \in Seq(DataPoint)
      /\ InOrder(a) /\ InOrder(b) /\ Uniform(a) /\ Uniform(b)
  BY DEF Mergeable
<1>2. \A p \in Points(a) \cup Points(b) : p.value \in Nat
  <2>1. (\A n \in DOMAIN a : a[n] \in DataPoint) /\ (\A n \in DOMAIN b : b[n] \in DataPoint)
    BY <1>1
  <2> QED
    BY <2>1 DEF Points, DataPoint
<1>3. CASE a = << >>
  <2>1. IsMerge(a, b, b)
    BY <1>1, <1>2, <1>3, EmptyLemma DEF IsMerge, Uniform
  <2>2. b = << >> => a = b
    BY <1>3
  <2> QED
    BY <2>1, <2>2
<1>4. CASE a # << >> /\ b = << >>
  <2>1. \A t : t \notin Times(a) => Count(a, t) = 0
    BY <1>1, CountTypeLemma
  <2>2. \A t : Count(b, t) = 0
    BY <1>4, CountNoneLemma
  <2> QED
    BY <1>1, <1>2, <1>4, <2>1, <2>2, EmptyLemma DEF IsMerge, Uniform
<1> QED
  BY <1>3, <1>4

\* The larger and the smaller of two numbers.
LEMMA MaxOfTwoLemma ==
  ASSUME NEW u \in Int, NEW v \in Int
  PROVE  /\ Max({u, v}) \in {u, v} /\ u <= Max({u, v}) /\ v <= Max({u, v})
         /\ Min({u, v}) \in {u, v} /\ Min({u, v}) <= u /\ Min({u, v}) <= v
<1>1. \E x \in {u, v} : \A y \in {u, v} : x >= y
  <2>1. CASE u >= v
    BY <2>1
  <2>2. CASE v >= u
    BY <2>2
  <2> QED
    BY <2>1, <2>2
<1>2. \E x \in {u, v} : \A y \in {u, v} : x <= y
  <2>1. CASE u >= v
    BY <2>1
  <2>2. CASE v >= u
    BY <2>2
  <2> QED
    BY <2>1, <2>2
<1>3. Max({u, v}) \in {u, v} /\ \A y \in {u, v} : Max({u, v}) >= y
  BY <1>1 DEF Max
<1>4. Min({u, v}) \in {u, v} /\ \A y \in {u, v} : Min({u, v}) <= y
  BY <1>2 DEF Min
<1> QED
  BY <1>3, <1>4

IsCons(a, x, as) ==
  /\ x \in DataPoint
  /\ as \in Seq(DataPoint)
  /\ a = <<x>> \o as

\* What a sorted, uniform list a tells of its head x and its tail as.
Heads(a, x, as) ==
  /\ x \in DataPoint /\ as \in Seq(DataPoint) /\ a \in Seq(DataPoint)
  /\ x.time \in Nat /\ x.value \in Nat
  /\ Points(a) = {x} \cup Points(as)
  /\ Times(a) = {x.time} \cup Times(as)
  /\ \A t : Count(a, t) = IF x.time = t THEN Count(as, t) + 1 ELSE Count(as, t)
  /\ InOrder(as) /\ Uniform(as)
  /\ \A p \in Points(a) : p.time \in Nat /\ p.value \in Nat /\ x.time <= p.time
  /\ \A p \in Points(a) : p.time = x.time => p = x

\* A list without its head, and what is known of the rest.
LEMMA HeadLemma ==
  ASSUME NEW a, NEW x, NEW as, IsCons(a, x, as), InOrder(a), Uniform(a)
  PROVE  Heads(a, x, as)
<1>1. x \in DataPoint /\ as \in Seq(DataPoint) /\ a = <<x>> \o as
  BY DEF IsCons
<1>2. /\ a \in Seq(DataPoint)
      /\ Points(a) = {x} \cup Points(as)
      /\ InOrder(as) /\ \A p \in Points(as) : x.time <= p.time
      /\ \A t : Count(a, t) = IF x.time = t THEN Count(as, t) + 1 ELSE Count(as, t)
      /\ Points(as) \subseteq DataPoint
  <2>1. InOrder(<<x>> \o as)
    BY <1>1
  <2>2. InOrder(as) /\ \A p \in Points(as) : x.time <= p.time
    BY <1>1, <2>1, ConsLemma
  <2>3. a \in Seq(DataPoint) /\ Points(a) = {x} \cup Points(as)
    BY <1>1, ConsLemma
  <2>4. \A t : Count(a, t) = IF x.time = t THEN Count(as, t) + 1 ELSE Count(as, t)
    BY <1>1, ConsLemma
  <2>5. Points(as) \subseteq DataPoint
    BY <1>1, ConsLemma
  <2> QED
    BY <1>1, <2>2, <2>3, <2>4, <2>5
<1>3. \A p \in DataPoint : p.time \in Nat /\ p.value \in Nat
  BY DEF DataPoint
<1>4. \A p \in Points(a) : p.time \in Nat /\ p.value \in Nat /\ x.time <= p.time
  <2>1. x \in DataPoint /\ x.time \in Nat /\ x.time <= x.time
    BY <1>1, <1>3
  <2>2. Points(a) \subseteq DataPoint
    BY <1>2, <2>1
  <2> QED
    BY <1>2, <1>3, <2>1, <2>2
<1>5. Uniform(as) /\ \A p \in Points(a) : p.time = x.time => p = x
  BY <1>2 DEF Uniform
<1>6. Times(a) = {x.time} \cup Times(as)
  BY <1>2, TimesLemma
<1> QED
  BY <1>1, <1>2, <1>3, <1>4, <1>5, <1>6 DEF Heads

LEMMA HeadsLemma ==
  ASSUME NEW a, NEW x, NEW as, IsCons(a, x, as), NEW b, NEW y, NEW bs, IsCons(b, y, bs),
         Mergeable(a, b)
  PROVE  Heads(a, x, as) /\ Heads(b, y, bs)
BY HeadLemma DEF Mergeable

\* Points before all others are put in front.
LEMMA OrderLemma ==
  ASSUME NEW x \in DataPoint, NEW s \in Seq(DataPoint), InOrder(s),
         \A p \in Points(s) : x.time <= p.time
  PROVE  InOrder(<<x>> \o s)
BY ConsLemma

\* Of two heads the earlier one goes first: that of a.
LEMMA MergeLeftLemma ==
  ASSUME NEW a, NEW x, NEW as, IsCons(a, x, as), NEW b, NEW y, NEW bs, IsCons(b, y, bs),
         Mergeable(a, b), x.time < y.time
  PROVE  /\ Mergeable(as, b)
         /\ \A merged : IsMerge(as, b, merged) => IsMerge(a, b, <<x>> \o merged)
<1>1. Heads(a, x, as) /\ Heads(b, y, bs)
  BY HeadsLemma
<1>2. \A p \in Points(b) : p.time \in Nat /\ x.time < p.time
  <2>1. x.time \in Nat /\ y.time \in Nat /\ \A p \in Points(b) : p.time \in Nat /\ y.time <= p.time
    BY <1>1 DEF Heads
  <2> QED
    BY <2>1
<1>3. x.time \notin Times(b)
  <2>1. x.time \in Nat
    BY <1>1 DEF Heads
  <2> QED
    BY <1>2, <2>1, TimesLemma
<1>4. \A t \in Times(as) \cap Times(b) : Count(as, t) = Count(b, t)
  <2>1. \A t \in Times(a) \cap Times(b) : Count(a, t) = Count(b, t)
    BY DEF Mergeable
  <2> QED
    BY <1>1, <1>3, <2>1 DEF Heads
<1>5. Mergeable(as, b)
  <2>1. as \in Seq(DataPoint) /\ InOrder(as) /\ Uniform(as)
    BY <1>1 DEF Heads
  <2> QED
    BY <1>4, <2>1 DEF Mergeable
<1>6. ASSUME NEW merged, IsMerge(as, b, merged) PROVE IsMerge(a, b, <<x>> \o merged)
  <2>1. /\ merged \in Seq(DataPoint) /\ InOrder(merged)
        /\ Points(merged) \subseteq Points(as) \cup Points(b)
    BY <1>6 DEF IsMerge
  <2>2. \A p \in Points(merged), q \in Points(as) \cup Points(b) :
          q.time = p.time => q.value <= p.value
    BY <1>6 DEF IsMerge
  <2>3. \A t : Count(merged, t) = IF t \in Times(as) THEN Count(as, t) ELSE Count(b, t)
    BY <1>6 DEF IsMerge
  <2>4. x \in DataPoint /\ x.time \in Nat /\ x.value \in Nat /\ Points(a) = {x} \cup Points(as)
    BY <1>1 DEF Heads
  <2>5. /\ <<x>> \o merged \in Seq(DataPoint)
        /\ Points(<<x>> \o merged) = {x} \cup Points(merged)
    BY <2>1, <2>4, ConsLemma
  <2>6. InOrder(<<x>> \o merged)
    <3>1. \A p \in Points(as) : x.time <= p.time
      BY <1>1 DEF Heads
    <3>2. \A p \in Points(b) : x.time <= p.time
      BY <1>2, <2>4
    <3>3. \A p \in Points(merged) : x.time <= p.time
      BY <2>1, <3>1, <3>2
    <3> QED
      BY <2>1, <2>4, <3>3, OrderLemma
  <2>7. Points(<<x>> \o merged) \subseteq Points(a) \cup Points(b)
    BY <2>1, <2>4, <2>5
  <2>8. ASSUME NEW p \in Points(<<x>> \o merged), NEW q \in Points(a) \cup Points(b),
               q.time = p.time
        PROVE  q.value <= p.value
    <3>1. p.time = x.time => p = x /\ q = x
      <4>1. \A r \in Points(a) \cup Points(b) : r.time = x.time => r = x
        <5>1. \A r \in Points(a) : r.time = x.time => r = x
          BY <1>1 DEF Heads
        <5>2. \A r \in Points(b) : r.time # x.time
          BY <1>2, <2>4
        <5> QED
          BY <5>1, <5>2
      <4> QED
        BY <2>7, <2>8, <4>1
    <3>2. CASE p.time = x.time
      BY <2>4, <3>1, <3>2
    <3>3. CASE p.time # x.time
      BY <2>2, <2>4, <2>5, <2>8, <3>3
    <3> QED
      BY <3>2, <3>3
  <2>9. ASSUME NEW t
        PROVE  Count(<<x>> \o merged, t) = IF t \in Times(a) THEN Count(a, t) ELSE Count(b, t)
    <3>1. Count(<<x>> \o merged, t) =
            IF x.time = t THEN Count(merged, t) + 1 ELSE Count(merged, t)
      BY <2>1, <2>4, ConsLemma
    <3>2. /\ Count(a, t) = IF x.time = t THEN Count(as, t) + 1 ELSE Count(as, t)
          /\ t \in Times(a) <=> t = x.time \/ t \in Times(as)
      BY <1>1 DEF Heads
    <3>3. t \notin Times(as) => Count(as, t) = 0
      BY <1>1, CountTypeLemma DEF Heads
    <3>4. t \notin Times(b) => Count(b, t) = 0
      BY <1>1, CountTypeLemma DEF Heads
    <3> QED
      BY <1>3, <2>3, <3>1, <3>2, <3>3, <3>4
  <2> QED
    BY <2>5, <2>6, <2>7, <2>8, <2>9 DEF IsMerge
<1> QED
  BY <1>5, <1>6

\* The same for the head of b.
LEMMA MergeRightLemma ==
  ASSUME NEW a, NEW x, NEW as, IsCons(a, x, as), NEW b, NEW y, NEW bs, IsCons(b, y, bs),
         Mergeable(a, b), y.time < x.time
  PROVE  /\ Mergeable(a, bs)
         /\ \A merged : IsMerge(a, bs, merged) => IsMerge(a, b, <<y>> \o merged)
<1>1. Mergeable(b, a)
  BY DEF Mergeable
<1>2. /\ Mergeable(bs, a)
      /\ \A merged : IsMerge(bs, a, merged) => IsMerge(b, a, <<y>> \o merged)
  BY <1>1, MergeLeftLemma
<1>3. ASSUME NEW u, NEW v, Mergeable(u, v), NEW merged, IsMerge(u, v, merged)
      PROVE  IsMerge(v, u, merged)
  <2>1. u \in Seq(DataPoint) /\ v \in Seq(DataPoint)
    BY <1>3 DEF Mergeable
  <2>2. \A t : Count(merged, t) = IF t \in Times(v) THEN Count(v, t) ELSE Count(u, t)
    <3> SUFFICES ASSUME NEW t
                 PROVE  Count(merged, t) = IF t \in Times(v) THEN Count(v, t) ELSE Count(u, t)
      OBVIOUS
    <3>1. Count(merged, t) = IF t \in Times(u) THEN Count(u, t) ELSE Count(v, t)
      BY <1>3 DEF IsMerge
    <3>2. t \in Times(u) /\ t \in Times(v) => Count(u, t) = Count(v, t)
      BY <1>3 DEF Mergeable
    <3>3. t \notin Times(u) => Count(u, t) = 0
      BY <2>1, CountTypeLemma
    <3>4. t \notin Times(v) => Count(v, t) = 0
      BY <2>1, CountTypeLemma
    <3> QED
      BY <3>1, <3>2, <3>3, <3>4
  <2> QED
    BY <1>3, <2>2 DEF IsMerge
<1>4. Mergeable(a, bs)
  BY <1>2 DEF Mergeable
<1> QED
  BY <1>1, <1>2, <1>3, <1>4

IsLarger(z, x, y) == z = [time |-> x.time, value |-> Max({x.value, y.value})]

\* Of two heads with the same time the larger value is kept.
LEMMA MergeBothLemma ==
  ASSUME NEW a, NEW x, NEW as, IsCons(a, x, as), NEW b, NEW y, NEW bs, IsCons(b, y, bs),
         Mergeable(a, b), x.time = y.time,
         NEW z, IsLarger(z, x, y)
  PROVE  /\ Mergeable(as, bs)
         /\ \A merged : IsMerge(as, bs, merged) => IsMerge(a, b, <<z>> \o merged)
<1>1. Heads(a, x, as) /\ Heads(b, y, bs)
  BY HeadsLemma
<1>2. /\ x \in DataPoint /\ x.time \in Nat /\ x.value \in Nat
      /\ y \in DataPoint /\ y.value \in Nat
      /\ as \in Seq(DataPoint) /\ bs \in Seq(DataPoint)
      /\ a \in Seq(DataPoint) /\ b \in Seq(DataPoint)
  BY <1>1 DEF Heads
<1>3. /\ Points(a) = {x} \cup Points(as) /\ Points(b) = {y} \cup Points(bs)
      /\ Times(a) = {x.time} \cup Times(as) /\ Times(b) = {x.time} \cup Times(bs)
  BY <1>1 DEF Heads
<1>4. z \in DataPoint /\ z \in {x, y} /\ z.time = x.time /\ x.value <= z.value /\ y.value <= z.value
  <2>0. x.value \in Int /\ y.value \in Int
    BY <1>2
  <2>1. Max({x.value, y.value}) \in {x.value, y.value}
    BY <2>0, MaxOfTwoLemma
  <2>2. x.value <= Max({x.value, y.value}) /\ y.value <= Max({x.value, y.value})
    BY <2>0, MaxOfTwoLemma
  <2>3. /\ z = [time |-> x.time, value |-> Max({x.value, y.value})]
        /\ z.time = x.time /\ z.value = Max({x.value, y.value})
    BY DEF IsLarger
  <2>4. x = [time |-> x.time, value |-> x.value] /\ y = [time |-> y.time, value |-> y.value]
    BY <1>2 DEF DataPoint
  <2>5. z \in {x, y}
    BY <2>1, <2>3, <2>4
  <2> QED
    BY <1>2, <2>2, <2>3, <2>5
<1>5. \A t : /\ Count(a, t) = IF x.time = t THEN Count(as, t) + 1 ELSE Count(as, t)
             /\ Count(b, t) = IF x.time = t THEN Count(bs, t) + 1 ELSE Count(bs, t)
  BY <1>1 DEF Heads
<1>6. \A t \in Times(a) \cap Times(b) : Count(a, t) = Count(b, t)
  BY DEF Mergeable
<1>7. \A t : /\ Count(as, t) \in Nat /\ (Count(as, t) = 0 <=> t \notin Times(as))
             /\ Count(bs, t) \in Nat /\ (Count(bs, t) = 0 <=> t \notin Times(bs))
  BY <1>2, CountTypeLemma
<1>8. Count(as, x.time) = Count(bs, x.time)
  <2>1. Count(a, x.time) = Count(b, x.time)
    BY <1>3, <1>6
  <2>2. Count(a, x.time) = Count(as, x.time) + 1 /\ Count(b, x.time) = Count(bs, x.time) + 1
    BY <1>5
  <2>3. Count(as, x.time) \in Nat /\ Count(bs, x.time) \in Nat
    BY <1>7
  <2>4. \A m, n \in Nat : m + 1 = n + 1 => m = n
    OBVIOUS
  <2> QED
    BY <2>1, <2>2, <2>3, <2>4, Zenon
<1>9. \A t \in Times(as) \cap Times(bs) : Count(as, t) = Count(bs, t)
  <2> SUFFICES ASSUME NEW t \in Times(as) \cap Times(bs), t # x.time
               PROVE  Count(as, t) = Count(bs, t)
    BY <1>8
  <2> QED
    BY <1>3, <1>5, <1>6
<1>10. Mergeable(as, bs)
  <2>1. InOrder(as) /\ Uniform(as) /\ InOrder(bs) /\ Uniform(bs)
    BY <1>1 DEF Heads
  <2> QED
    BY <1>2, <1>9, <2>1 DEF Mergeable
<1>11. ASSUME NEW merged, IsMerge(as, bs, merged) PROVE IsMerge(a, b, <<z>> \o merged)
  <2>1. /\ merged \in Seq(DataPoint) /\ InOrder(merged)
        /\ Points(merged) \subseteq Points(as) \cup Points(bs)
    BY <1>11 DEF IsMerge
  <2>2. \A p \in Points(merged), q \in Points(as) \cup Points(bs) :
          q.time = p.time => q.value <= p.value
    BY <1>11 DEF IsMerge
  <2>3. \A t : Count(merged, t) = IF t \in Times(as) THEN Count(as, t) ELSE Count(bs, t)
    BY <1>11 DEF IsMerge
  <2>4. /\ <<z>> \o merged \in Seq(DataPoint)
        /\ Points(<<z>> \o merged) = {z} \cup Points(merged)
    BY <1>4, <2>1, ConsLemma
  <2>5. InOrder(<<z>> \o merged)
    <3>1. \A p \in Points(as) : x.time <= p.time
      BY <1>1 DEF Heads
    <3>2. \A p \in Points(bs) : x.time <= p.time
      BY <1>1 DEF Heads
    <3>3. \A p \in Points(merged) : z.time <= p.time
      BY <1>4, <2>1, <3>1, <3>2
    <3> QED
      BY <1>4, <2>1, <3>3, OrderLemma
  <2>6. Points(<<z>> \o merged) \subseteq Points(a) \cup Points(b)
    BY <1>3, <1>4, <2>1, <2>4
  <2>7. /\ \A r \in Points(a) : r.time = x.time => r = x
        /\ \A r \in Points(b) : r.time = x.time => r = y
    BY <1>1 DEF Heads
  <2>8. ASSUME NEW p \in Points(<<z>> \o merged), NEW q \in Points(a) \cup Points(b),
               q.time = p.time
        PROVE  q.value <= p.value
    <3>1. CASE p = z
      BY <1>4, <2>7, <2>8, <3>1
    <3>2. CASE p \in Points(merged) /\ p.time = x.time
      <4>1. x.time \in Times(as) \/ x.time \in Times(bs)
        BY <2>1, <3>2, TimesLemma
      <4>2. x.time \in Times(as) /\ x.time \in Times(bs)
        BY <1>7, <1>8, <4>1
      <4>3. x \in Points(as) /\ y \in Points(bs)
        BY <1>3, <2>7, <4>2, TimesLemma
      <4>4. q \in {x, y}
        BY <2>7, <2>8, <3>2
      <4> QED
        BY <2>2, <2>8, <3>2, <4>3, <4>4
    <3>3. CASE p \in Points(merged) /\ p.time # x.time
      <4>1. q \in Points(as) \cup Points(bs)
        BY <1>3, <2>8, <3>3
      <4> QED
        BY <2>2, <2>8, <3>3, <4>1
    <3> QED
      BY <2>4, <3>1, <3>2, <3>3
  <2>9. ASSUME NEW t
        PROVE  Count(<<z>> \o merged, t) = IF t \in Times(a) THEN Count(a, t) ELSE Count(b, t)
    <3>1. Count(<<z>> \o merged, t) =
            IF x.time = t THEN Count(merged, t) + 1 ELSE Count(merged, t)
      <4>1. Count(<<z>> \o merged, t) =
              IF z.time = t THEN Count(merged, t) + 1 ELSE Count(merged, t)
        <5>1. z \in DataPoint /\ merged \in Seq(DataPoint)
          BY <1>4, <2>1
        <5> QED
          BY <5>1, ConsLemma
      <4>2. z.time = x.time
        BY <1>4
      <4> QED
        BY <4>1, <4>2
    <3>2. CASE t = x.time
      BY <1>3, <1>5, <1>8, <2>3, <3>1, <3>2
    <3>3. CASE t # x.time
      BY <1>3, <1>5, <2>3, <3>1, <3>3
    <3> QED
      BY <3>2, <3>3
  <2> QED
    BY <2>4, <2>5, <2>6, <2>8, <2>9 DEF IsMerge
<1> QED
  BY <1>10, <1>11

LEMMA TailsLemma ==
  ASSUME NEW a, NEW x, NEW as, IsCons(a, x, as), NEW b, NEW y, NEW bs, IsCons(b, y, bs),
         Mergeable(a, b), x.time = y.time
  PROVE  Mergeable(as, bs)
<1>1. PICK z : IsLarger(z, x, y)
  BY DEF IsLarger
<1> QED
  BY <1>1, MergeBothLemma

\* A list from its n-th point on is that point and the list from the next one on.
LEMMA SuffixLemma ==
  ASSUME NEW s \in Seq(DataPoint), NEW n \in 1..(Len(s) + 1)
  PROVE  /\ SubSeq(s, n, Len(s)) \in Seq(DataPoint)
         /\ n > Len(s) => SubSeq(s, n, Len(s)) = << >>
         /\ n <= Len(s) =>
              IsCons(SubSeq(s, n, Len(s)), s[n], SubSeq(s, n + 1, Len(s)))
<1>1. SubSeq(s, n, Len(s)) \in Seq(DataPoint)
  OBVIOUS
<1>2. n > Len(s) => SubSeq(s, n, Len(s)) = << >>
  OBVIOUS
<1>3. ASSUME n <= Len(s)
      PROVE  /\ s[n] \in DataPoint /\ SubSeq(s, n + 1, Len(s)) \in Seq(DataPoint)
             /\ SubSeq(s, n, Len(s)) = <<s[n]>> \o SubSeq(s, n + 1, Len(s))
  BY <1>3
<1> QED
  BY <1>1, <1>2, <1>3 DEF IsCons

\* aggregateMetrics merges two lists whose shared times occur equally often in both, by
\* induction over what is left of the two.
LEMMA AggregateLemma ==
  ASSUME NEW a \in Seq(DataPoint), NEW b \in Seq(DataPoint)
  PROVE  /\ aggregateMetrics(a, b) \in Seq(DataPoint)
         /\ Mergeable(a, b) => IsMerge(a, b, aggregateMetrics(a, b))
<1> DEFINE S == (1..(Len(a) + 1)) \X (1..(Len(b) + 1))
           Larger(i, j) == [time |-> a[i].time, value |-> Max({a[i].value, b[j].value})]
           Body(g) ==
             [index \in S |->
                LET i == index[1]
                    j == index[2]
                IN  IF i > Len(a) THEN SubSeq(b, j, Len(b))
                    ELSE IF j > Len(b) THEN SubSeq(a, i, Len(a))
                    ELSE IF a[i].time < b[j].time THEN <<a[i]>> \o g[<<i + 1, j>>]
                    ELSE IF b[j].time < a[i].time THEN <<b[j]>> \o g[<<i, j + 1>>]
                    ELSE <<Larger(i, j)>> \o g[<<i + 1, j + 1>>]]
           f == CHOOSE f : f = Body(f)
           m == [index \in S |-> (Len(a) + 1 - index[1]) + (Len(b) + 1 - index[2])]
           N == Len(a) + Len(b)
           G == [g \in [S -> Seq(DataPoint)] |-> Body(g)]
<1>1. aggregateMetrics(a, b) = f[<<1, 1>>]
  BY DEF aggregateMetrics
<1>2. /\ a \in Seq(DataPoint) /\ b \in Seq(DataPoint)
      /\ Len(a) \in Nat /\ Len(b) \in Nat
  OBVIOUS
<1>3. ASSUME NEW i \in 1..Len(a), NEW j \in 1..Len(b)
      PROVE  /\ a[i] \in DataPoint /\ b[j] \in DataPoint
             /\ Larger(i, j) \in DataPoint
             /\ IsLarger(Larger(i, j), a[i], b[j])
  <2>1. a[i] \in DataPoint /\ b[j] \in DataPoint
    BY <1>2
  <2>2. a[i].time \in Nat /\ a[i].value \in Int /\ b[j].value \in Int
        /\ a[i].value \in Nat /\ b[j].value \in Nat
    BY <2>1 DEF DataPoint
  <2>3. Max({a[i].value, b[j].value}) \in {a[i].value, b[j].value}
    BY <2>2, MaxOfTwoLemma
  <2>4. Max({a[i].value, b[j].value}) \in Nat
    BY <2>2, <2>3
  <2> QED
    BY <2>1, <2>2, <2>4 DEF IsLarger, DataPoint
<1>4. \A i, j : <<i, j>> \in S <=> i \in 1..(Len(a) + 1) /\ j \in 1..(Len(b) + 1)
  OBVIOUS
<1>5. ASSUME NEW g, NEW i \in 1..(Len(a) + 1), NEW j \in 1..(Len(b) + 1)
      PROVE  Body(g)[<<i, j>>] =
               IF i > Len(a) THEN SubSeq(b, j, Len(b))
               ELSE IF j > Len(b) THEN SubSeq(a, i, Len(a))
               ELSE IF a[i].time < b[j].time THEN <<a[i]>> \o g[<<i + 1, j>>]
               ELSE IF b[j].time < a[i].time THEN <<b[j]>> \o g[<<i, j + 1>>]
               ELSE <<Larger(i, j)>> \o g[<<i + 1, j + 1>>]
  <2>1. <<i, j>> \in S
    OBVIOUS
  <2> QED
    BY <2>1
<1>6. ASSUME NEW g \in [S -> Seq(DataPoint)] PROVE Body(g) \in [S -> Seq(DataPoint)]
  <2>1. ASSUME NEW index \in S PROVE Body(g)[index] \in Seq(DataPoint)
    <3>1. PICK i \in 1..(Len(a) + 1), j \in 1..(Len(b) + 1) : index = <<i, j>>
      OBVIOUS
    <3> HIDE DEF Larger, Body, S
    <3>2. CASE i > Len(a)
      BY <1>2, <1>5, <3>1, <3>2, SuffixLemma
    <3>3. CASE i <= Len(a) /\ j > Len(b)
      <4>1. Body(g)[<<i, j>>] = SubSeq(a, i, Len(a))
        <5>1. ~(i > Len(a)) /\ j > Len(b)
          BY <1>2, <3>3
        <5> QED
          BY <1>5, <5>1
      <4> QED
        BY <1>2, <4>1, <3>1, SuffixLemma
    <3>4. CASE i <= Len(a) /\ j <= Len(b)
      <4>1. i \in 1..Len(a) /\ j \in 1..Len(b)
        BY <1>2, <3>4
      <4>2. <<i + 1, j>> \in S /\ <<i, j + 1>> \in S /\ <<i + 1, j + 1>> \in S
        <5>1. i + 1 \in 1..(Len(a) + 1) /\ j + 1 \in 1..(Len(b) + 1)
          BY <1>2, <4>1
        <5> QED
          BY <1>4, <5>1
      <4>3. /\ g[<<i + 1, j>>] \in Seq(DataPoint) /\ g[<<i, j + 1>>] \in Seq(DataPoint)
            /\ g[<<i + 1, j + 1>>] \in Seq(DataPoint)
        BY <4>2
      <4>4. /\ <<a[i]>> \o g[<<i + 1, j>>] \in Seq(DataPoint)
            /\ <<b[j]>> \o g[<<i, j + 1>>] \in Seq(DataPoint)
            /\ <<Larger(i, j)>> \o g[<<i + 1, j + 1>>] \in Seq(DataPoint)
        BY <1>3, <4>1, <4>3, ConsLemma
      <4>5. Body(g)[<<i, j>>] \in {<<a[i]>> \o g[<<i + 1, j>>], <<b[j]>> \o g[<<i, j + 1>>],
                                    <<Larger(i, j)>> \o g[<<i + 1, j + 1>>]}
        <5>1. ~(i > Len(a)) /\ ~(j > Len(b))
          BY <1>2, <4>1
        <5> QED
          BY <1>5, <5>1
      <4> QED
        BY <3>1, <4>4, <4>5
    <3> QED
      BY <1>2, <3>2, <3>3, <3>4
  <2> QED
    BY <2>1
<1>7. ASSUME NEW g \in [S -> Seq(DataPoint)], NEW h \in [S -> Seq(DataPoint)], NEW index \in S,
             \A y \in S : m[y] < m[index] => g[y] = h[y]
      PROVE  Body(g)[index] = Body(h)[index]
  <2>1. PICK i \in 1..(Len(a) + 1), j \in 1..(Len(b) + 1) : index = <<i, j>>
    OBVIOUS
  <2>2. \A k \in 1..(Len(a) + 1), l \in 1..(Len(b) + 1) :
          m[<<k, l>>] = (Len(a) + 1 - k) + (Len(b) + 1 - l)
    OBVIOUS
  <2> HIDE DEF Larger, Body, S, m
  <2>3. CASE i > Len(a)
    BY <1>5, <2>1, <2>3
  <2>4. CASE j > Len(b) /\ i <= Len(a)
    <3>1. ~(i > Len(a))
      BY <1>2, <2>4
    <3> QED
      BY <1>5, <2>1, <2>4, <3>1
  <2>5. CASE i <= Len(a) /\ j <= Len(b)
    <3>1. i \in 1..Len(a) /\ j \in 1..Len(b)
      BY <1>2, <2>5
    <3>2. <<i + 1, j>> \in S /\ <<i, j + 1>> \in S /\ <<i + 1, j + 1>> \in S
      <4>1. i + 1 \in 1..(Len(a) + 1) /\ j + 1 \in 1..(Len(b) + 1)
        BY <1>2, <3>1
      <4> QED
        BY <1>4, <4>1
    <3>3. /\ m[<<i + 1, j>>] < m[<<i, j>>] /\ m[<<i, j + 1>>] < m[<<i, j>>]
          /\ m[<<i + 1, j + 1>>] < m[<<i, j>>]
      <4>1. i + 1 \in 1..(Len(a) + 1) /\ j + 1 \in 1..(Len(b) + 1)
        BY <1>2, <3>1
      <4>2. /\ m[<<i, j>>] = (Len(a) + 1 - i) + (Len(b) + 1 - j)
            /\ m[<<i + 1, j>>] = (Len(a) + 1 - (i + 1)) + (Len(b) + 1 - j)
            /\ m[<<i, j + 1>>] = (Len(a) + 1 - i) + (Len(b) + 1 - (j + 1))
            /\ m[<<i + 1, j + 1>>] = (Len(a) + 1 - (i + 1)) + (Len(b) + 1 - (j + 1))
        BY <2>2, <4>1
      <4> QED
        BY <1>2, <4>2
    <3>4. /\ g[<<i + 1, j>>] = h[<<i + 1, j>>] /\ g[<<i, j + 1>>] = h[<<i, j + 1>>]
          /\ g[<<i + 1, j + 1>>] = h[<<i + 1, j + 1>>]
      BY <1>7, <2>1, <3>2, <3>3
    <3>5. \A k \in {g, h} :
            Body(k)[<<i, j>>] =
              IF i > Len(a) THEN SubSeq(b, j, Len(b))
              ELSE IF j > Len(b) THEN SubSeq(a, i, Len(a))
              ELSE IF a[i].time < b[j].time THEN <<a[i]>> \o k[<<i + 1, j>>]
              ELSE IF b[j].time < a[i].time THEN <<b[j]>> \o k[<<i, j + 1>>]
              ELSE <<Larger(i, j)>> \o k[<<i + 1, j + 1>>]
      BY <1>5
    <3> QED
      BY <2>1, <3>4, <3>5, Zenon
  <2> QED
    BY <1>2, <2>3, <2>4, <2>5
<1>8. f = Body(f)
  <2>1. G \in [[S -> Seq(DataPoint)] -> [S -> Seq(DataPoint)]]
    BY <1>6
  <2>2. \A g, h \in [S -> Seq(DataPoint)], index \in S :
          (\A y \in S : m[y] < m[index] => g[y] = h[y]) => G[g][index] = G[h][index]
    <3> HIDE DEF Body, S, m
    <3> SUFFICES ASSUME NEW g \in [S -> Seq(DataPoint)], NEW h \in [S -> Seq(DataPoint)],
                        NEW index \in S,
                        \A y \in S : m[y] < m[index] => g[y] = h[y]
                 PROVE  G[g][index] = G[h][index]
      BY Zenon
    <3>1. G[g] = Body(g) /\ G[h] = Body(h)
      OBVIOUS
    <3>2. Body(g)[index] = Body(h)[index]
      BY <1>7
    <3> QED
      BY <3>1, <3>2
  <2>3. m \in [S -> Nat] /\ N \in Nat /\ \A index \in S : m[index] <= N
    BY <1>2
  <2>4. [S -> Seq(DataPoint)] # {}
    <3>1. [index \in S |-> << >>] \in [S -> Seq(DataPoint)]
      OBVIOUS
    <3> QED
      BY <3>1
  <2>5. PICK g \in [S -> Seq(DataPoint)] : g = G[g]
    <3> HIDE DEF S, m, G, N
    <3>1. IsRecursion(G, S, Seq(DataPoint), m, N)
      BY <2>1, <2>2, <2>3, <2>4 DEF IsRecursion
    <3> QED
      BY <3>1, RecursionLemma
  <2>6. g = Body(g)
    BY <2>5
  <2> HIDE DEF Body
  <2> QED
    BY <2>6
<1>9. ASSUME NEW i \in 1..(Len(a) + 1), NEW j \in 1..(Len(b) + 1)
      PROVE  f[<<i, j>>] =
               IF i > Len(a) THEN SubSeq(b, j, Len(b))
               ELSE IF j > Len(b) THEN SubSeq(a, i, Len(a))
               ELSE IF a[i].time < b[j].time THEN <<a[i]>> \o f[<<i + 1, j>>]
               ELSE IF b[j].time < a[i].time THEN <<b[j]>> \o f[<<i, j + 1>>]
               ELSE <<Larger(i, j)>> \o f[<<i + 1, j + 1>>]
  <2> HIDE DEF f, Body, Larger
  <2>1. Body(f)[<<i, j>>] = f[<<i, j>>]
    BY <1>8
  <2> QED
    BY <1>5, <2>1
<1> HIDE DEF f, Body, S, m, G, N, Larger
<1> DEFINE A(i) == SubSeq(a, i, Len(a))
           B(j) == SubSeq(b, j, Len(b))
           Right(i, j) ==
             /\ f[<<i, j>>] \in Seq(DataPoint)
             /\ Mergeable(A(i), B(j)) => IsMerge(A(i), B(j), f[<<i, j>>])
           T == {k \in Nat : \A i \in 1..(Len(a) + 1), j \in 1..(Len(b) + 1) :
                   (Len(a) + 1 - i) + (Len(b) + 1 - j) <= k => Right(i, j)}
<1>10. ASSUME NEW i \in 1..(Len(a) + 1), NEW j \in 1..(Len(b) + 1),
              i > Len(a) \/ j > Len(b)
       PROVE  Right(i, j)
  <2>1. (i > Len(a) => A(i) = << >>) /\ (j > Len(b) => B(j) = << >>)
    BY <1>2, SuffixLemma
  <2>2. i > Len(a) => f[<<i, j>>] = B(j)
    BY <1>9
  <2>3. ~(i > Len(a)) => f[<<i, j>>] = A(i)
    BY <1>9, <1>10
  <2>4. A(i) \in Seq(DataPoint) /\ B(j) \in Seq(DataPoint)
    BY <1>2, SuffixLemma
  <2> HIDE DEF A, B
  <2> QED
    BY <1>10, <2>1, <2>2, <2>3, <2>4, MergeNoneLemma
<1>11. ASSUME NEW i \in 1..Len(a), NEW j \in 1..Len(b),
              Right(i + 1, j), Right(i, j + 1), Right(i + 1, j + 1)
       PROVE  Right(i, j)
  <2>1. /\ i \in 1..(Len(a) + 1) /\ ~(i > Len(a)) /\ i <= Len(a)
        /\ j \in 1..(Len(b) + 1) /\ ~(j > Len(b)) /\ j <= Len(b)
    BY <1>2
  <2>2. f[<<i, j>>] = IF a[i].time < b[j].time THEN <<a[i]>> \o f[<<i + 1, j>>]
                      ELSE IF b[j].time < a[i].time THEN <<b[j]>> \o f[<<i, j + 1>>]
                      ELSE <<Larger(i, j)>> \o f[<<i + 1, j + 1>>]
    BY <1>9, <2>1
  <2>3. IsCons(A(i), a[i], A(i + 1)) /\ IsCons(B(j), b[j], B(j + 1))
    BY <1>2, <2>1, SuffixLemma
  <2>4. IsLarger(Larger(i, j), a[i], b[j])
    BY <1>3
  <2>5. a[i].time \in Nat /\ b[j].time \in Nat
    BY <1>3 DEF DataPoint
  <2> HIDE DEF A, B
  <2>9. f[<<i, j>>] \in Seq(DataPoint)
    <3>1. a[i] \in DataPoint /\ b[j] \in DataPoint /\ Larger(i, j) \in DataPoint
      BY <1>3
    <3>2. /\ <<a[i]>> \o f[<<i + 1, j>>] \in Seq(DataPoint)
          /\ <<b[j]>> \o f[<<i, j + 1>>] \in Seq(DataPoint)
          /\ <<Larger(i, j)>> \o f[<<i + 1, j + 1>>] \in Seq(DataPoint)
      BY <1>11, <3>1, ConsLemma
    <3> QED
      BY <2>2, <3>2
  <2> SUFFICES ASSUME Mergeable(A(i), B(j))
               PROVE  IsMerge(A(i), B(j), f[<<i, j>>])
    BY <2>9
  <2>6. CASE a[i].time < b[j].time
    <3>1. Mergeable(A(i + 1), B(j))
      BY <2>3, <2>6, MergeLeftLemma
    <3>2. IsMerge(A(i + 1), B(j), f[<<i + 1, j>>])
      BY <1>11, <3>1
    <3>3. IsMerge(A(i), B(j), <<a[i]>> \o f[<<i + 1, j>>])
      BY <2>3, <2>6, <3>2, MergeLeftLemma
    <3> QED
      BY <2>2, <2>6, <3>3
  <2>7. CASE b[j].time < a[i].time
    <3>1. Mergeable(A(i), B(j + 1))
      BY <2>3, <2>7, MergeRightLemma
    <3>2. IsMerge(A(i), B(j + 1), f[<<i, j + 1>>])
      BY <1>11, <3>1
    <3>3. IsMerge(A(i), B(j), <<b[j]>> \o f[<<i, j + 1>>])
      BY <2>3, <2>7, <3>2, MergeRightLemma
    <3>4. ~(a[i].time < b[j].time)
      BY <2>5, <2>7
    <3> QED
      BY <2>2, <2>7, <3>3, <3>4
  <2>8. CASE a[i].time = b[j].time
    <3>1. Mergeable(A(i + 1), B(j + 1))
      BY <2>3, <2>8, TailsLemma
    <3>2. IsMerge(A(i + 1), B(j + 1), f[<<i + 1, j + 1>>])
      BY <1>11, <3>1
    <3>3. IsMerge(A(i), B(j), <<Larger(i, j)>> \o f[<<i + 1, j + 1>>])
      BY <2>3, <2>4, <2>8, <3>2, MergeBothLemma
    <3>4. ~(a[i].time < b[j].time) /\ ~(b[j].time < a[i].time)
      BY <2>5, <2>8
    <3> QED
      BY <2>2, <3>3, <3>4
  <2> QED
    BY <2>5, <2>6, <2>7, <2>8
<1> HIDE DEF Right
<1>12. 0 \in T
  <2> SUFFICES ASSUME NEW i \in 1..(Len(a) + 1), NEW j \in 1..(Len(b) + 1),
                      (Len(a) + 1 - i) + (Len(b) + 1 - j) <= 0
               PROVE  Right(i, j)
    OBVIOUS
  <2>1. i > Len(a)
    BY <1>2
  <2> QED
    BY <1>10, <2>1
<1>13. ASSUME NEW k \in Nat, k \in T PROVE k + 1 \in T
  <2> SUFFICES ASSUME NEW i \in 1..(Len(a) + 1), NEW j \in 1..(Len(b) + 1),
                      (Len(a) + 1 - i) + (Len(b) + 1 - j) <= k + 1
               PROVE  Right(i, j)
    OBVIOUS
  <2>1. CASE i > Len(a) \/ j > Len(b)
    BY <1>10, <2>1
  <2>2. CASE i <= Len(a) /\ j <= Len(b)
    <3>1. /\ i \in 1..Len(a) /\ j \in 1..Len(b)
          /\ i + 1 \in 1..(Len(a) + 1) /\ j + 1 \in 1..(Len(b) + 1)
          /\ (Len(a) + 1 - (i + 1)) + (Len(b) + 1 - j) <= k
          /\ (Len(a) + 1 - i) + (Len(b) + 1 - (j + 1)) <= k
          /\ (Len(a) + 1 - (i + 1)) + (Len(b) + 1 - (j + 1)) <= k
      BY <1>2, <2>2
    <3>2. \A p \in 1..(Len(a) + 1), q \in 1..(Len(b) + 1) :
            (Len(a) + 1 - p) + (Len(b) + 1 - q) <= k => Right(p, q)
      BY <1>13
    <3> HIDE DEF T
    <3>3. Right(i + 1, j) /\ Right(i, j + 1) /\ Right(i + 1, j + 1)
      BY <3>1, <3>2
    <3> QED
      BY <1>11, <3>1, <3>3
  <2> QED
    BY <1>2, <2>1, <2>2
<1>14. Right(1, 1)
  <2> HIDE DEF T
  <2>1. Len(a) + Len(b) \in T
    BY <1>2, <1>12, <1>13, InductionLemma
  <2>2. /\ 1 \in 1..(Len(a) + 1) /\ 1 \in 1..(Len(b) + 1)
        /\ (Len(a) + 1 - 1) + (Len(b) + 1 - 1) <= Len(a) + Len(b)
    BY <1>2
  <2> QED
    BY <2>1, <2>2 DEF T
<1>15. A(1) = a /\ B(1) = b
  BY <1>2
<1> QED
  BY <1>1, <1>14, <1>15 DEF Right

--------------------------------------------------------------------------------
(***************************************************************************)
(* One instance: its splits' points, in one list and sorted.               *)
(***************************************************************************)
\* The points are points of the series s.
IsOf(points, s) ==
  /\ points \in Seq(DataPoint)
  /\ \A p \in Points(points) : p.time \in DOMAIN s /\ p.value = s[p.time]

\* The points of a concatenation.
LEMMA PointsJoinedLemma ==
  ASSUME NEW s \in Seq(DataPoint), NEW u \in Seq(DataPoint)
  PROVE  /\ s \o u \in Seq(DataPoint)
         /\ Points(s \o u) = Points(s) \cup Points(u)
<1> DEFINE w == s \o u
<1>1. w \in Seq(DataPoint) /\ Len(w) = Len(s) + Len(u) /\ Len(s) \in Nat /\ Len(u) \in Nat
  OBVIOUS
<1>2. /\ \A n \in 1..Len(s) : w[n] = s[n]
      /\ \A n \in 1..Len(u) : w[n + Len(s)] = u[n]
  OBVIOUS
<1>3. DOMAIN w = 1..(Len(s) + Len(u)) /\ DOMAIN s = 1..Len(s) /\ DOMAIN u = 1..Len(u)
  OBVIOUS
<1> HIDE DEF w
<1>4. ASSUME NEW n \in DOMAIN w PROVE w[n] \in Points(s) \cup Points(u)
  <2>1. CASE n <= Len(s)
    BY <1>1, <1>2, <1>3, <2>1 DEF Points
  <2>2. CASE n > Len(s)
    <3>1. n - Len(s) \in 1..Len(u) /\ (n - Len(s)) + Len(s) = n
      BY <1>1, <1>3, <2>2
    <3>2. w[n] = u[n - Len(s)]
      BY <1>2, <3>1
    <3> QED
      BY <1>3, <3>1, <3>2 DEF Points
  <2> QED
    BY <1>1, <1>3, <2>1, <2>2
<1>5. ASSUME NEW n \in DOMAIN s PROVE s[n] \in Points(w)
  <2>1. n \in DOMAIN w /\ w[n] = s[n]
    BY <1>1, <1>2, <1>3
  <2> QED
    BY <2>1 DEF Points
<1>6. ASSUME NEW n \in DOMAIN u PROVE u[n] \in Points(w)
  <2>1. n + Len(s) \in DOMAIN w /\ w[n + Len(s)] = u[n]
    BY <1>1, <1>2, <1>3
  <2> QED
    BY <2>1 DEF Points
<1>7. Points(w) = Points(s) \cup Points(u)
  BY <1>4, <1>5, <1>6 DEF Points
<1> QED
  BY <1>1, <1>7 DEF w

\* The sort by time keeps the points.
LEMMA SortedLemma ==
  ASSUME NEW s \in Seq(DataPoint)
  PROVE  /\ Sorted(s) \in Seq(DataPoint)
         /\ InOrder(Sorted(s))
         /\ Points(Sorted(s)) = Points(s)
         /\ \A t : Count(Sorted(s), t) = Count(s, t)
<1> DEFINE key == [n \in DOMAIN s |-> s[n].time]
           w == Sorted(s)
<1>1. DOMAIN s = 1..Len(s) /\ Len(s) \in Nat /\ \A n \in DOMAIN s : s[n] \in DataPoint
  OBVIOUS
<1>2. key \in [1..Len(s) -> Int]
  BY <1>1 DEF DataPoint
<1>3. \A n \in DOMAIN s : key[n] = s[n].time
  OBVIOUS
<1>4. w = SliceStable(s, key)
  BY DEF Sorted
<1> HIDE DEF key, w
<1>5. w \in Seq(DataPoint) /\ Len(w) = Len(s)
  BY <1>2, <1>4, SliceStableLemma
<1>a. PICK p : SortedBy(w, s, key, p)
  BY <1>2, <1>4, SliceStableLemma
<1>6. /\ p \in [1..Len(s) -> 1..Len(s)]
      /\ \A i, j \in 1..Len(s) : p[i] = p[j] => i = j
      /\ \A n \in 1..Len(s) : \E i \in 1..Len(s) : p[i] = n
      /\ \A i, j \in 1..Len(s) : i <= j => key[p[i]] <= key[p[j]]
      /\ \A i \in 1..Len(s) : w[i] = s[p[i]]
  BY <1>a DEF SortedBy
<1>7. DOMAIN w = 1..Len(s)
  BY <1>5
<1>8. \A i \in 1..Len(s) : w[i].time = key[p[i]]
  BY <1>1, <1>3, <1>6
<1>9. InOrder(w)
  <2> SUFFICES ASSUME NEW m \in 1..Len(s), NEW n \in 1..Len(s), m <= n
               PROVE  w[m].time <= w[n].time
    BY <1>7 DEF InOrder
  <2>1. key[p[m]] <= key[p[n]]
    BY <1>6
  <2> QED
    BY <1>8, <2>1
<1>10. Points(w) = Points(s)
  <2>1. ASSUME NEW i \in DOMAIN w PROVE w[i] \in Points(s)
    BY <1>1, <1>6, <1>7 DEF Points
  <2>2. ASSUME NEW n \in DOMAIN s PROVE s[n] \in Points(w)
    <3>1. PICK i \in 1..Len(s) : p[i] = n
      BY <1>1, <1>6
    <3> QED
      BY <1>6, <1>7, <3>1 DEF Points
  <2> QED
    BY <2>1, <2>2 DEF Points
<1>11. ASSUME NEW t PROVE Count(w, t) = Count(s, t)
  <2> DEFINE f == [i \in Found(w, t) |-> p[i]]
  <2>1. \A i \in Found(w, t) : i \in 1..Len(s) /\ p[i] \in Found(s, t)
    BY <1>1, <1>6, <1>7 DEF Found
  <2>2. f \in [Found(w, t) -> Found(s, t)]
    BY <2>1
  <2>3. \A i, j \in Found(w, t) : f[i] = f[j] => i = j
    BY <1>6, <2>1
  <2>4. \A n \in Found(s, t) : \E i \in Found(w, t) : f[i] = n
    <3> SUFFICES ASSUME NEW n \in Found(s, t) PROVE \E i \in Found(w, t) : f[i] = n
      OBVIOUS
    <3>1. n \in 1..Len(s) /\ s[n].time = t
      BY <1>1 DEF Found
    <3>2. PICK i \in 1..Len(s) : p[i] = n
      BY <1>6, <3>1
    <3>3. i \in Found(w, t)
      BY <1>6, <1>7, <3>1, <3>2 DEF Found
    <3> QED
      BY <3>2, <3>3
  <2> HIDE DEF f
  <2>5. IsFiniteSet(Found(w, t))
    BY <1>5, CountTypeLemma
  <2> QED
    BY <2>2, <2>3, <2>4, <2>5, SameSizeLemma DEF Count
<1> QED
  BY <1>5, <1>9, <1>10, <1>11 DEF w

\* The times of a range that have a point in the series.
Held(s, range) == Asked(range) \cap DOMAIN s

IsSeries(s) ==
  /\ DOMAIN s \subseteq 0..Window
  /\ \A t \in DOMAIN s : s[t] \in Nat

\* A query of a range returns every point that the series has there, once.
LEMMA QueryRangeLemma ==
  ASSUME NEW s, IsSeries(s), NEW range
  PROVE  /\ IsOf(QueryRange(s, range), s)
         /\ \A t : Count(QueryRange(s, range), t) = IF t \in Held(s, range) THEN 1 ELSE 0
<1> DEFINE times == Held(s, range)
           N == Cardinality(times)
           Before(t) == {u \in times : u <= t}
           c == [t \in times |-> Cardinality(Before(t))]
           Nth(n) == CHOOSE t \in times : Cardinality({u \in times : u <= t}) = n
           q == QueryRange(s, range)
<1>1. times \subseteq 0..Window /\ times \subseteq DOMAIN s /\ times \subseteq Nat
  BY DEF Held, IsSeries
<1>2. IsFiniteSet(times) /\ N \in Nat
  <2>1. Window \in Int
    BY ScraperAssumption
  <2>2. IsFiniteSet(0..Window)
    BY <2>1, FS_Interval
  <2> QED
    BY <1>1, <2>2, FS_Subset, FS_CardinalityType
<1>3. q = [n \in 1..N |-> [time |-> Nth(n), value |-> s[Nth(n)]]]
  BY DEF QueryRange, Held
<1> HIDE DEF times, q
<1>4. \A t \in times : /\ t \in Before(t) /\ Before(t) \in SUBSET times /\ IsFiniteSet(Before(t))
                       /\ c[t] \in 1..N
  <2> SUFFICES ASSUME NEW t \in times
               PROVE  /\ t \in Before(t) /\ Before(t) \in SUBSET times
                      /\ IsFiniteSet(Before(t)) /\ c[t] \in 1..N
    OBVIOUS
  <2>1. t \in Before(t) /\ Before(t) \in SUBSET times
    BY <1>1
  <2> HIDE DEF Before
  <2>2. IsFiniteSet(Before(t)) /\ Cardinality(Before(t)) <= N
    BY <1>2, <2>1, FS_Subset
  <2>3. Cardinality(Before(t)) \in Nat /\ Cardinality(Before(t)) # 0
    BY <2>1, <2>2, FS_CardinalityType, FS_EmptySet
  <2> QED
    BY <1>2, <2>1, <2>2, <2>3
<1>5. ASSUME NEW t \in times, NEW u \in times, t < u PROVE c[t] < c[u]
  <2>1. Before(t) \in SUBSET Before(u) /\ u \notin Before(t)
    <3>1. t \in Int /\ u \in Int /\ ~(u <= t)
      BY <1>1, <1>5
    <3>2. ASSUME NEW v \in times, v <= t PROVE v <= u
      BY <1>1, <1>5, <3>1, <3>2
    <3>3. Before(t) \subseteq Before(u)
      BY <3>2
    <3> QED
      BY <3>1, <3>3
  <2>2. Before(t) # Before(u) /\ IsFiniteSet(Before(u))
    BY <1>4, <2>1
  <2>3. /\ Cardinality(Before(t)) <= Cardinality(Before(u))
        /\ Cardinality(Before(t)) # Cardinality(Before(u))
    <3> HIDE DEF Before
    <3> QED
      BY <2>1, <2>2, FS_Subset
  <2>4. c[t] = Cardinality(Before(t)) /\ c[u] = Cardinality(Before(u))
    OBVIOUS
  <2>5. c[t] \in Int /\ c[u] \in Int
    BY <1>4
  <2> HIDE DEF c, Before
  <2> QED
    BY <2>3, <2>4, <2>5
<1>6. \A t, u \in times : c[t] = c[u] => t = u
  <2> SUFFICES ASSUME NEW t \in times, NEW u \in times, c[t] = c[u], t # u PROVE FALSE
    OBVIOUS
  <2>1. t < u \/ u < t
    BY <1>1
  <2>2. c[t] < c[u] \/ c[u] < c[t]
    BY <1>5, <2>1
  <2>3. c[t] \in Int
    BY <1>4
  <2> HIDE DEF c
  <2> QED
    BY <2>2, <2>3
<1>7. \A t \in times : Cardinality({u \in times : u <= t}) = c[t]
  OBVIOUS
<1>8. \A n \in 1..N : \E t \in times : c[t] = n
  <2>1. c \in [times -> 1..N]
    BY <1>4
  <2> HIDE DEF c
  <2>2. c \in Injection(times, 1..N)
    BY <1>6, <2>1, Fun_IsInj
  <2>3. IsFiniteSet(1..N) /\ Cardinality(1..N) = N
    BY <1>2, FS_Interval
  <2>4. c \in Surjection(times, 1..N)
    BY <2>2, <2>3, FS_Injection
  <2> QED
    BY <2>4 DEF Surjection
<1>9. \A n \in 1..N : Nth(n) \in times /\ c[Nth(n)] = n
  <2> HIDE DEF c
  <2> QED
    BY <1>7, <1>8
<1>10. \A t \in times : c[t] \in 1..N /\ Nth(c[t]) = t
  <2> HIDE DEF c, Nth
  <2> QED
    BY <1>4, <1>6, <1>9
<1> HIDE DEF c, Nth, N
<1>11. \A n \in 1..N : [time |-> Nth(n), value |-> s[Nth(n)]] \in DataPoint
  BY <1>1, <1>9 DEF DataPoint, IsSeries
<1>12. q \in Seq(DataPoint) /\ DOMAIN q = 1..N
  BY <1>2, <1>3, <1>11
<1>13. \A n \in 1..N : q[n].time = Nth(n) /\ q[n].value = s[Nth(n)]
  BY <1>3
<1>14. IsOf(q, s)
  <2>1. ASSUME NEW n \in 1..N PROVE q[n].time \in DOMAIN s /\ q[n].value = s[q[n].time]
    BY <1>1, <1>9, <1>13
  <2> QED
    BY <1>12, <2>1 DEF IsOf, Points
<1>15. ASSUME NEW t PROVE Count(q, t) = IF t \in times THEN 1 ELSE 0
  <2>1. CASE t \in times
    <3>1. Found(q, t) = {c[t]}
      BY <1>9, <1>10, <1>12, <1>13, <2>1 DEF Found
    <3> QED
      BY <2>1, <3>1, FS_Singleton DEF Count
  <2>2. CASE t \notin times
    <3>1. Found(q, t) = {}
      BY <1>9, <1>12, <1>13, <2>2 DEF Found
    <3> QED
      BY <2>2, <3>1, FS_EmptySet DEF Count
  <2> QED
    BY <2>1, <2>2
<1> QED
  BY <1>14, <1>15 DEF q, times

\* The first n ranges, of those given, that the series has a point at t in.
Holding(s, ranges, n, t) == {k \in 1..n : t \in Held(s, ranges[k])}

HoldsOneMore(s, ranges, n, t) ==
  Cardinality(Holding(s, ranges, n + 1, t)) =
    Cardinality(Holding(s, ranges, n, t)) + IF t \in Held(s, ranges[n + 1]) THEN 1 ELSE 0

\* One more split: its points are counted at the times that it asks for.
LEMMA HoldingLemma ==
  ASSUME NEW s, NEW ranges, NEW t, NEW n \in Nat
  PROVE  /\ IsFiniteSet(Holding(s, ranges, n, t))
         /\ Cardinality(Holding(s, ranges, n, t)) \in Nat
         /\ Cardinality(Holding(s, ranges, 0, t)) = 0
         /\ HoldsOneMore(s, ranges, n, t)
<1> DEFINE H(k) == Holding(s, ranges, k, t)
<1>1. H(n) \subseteq 1..n /\ n + 1 \notin H(n) /\ H(0) = {}
  BY DEF Holding
<1>2. IsFiniteSet(1..n)
  BY FS_Interval
<1>3. H(n + 1) = IF t \in Held(s, ranges[n + 1]) THEN H(n) \cup {n + 1} ELSE H(n)
  <2>1. \A k : k \in 1..(n + 1) <=> k \in 1..n \/ k = n + 1
    OBVIOUS
  <2>2. CASE t \in Held(s, ranges[n + 1])
    BY <2>1, <2>2 DEF Holding
  <2>3. CASE t \notin Held(s, ranges[n + 1])
    BY <2>1, <2>3 DEF Holding
  <2> QED
    BY <2>2, <2>3
<1> HIDE DEF H
<1>4. IsFiniteSet(H(n)) /\ Cardinality(H(n)) \in Nat
  BY <1>1, <1>2, FS_Subset, FS_CardinalityType
<1>5. Cardinality(H(n) \cup {n + 1}) = Cardinality(H(n)) + 1
  BY <1>1, <1>4, FS_AddElement
<1>6. Cardinality(H(0)) = 0
  BY <1>1, FS_EmptySet
<1>7. Cardinality(H(n + 1)) =
        Cardinality(H(n)) + IF t \in Held(s, ranges[n + 1]) THEN 1 ELSE 0
  BY <1>3, <1>4, <1>5
<1> QED
  BY <1>4, <1>6, <1>7 DEF H, HoldsOneMore

\* The answers to ranges, joined in whatever order.
LEMMA MatricesLemma ==
  ASSUME NEW s, IsSeries(s), NEW N \in Nat, NEW ranges
  PROVE  LET points == mergeMatrices([n \in 1..N |-> QueryRange(s, ranges[n])])
         IN  /\ IsOf(points, s)
             /\ \A t : Count(points, t) = Cardinality(Holding(s, ranges, N, t))
<1> DEFINE seqs == [n \in 1..N |-> QueryRange(s, ranges[n])]
<1>1. \A n \in 1..N : seqs[n] = QueryRange(s, ranges[n])
  OBVIOUS
<1>2. \A range : QueryRange(s, range) \in Seq(DataPoint)
  BY QueryRangeLemma DEF IsOf
<1>3. seqs \in Seq(Seq(DataPoint)) /\ Len(seqs) = N
  BY <1>2
<1> HIDE DEF seqs
<1>4. PICK g \in [0..N -> Seq(DataPoint)] :
        /\ g[0] = << >>
        /\ \A n \in 1..N : g[n] = g[n - 1] \o seqs[n]
        /\ FlattenSeq(seqs) = g[N]
  BY <1>3, FlattenLemma
<1> DEFINE Joined(n) == /\ IsOf(g[n], s)
                        /\ \A t : Count(g[n], t) = Cardinality(Holding(s, ranges, n, t))
           T == {n \in Nat : n <= N => Joined(n)}
<1>5. 0 \in T
  <2>1. IsOf(g[0], s)
    BY <1>4, EmptyLemma DEF IsOf
  <2>2. \A t : Count(g[0], t) = 0
    BY <1>4, CountNoneLemma
  <2>3. \A t : Cardinality(Holding(s, ranges, 0, t)) = 0
    BY HoldingLemma
  <2> QED
    BY <2>1, <2>2, <2>3
<1>6. ASSUME NEW n \in Nat, n \in T PROVE n + 1 \in T
  <2> SUFFICES ASSUME n + 1 <= N PROVE Joined(n + 1)
    OBVIOUS
  <2> DEFINE range == ranges[n + 1]
             q == seqs[n + 1]
  <2>1. n + 1 \in 1..N /\ n \in 0..N /\ (n + 1) - 1 = n
    OBVIOUS
  <2>2. Joined(n)
    BY <1>6
  <2>3. q = QueryRange(s, range)
    BY <1>1, <2>1
  <2>4. g[n + 1] = g[n] \o q
    BY <1>4, <2>1
  <2>5. IsOf(q, s) /\ \A t : Count(q, t) = IF t \in Held(s, range) THEN 1 ELSE 0
    BY <2>3, QueryRangeLemma
  <2>6. g[n] \in Seq(DataPoint) /\ q \in Seq(DataPoint)
    BY <2>2, <2>5 DEF IsOf
  <2> HIDE DEF q
  <2>7. /\ g[n + 1] \in Seq(DataPoint)
        /\ Points(g[n + 1]) = Points(g[n]) \cup Points(q)
    BY <2>4, <2>6, PointsJoinedLemma
  <2>8. IsOf(g[n + 1], s)
    BY <2>2, <2>5, <2>7 DEF IsOf
  <2>9. ASSUME NEW t
        PROVE  Count(g[n + 1], t) = Cardinality(Holding(s, ranges, n + 1, t))
    <3>1. Count(g[n + 1], t) = Count(g[n], t) + Count(q, t)
      BY <2>4, <2>6, CountJoinedLemma
    <3>2. Count(g[n], t) = Cardinality(Holding(s, ranges, n, t))
      BY <2>2
    <3>3. Cardinality(Holding(s, ranges, n + 1, t)) =
            Cardinality(Holding(s, ranges, n, t)) + IF t \in Held(s, range) THEN 1 ELSE 0
      <4>1. HoldsOneMore(s, ranges, n, t)
        BY HoldingLemma
      <4> QED
        BY <4>1 DEF HoldsOneMore
    <3>4. Count(q, t) = IF t \in Held(s, range) THEN 1 ELSE 0
      BY <2>5
    <3> HIDE DEF range
    <3> QED
      BY <3>1, <3>2, <3>3, <3>4
  <2> QED
    BY <2>8, <2>9
<1> HIDE DEF T
<1>7. N \in T
  BY <1>5, <1>6, InductionLemma
<1>8. Joined(N)
  BY <1>7 DEF T
<1>9. mergeMatrices(seqs) = g[N]
  BY <1>4 DEF mergeMatrices
<1> QED
  BY <1>8, <1>9 DEF seqs

--------------------------------------------------------------------------------
(***************************************************************************)
(* All instances: the aggregate of their lists.                            *)
(***************************************************************************)
\* The aggregation takes one list after the other.
LEMMA AggregationLemma ==
  ASSUME NEW lists \in Seq(Seq(DataPoint))
  PROVE  \E g \in [0..Len(lists) -> Seq(DataPoint)] :
           /\ g[0] = << >>
           /\ \A n \in 1..Len(lists) : g[n] = aggregateMetrics(g[n - 1], lists[n])
           /\ FoldLeft(aggregateMetrics, << >>, lists) = g[Len(lists)]
<1> DEFINE N == Len(lists)
           S == SUBSET (1..N)
           D == Seq(DataPoint)
           F == [x \in D \X (1..N) |-> aggregateMetrics(x[1], lists[x[2]])]
           Next(iter, s) == aggregateMetrics(iter[s \ {Max(s)}], lists[Max(s)])
           Folded(iter) == iter = [s \in S |-> IF s = {} THEN << >> ELSE Next(iter, s)]
           fold == CHOOSE iter : Folded(iter)
<1>1. N \in Nat /\ DOMAIN lists = 1..N /\ \A n \in 1..N : lists[n] \in D
  OBVIOUS
<1>2. F \in [D \X (1..N) -> D] /\ << >> \in D
  BY <1>1, AggregateLemma
<1>3. \A a \in D, n \in 1..N : F[<<a, n>>] = aggregateMetrics(a, lists[n])
  OBVIOUS
<1>4. FoldLeft(aggregateMetrics, << >>, lists) = fold[1..N]
  BY <1>1 DEF FoldLeft, MapThenFoldSet
<1> HIDE DEF F, D, N
<1>5. ASSUME NEW iter, NEW s \in S, s # {}, iter[s \ {Max(s)}] \in D
      PROVE  F[<<iter[s \ {Max(s)}], Max(s)>>] = Next(iter, s)
  BY <1>1, <1>3, <1>5, LargestLemma
<1>6. \E iter : Folded(iter)
  <2>1. PICK iter \in [S -> D] : IsFold(iter, N, << >>, F)
    BY <1>1, <1>2, FoldLemma
  <2>2. \A s \in S : s # {} => iter[s \ {Max(s)}] \in D
    BY <1>1, <2>1, LargestLemma
  <2>3. \A s \in S : s # {} => F[<<iter[s \ {Max(s)}], Max(s)>>] = Next(iter, s)
    BY <1>5, <2>2
  <2> HIDE DEF Next
  <2>4. Folded(iter)
    BY <2>1, <2>3 DEF IsFold
  <2> QED
    BY <2>4
<1>7. Folded(fold)
  BY <1>6
<1> HIDE DEF fold
<1>8. FoldsWith(fold, N, D, << >>, F)
  <2> HIDE DEF Next
  <2> QED
    BY <1>5, <1>7 DEF FoldsWith
<1>9. PICK g \in [0..N -> D] : IsRun(g, N, << >>, F, fold[1..N])
  BY <1>1, <1>2, <1>8, FoldRunLemma
<1>10. \A n \in 1..N : g[n] = aggregateMetrics(g[n - 1], lists[n])
  <2>1. \A n \in 1..N : n - 1 \in 0..N
    BY <1>1
  <2> QED
    BY <1>3, <1>9, <2>1 DEF IsRun
<1>11. g[0] = << >> /\ FoldLeft(aggregateMetrics, << >>, lists) = g[N]
  BY <1>4, <1>9 DEF IsRun
<1> QED
  BY <1>10, <1>11 DEF D, N

\* The splits that ask for a time.
Asking(t) == {range \in SplitRange : t \in Asked(range)}

\* The healthy instances among J that have a point at a time.
Known(J, t) == {i \in J \cap Healthy : t \in DOMAIN series[i]}

AreSeries == \A i \in Instance : IsSeries(series[i])

\* The points are the aggregate of the instances J.
IsAggregate(points, J) ==
  /\ points \in Seq(DataPoint)
  /\ InOrder(points)
  /\ \A p \in Points(points) : \E i \in Known(J, p.time) : p.value = series[i][p.time]
  /\ \A p \in Points(points) : \A i \in Known(J, p.time) : series[i][p.time] <= p.value
  /\ \A t : Count(points, t) = IF Known(J, t) = {} THEN 0 ELSE Cardinality(Asking(t))

LEMMA PointsTypeLemma ==
  ASSUME NEW s \in Seq(DataPoint)
  PROVE  Points(s) \subseteq DataPoint
BY DEF Points

\* A time of an aggregate is one that some instance knows, and the other way round.
LEMMA KnownLemma ==
  ASSUME NEW J, NEW points, IsAggregate(points, J), NEW t
  PROVE  /\ t \in Times(points) <=> Known(J, t) # {} /\ Cardinality(Asking(t)) # 0
         /\ t \in Times(points) => Count(points, t) = Cardinality(Asking(t))
         /\ t \notin Times(points) => Count(points, t) = 0
<1>1. points \in Seq(DataPoint)
  BY DEF IsAggregate
<1>2. Count(points, t) = 0 <=> t \notin Times(points)
  BY <1>1, CountTypeLemma
<1>3. Count(points, t) = IF Known(J, t) = {} THEN 0 ELSE Cardinality(Asking(t))
  BY DEF IsAggregate
<1> QED
  BY <1>2, <1>3

\* An aggregate has one value at a time.
LEMMA UniformLemma ==
  ASSUME AreSeries, NEW J \in SUBSET Instance, NEW points, IsAggregate(points, J)
  PROVE  Uniform(points)
<1> SUFFICES ASSUME NEW p \in Points(points), NEW q \in Points(points), p.time = q.time
             PROVE  p = q
  BY DEF Uniform
<1>1. p \in DataPoint /\ q \in DataPoint
  BY PointsTypeLemma DEF IsAggregate
<1>2. p.value \in Nat /\ q.value \in Nat
  BY <1>1 DEF DataPoint
<1>3. \E i \in Known(J, p.time) : p.value = series[i][p.time]
  BY DEF IsAggregate
<1>4. \E i \in Known(J, p.time) : q.value = series[i][p.time]
  BY DEF IsAggregate
<1>5. \A i \in Known(J, p.time) : series[i][p.time] <= p.value
  BY DEF IsAggregate
<1>6. \A i \in Known(J, p.time) : series[i][p.time] <= q.value
  BY DEF IsAggregate
<1>7. p.value <= q.value /\ q.value <= p.value
  BY <1>3, <1>4, <1>5, <1>6
<1>8. p.value = q.value
  BY <1>2, <1>7
<1> QED
  BY <1>1, <1>8 DEF DataPoint

\* The aggregates of two sets of instances make the aggregate of both.
LEMMA UnionLemma ==
  ASSUME AreSeries, NEW J \in SUBSET Instance, NEW K \in SUBSET Instance,
         NEW a, IsAggregate(a, J), NEW b, IsAggregate(b, K)
  PROVE  IsAggregate(aggregateMetrics(a, b), J \cup K)
<1> DEFINE merged == aggregateMetrics(a, b)
<1>1. /\ a \in Seq(DataPoint) /\ b \in Seq(DataPoint)
      /\ InOrder(a) /\ InOrder(b)
  BY DEF IsAggregate
<1>2. Uniform(a) /\ Uniform(b)
  BY UniformLemma
<1>3. \A t \in Times(a) \cap Times(b) : Count(a, t) = Count(b, t)
  BY KnownLemma
<1>4. IsMerge(a, b, merged)
  <2>1. Mergeable(a, b)
    BY <1>1, <1>2, <1>3 DEF Mergeable
  <2> QED
    BY <1>1, <2>1, AggregateLemma
<1> HIDE DEF merged
<1>5. \A t : Known(J \cup K, t) = Known(J, t) \cup Known(K, t)
  BY DEF Known
<1>6. /\ merged \in Seq(DataPoint)
      /\ InOrder(merged)
      /\ Points(merged) \subseteq Points(a) \cup Points(b)
      /\ \A p \in Points(merged), q \in Points(a) \cup Points(b) :
           q.time = p.time => q.value <= p.value
      /\ \A t : Count(merged, t) = IF t \in Times(a) THEN Count(a, t) ELSE Count(b, t)
  BY <1>4 DEF IsMerge
<1>7. ASSUME NEW p \in Points(merged)
      PROVE  \E i \in Known(J \cup K, p.time) : p.value = series[i][p.time]
  <2>1. p \in Points(a) \/ p \in Points(b)
    BY <1>6
  <2>2. \/ \E i \in Known(J, p.time) : p.value = series[i][p.time]
        \/ \E i \in Known(K, p.time) : p.value = series[i][p.time]
    BY <2>1 DEF IsAggregate
  <2> QED
    BY <1>5, <2>2
<1>8. ASSUME NEW p \in Points(merged), NEW i \in Known(J \cup K, p.time)
      PROVE  series[i][p.time] <= p.value
  <2>1. Cardinality(Asking(p.time)) # 0
    <3>1. p \in Points(a) \/ p \in Points(b)
      BY <1>6
    <3>2. p.time \in Times(a) \/ p.time \in Times(b)
      BY <3>1, TimesLemma
    <3> QED
      BY <3>2, KnownLemma
  <2>2. PICK q \in Points(a) \cup Points(b) : q.time = p.time /\ series[i][p.time] <= q.value
    <3>1. CASE i \in Known(J, p.time)
      <4>1. p.time \in Times(a)
        BY <2>1, <3>1, KnownLemma
      <4>2. PICK q \in Points(a) : q.time = p.time
        BY <4>1, TimesLemma
      <4>3. series[i][q.time] <= q.value
        BY <3>1, <4>2 DEF IsAggregate
      <4> QED
        BY <4>2, <4>3
    <3>2. CASE i \in Known(K, p.time)
      <4>1. p.time \in Times(b)
        BY <2>1, <3>2, KnownLemma
      <4>2. PICK q \in Points(b) : q.time = p.time
        BY <4>1, TimesLemma
      <4>3. series[i][q.time] <= q.value
        BY <3>2, <4>2 DEF IsAggregate
      <4> QED
        BY <4>2, <4>3
    <3> QED
      BY <1>5, <3>1, <3>2
  <2>3. q.value <= p.value
    BY <1>6, <2>2
  <2>4. p.value \in Nat /\ q.value \in Nat
    <3>1. p \in DataPoint /\ q \in DataPoint
      BY <1>1, <1>6, PointsTypeLemma
    <3> QED
      BY <3>1 DEF DataPoint
  <2>5. series[i][p.time] \in Nat
    BY DEF Known, AreSeries, IsSeries
  <2> QED
    BY <2>2, <2>3, <2>4, <2>5
<1>9. ASSUME NEW t
      PROVE  Count(merged, t) = IF Known(J \cup K, t) = {} THEN 0 ELSE Cardinality(Asking(t))
  <2>1. Count(merged, t) = IF t \in Times(a) THEN Count(a, t) ELSE Count(b, t)
    BY <1>6
  <2>2. CASE t \in Times(a)
    <3>1. Known(J, t) # {} /\ Count(a, t) = Cardinality(Asking(t))
      BY <2>2, KnownLemma
    <3>2. Known(J \cup K, t) # {}
      BY <1>5, <3>1
    <3> QED
      BY <2>1, <2>2, <3>1, <3>2
  <2>3. CASE t \notin Times(a) /\ t \in Times(b)
    <3>1. Known(K, t) # {} /\ Count(b, t) = Cardinality(Asking(t))
      BY <2>3, KnownLemma
    <3>2. Known(J \cup K, t) # {}
      BY <1>5, <3>1
    <3> QED
      BY <2>1, <2>3, <3>1, <3>2
  <2>4. CASE t \notin Times(a) /\ t \notin Times(b)
    <3>1. Count(b, t) = 0
      BY <2>4, KnownLemma
    <3>2. Known(J, t) = {} \/ Cardinality(Asking(t)) = 0
      BY <2>4, KnownLemma
    <3>3. Known(K, t) = {} \/ Cardinality(Asking(t)) = 0
      BY <2>4, KnownLemma
    <3>4. Known(J \cup K, t) = {} \/ Cardinality(Asking(t)) = 0
      BY <1>5, <3>2, <3>3
    <3> QED
      BY <2>1, <2>4, <3>1, <3>4
  <2> QED
    BY <2>2, <2>3, <2>4
<1>10. IsAggregate(merged, J \cup K)
  BY <1>6, <1>7, <1>8, <1>9 DEF IsAggregate
<1> QED
  BY <1>10 DEF merged

\* No split is answered twice.
OneAnswerEach(i) ==
  \A m, n \in DOMAIN answers[i] : answers[i][m].range = answers[i][n].range => m = n

\* The joined answers of an instance, once all splits are in.
LEMMA SplitsLemma ==
  ASSUME AreSeries, ScraperTypeOK, NEW i \in Instance, OneAnswerEach(i)
  PROVE  /\ IsOf(QueryRangeByInterval(i), series[i])
         /\ Answered(i) = SplitRange =>
              \A t : Count(QueryRangeByInterval(i), t) =
                       IF t \in DOMAIN series[i] THEN Cardinality(Asking(t)) ELSE 0
<1> DEFINE s == series[i]
           N == Len(answers[i])
           ranges == [n \in 1..N |-> answers[i][n].range]
           points == QueryRangeByInterval(i)
<1>1. answers[i] \in Seq([range : SplitRange, err : BOOLEAN]) /\ IsSeries(s)
  BY DEF ScraperTypeOK, AreSeries
<1>2. N \in Nat /\ DOMAIN answers[i] = 1..N
  BY <1>1
<1>3. \A n \in 1..N : ranges[n] = answers[i][n].range
  OBVIOUS
<1> HIDE DEF N, s
<1>4. points = mergeMatrices([n \in 1..N |-> QueryRange(s, ranges[n])])
  <2>1. points = mergeMatrices([n \in 1..N |-> QueryRange(s, answers[i][n].range)])
    BY <1>2 DEF QueryRangeByInterval, s
  <2>2. [n \in 1..N |-> QueryRange(s, ranges[n])] =
          [n \in 1..N |-> QueryRange(s, answers[i][n].range)]
    BY <1>3
  <2> QED
    BY <2>1, <2>2
<1> HIDE DEF ranges, points
<1>5. /\ IsOf(points, s)
      /\ \A t : Count(points, t) = Cardinality(Holding(s, ranges, N, t))
  BY <1>1, <1>2, <1>4, MatricesLemma
<1>6. ASSUME Answered(i) = SplitRange, NEW t
      PROVE  Count(points, t) = IF t \in DOMAIN s THEN Cardinality(Asking(t)) ELSE 0
  <2> DEFINE H == Holding(s, ranges, N, t)
             f == [n \in H |-> ranges[n]]
  <2>1. H = {n \in 1..N : t \in Asked(ranges[n]) /\ t \in DOMAIN s}
    BY DEF Holding, Held
  <2>2. CASE t \in DOMAIN s
    <3>1. \A n \in 1..N : ranges[n] \in SplitRange
      BY <1>2, <1>3, <1>6 DEF Answered
    <3>2. \A range \in SplitRange : \E n \in 1..N : ranges[n] = range
      BY <1>2, <1>3, <1>6 DEF Answered
    <3>3. \A m, n \in 1..N : ranges[m] = ranges[n] => m = n
      BY <1>2, <1>3 DEF OneAnswerEach
    <3>4. IsFiniteSet(H)
      BY <1>2, HoldingLemma
    <3>5. f \in [H -> Asking(t)]
      BY <2>1, <3>1 DEF Asking
    <3>6. \A m, n \in H : f[m] = f[n] => m = n
      BY <2>1, <3>3
    <3>7. \A range \in Asking(t) : \E n \in H : f[n] = range
      BY <2>1, <2>2, <3>2 DEF Asking
    <3> HIDE DEF f, H
    <3>8. Cardinality(Asking(t)) = Cardinality(H)
      BY <3>4, <3>5, <3>6, <3>7, SameSizeLemma
    <3> QED
      BY <1>5, <2>2, <3>8 DEF H
  <2>3. CASE t \notin DOMAIN s
    <3>1. Holding(s, ranges, N, t) = {}
      BY <2>1, <2>3
    <3> QED
      BY <1>5, <2>3, <3>1, FS_EmptySet
  <2> QED
    BY <2>2, <2>3
<1> QED
  BY <1>5, <1>6 DEF points, s

\* The result of an instance is the aggregate of that instance alone.
LEMMA InstanceLemma ==
  ASSUME AreSeries, ScraperTypeOK, NEW i \in Instance, OneAnswerEach(i),
         Answered(i) = SplitRange
  PROVE  IsAggregate(InstanceResult(i, QueryRangeByInterval(i)), {i})
<1> DEFINE s == series[i]
           points == QueryRangeByInterval(i)
           sorted == InstanceResult(i, points)
<1>1. IsOf(points, s)
  BY SplitsLemma
<1>2. \A t : Count(points, t) = IF t \in DOMAIN s THEN Cardinality(Asking(t)) ELSE 0
  BY SplitsLemma
<1>3. CASE Failed(i)
  <2>1. sorted = << >>
    BY <1>3 DEF InstanceResult
  <2>2. \A t : Known({i}, t) = {}
    BY <1>3 DEF Known, Healthy
  <2>3. \A t : Count(<< >>, t) = 0
    BY CountNoneLemma
  <2> QED
    BY <2>1, <2>2, <2>3, EmptyLemma DEF IsAggregate
<1>4. CASE ~Failed(i)
  <2>1. sorted = Sorted(points)
    BY <1>4 DEF InstanceResult
  <2> HIDE DEF sorted, points
  <2>2. points \in Seq(DataPoint)
    BY <1>1 DEF IsOf
  <2>3. /\ sorted \in Seq(DataPoint)
        /\ InOrder(sorted)
        /\ Points(sorted) = Points(points)
        /\ \A t : Count(sorted, t) = Count(points, t)
    BY <2>1, <2>2, SortedLemma
  <2>4. \A t : Known({i}, t) = IF t \in DOMAIN s THEN {i} ELSE {}
    BY <1>4 DEF Known, Healthy
  <2>5. \A p \in Points(sorted) : p.time \in DOMAIN s /\ p.value = s[p.time]
    BY <1>1, <2>3 DEF IsOf
  <2>6. \A p \in Points(sorted) : Known({i}, p.time) = {i}
    BY <2>4, <2>5
  <2>7. \A p \in Points(sorted) : p.value \in Nat
    BY <2>3, PointsTypeLemma DEF DataPoint
  <2>8. \A p \in Points(sorted) : \E j \in Known({i}, p.time) : p.value = series[j][p.time]
    BY <2>5, <2>6
  <2>9. ASSUME NEW p \in Points(sorted), NEW j \in Known({i}, p.time)
        PROVE  series[j][p.time] <= p.value
    <3>1. j = i /\ p.value = series[i][p.time]
      BY <2>5, <2>6
    <3> QED
      BY <2>7, <3>1
  <2>10. ASSUME NEW t
         PROVE  Count(sorted, t) =
                  IF Known({i}, t) = {} THEN 0 ELSE Cardinality(Asking(t))
    BY <1>2, <2>3, <2>4
  <2>11. IsAggregate(sorted, {i})
    BY <2>3, <2>8, <2>9, <2>10 DEF IsAggregate
  <2> QED
    BY <2>11 DEF sorted, points
<1> QED
  BY <1>3, <1>4

--------------------------------------------------------------------------------
(***************************************************************************)
(* The invariant of the scraper.                                           *)
(***************************************************************************)
\* A result is that of an instance which has answered all splits.
IsResult(result) ==
  /\ Answered(result.instance) = SplitRange
  /\ result.points = InstanceResult(result.instance, QueryRangeByInterval(result.instance))

ResultsInv == \A n \in DOMAIN results : IsResult(results[n])

\* The response is the aggregate of all results, with its gaps filled in where the
\* utilization was asked for.
ResponseInv ==
  response.done =>
    /\ AllResponded
    /\ query = "breach" => ~response.err /\ response.points = Aggregated
    /\ query = "utilization" =>
         IF response.err THEN response.points = << >>
         ELSE response.points = interpolateMissingDataPoints(Aggregated)

ScraperInv ==
  /\ ScraperTypeOK
  /\ AreSeries
  /\ \A i \in Instance : OneAnswerEach(i)
  /\ ResultsInv
  /\ ResponseInv

\* The aggregate of a state of the scraper is that of the instances with a result.
LEMMA AggregatedLemma ==
  ASSUME ScraperInv
  PROVE  IsAggregate(Aggregated, Responded)
<1> DEFINE N == Len(results)
           lists == [n \in 1..N |-> results[n].points]
           Of(n) == {results[k].instance : k \in 1..n}
<1>1. /\ results \in Seq([instance : Instance, points : Seq(DataPoint)])
      /\ ScraperTypeOK /\ AreSeries /\ (\A i \in Instance : OneAnswerEach(i)) /\ ResultsInv
  BY DEF ScraperInv, ScraperTypeOK
<1>2. N \in Nat /\ DOMAIN results = 1..N
  BY <1>1
<1>3. \A n \in 1..N : results[n].instance \in Instance /\ results[n].points \in Seq(DataPoint)
  <2> DEFINE R == [instance : Instance, points : Seq(DataPoint)]
  <2>1. results \in Seq(R)
    BY <1>1
  <2> HIDE DEF R
  <2>2. \A n \in DOMAIN results : results[n] \in R
    BY <2>1
  <2> QED
    BY <1>2, <2>2 DEF R
<1>4. lists \in Seq(Seq(DataPoint)) /\ Len(lists) = N
  BY <1>2, <1>3
<1>5. ASSUME NEW n \in 1..N
      PROVE  IsAggregate(lists[n], {results[n].instance})
  <2>1. IsResult(results[n])
    BY <1>1, <1>2 DEF ResultsInv
  <2>2. lists[n] = results[n].points
    OBVIOUS
  <2> QED
    BY <1>1, <1>3, <2>1, <2>2, InstanceLemma DEF IsResult
<1>6. Aggregated = FoldLeft(aggregateMetrics, << >>, lists)
  BY <1>2 DEF Aggregated
<1>7. Responded = Of(N)
  BY <1>2 DEF Responded
<1> HIDE DEF N, lists
<1>8. PICK g \in [0..N -> Seq(DataPoint)] :
        /\ g[0] = << >>
        /\ \A n \in 1..N : g[n] = aggregateMetrics(g[n - 1], lists[n])
        /\ FoldLeft(aggregateMetrics, << >>, lists) = g[N]
  BY <1>4, AggregationLemma
<1> DEFINE T == {n \in Nat : n <= N => IsAggregate(g[n], Of(n))}
<1>9. 0 \in T
  <2>1. Of(0) = {}
    OBVIOUS
  <2> HIDE DEF Of
  <2>2. \A t : Known({}, t) = {}
    BY DEF Known
  <2>3. IsAggregate(<< >>, {})
    BY <2>2, EmptyLemma, CountNoneLemma DEF IsAggregate
  <2> QED
    BY <1>8, <2>1, <2>3
<1>10. ASSUME NEW n \in Nat, n \in T PROVE n + 1 \in T
  <2> SUFFICES ASSUME n + 1 <= N PROVE IsAggregate(g[n + 1], Of(n + 1))
    OBVIOUS
  <2>1. n + 1 \in 1..N /\ (n + 1) - 1 = n /\ n <= N
    BY <1>2
  <2>2. IsAggregate(g[n], Of(n))
    BY <1>10, <2>1
  <2>3. IsAggregate(lists[n + 1], {results[n + 1].instance})
    BY <1>5, <2>1
  <2>4. g[n + 1] = aggregateMetrics(g[n], lists[n + 1])
    BY <1>8, <2>1
  <2>5. Of(n) \in SUBSET Instance /\ {results[n + 1].instance} \in SUBSET Instance
    BY <1>2, <1>3, <2>1
  <2>6. Of(n + 1) = Of(n) \cup {results[n + 1].instance}
    <3>1. \A k : k \in 1..(n + 1) <=> k \in 1..n \/ k = n + 1
      OBVIOUS
    <3> QED
      BY <3>1
  <2> HIDE DEF Of
  <2>7. IsAggregate(aggregateMetrics(g[n], lists[n + 1]), Of(n) \cup {results[n + 1].instance})
    BY <1>1, <2>2, <2>3, <2>5, UnionLemma
  <2> QED
    BY <2>4, <2>6, <2>7
<1> HIDE DEF T
<1>11. N \in T
  BY <1>2, <1>9, <1>10, InductionLemma
<1>12. IsAggregate(g[N], Of(N))
  <2> HIDE DEF Of
  <2> QED
    BY <1>11 DEF T
<1> HIDE DEF Of
<1> QED
  BY <1>6, <1>7, <1>8, <1>12

\* What is aggregated is sorted and uniform, and its values are those of the series.
LEMMA AggregatesLemma ==
  ASSUME ScraperInv
  PROVE  AggregatesMaximum
<1> SUFFICES ASSUME AllResponded PROVE AggregatesMaximum
  BY DEF AggregatesMaximum
<1> DEFINE points == Aggregated
           known(t) == {series[i][t] : i \in {h \in Healthy : t \in DOMAIN series[h]}}
<1>1. IsAggregate(points, Instance)
  BY AggregatedLemma DEF AllResponded
<1> HIDE DEF points
<1>2. /\ points \in Seq(DataPoint)
      /\ InOrder(points)
      /\ \A p \in Points(points) : \E i \in Known(Instance, p.time) : p.value = series[i][p.time]
      /\ \A p \in Points(points) : \A i \in Known(Instance, p.time) :
           series[i][p.time] <= p.value
      /\ \A t : Count(points, t) =
                  IF Known(Instance, t) = {} THEN 0 ELSE Cardinality(Asking(t))
  BY <1>1 DEF IsAggregate
<1>3. IsSortedByTime(points)
  BY <1>2 DEF IsSortedByTime, InOrder
<1>4. \A t : Known(Instance, t) = {h \in Healthy : t \in DOMAIN series[h]}
  BY DEF Known, Healthy
<1>5. ASSUME NEW t
      PROVE  Cardinality(Found(points, t)) = IF known(t) = {} THEN 0 ELSE Cardinality(Asking(t))
  <2>1. known(t) = {} <=> Known(Instance, t) = {}
    BY <1>4
  <2> QED
    BY <1>2, <2>1 DEF Count
<1>6. ASSUME NEW t, NEW n \in Found(points, t)
      PROVE  points[n].value = Max(known(t))
  <2> DEFINE v == points[n].value
  <2>1. points[n] \in Points(points) /\ points[n].time = t
    BY DEF Found, Points
  <2>2. \E i \in Known(Instance, t) : v = series[i][t]
    BY <1>2, <2>1
  <2>3. \A i \in Known(Instance, t) : series[i][t] <= v
    BY <1>2, <2>1
  <2> HIDE DEF v
  <2>4. v \in known(t) /\ \A x \in known(t) : x <= v
    BY <1>4, <2>2, <2>3
  <2>5. known(t) \subseteq Nat
    BY <1>4 DEF ScraperInv, AreSeries, IsSeries, Known
  <2> HIDE DEF known
  <2>6. v \in Nat
    BY <2>4, <2>5
  <2>7. Max(known(t)) \in known(t) /\ \A y \in known(t) : y <= Max(known(t))
    BY <2>4, <2>5, <2>6, MaxLemma
  <2>8. Max(known(t)) \in Nat /\ Max(known(t)) <= v /\ v <= Max(known(t))
    BY <2>4, <2>5, <2>7
  <2> QED
    BY <2>6, <2>8 DEF v
<1>7. \A t : Found(points, t) = {n \in DOMAIN points : points[n].time = t}
  BY DEF Found
<1>8. \A t : Asking(t) = {range \in SplitRange : t \in Asked(range)}
  BY DEF Asking
<1> HIDE DEF known
<1>9. ASSUME NEW t
      PROVE  LET asking == {range \in SplitRange : t \in Asked(range)}
                 found == {n \in DOMAIN points : points[n].time = t}
             IN  /\ Cardinality(found) = IF known(t) = {} THEN 0 ELSE Cardinality(asking)
                 /\ \A n \in found : points[n].value = Max(known(t))
  BY <1>5, <1>6, <1>7, <1>8
<1> QED
  BY <1>3, <1>9 DEF AggregatesMaximum, points, known

--------------------------------------------------------------------------------
(***************************************************************************)
(* The interpolation.                                                      *)
(***************************************************************************)
LEMMA DivLemma ==
  ASSUME NEW x \in Int, NEW q \in Nat, q > 0
  PROVE  /\ x \div q \in Int
         /\ q * (x \div q) <= x
         /\ x < q * (x \div q) + q
BY SMT

LEMMA ScaleLemma ==
  ASSUME NEW a \in Int, NEW b \in Int, NEW k \in Nat, a <= b
  PROVE  k * a <= k * b
BY SMT

\* A part j / q of a difference is no more than the difference, rounded down or not.
LEMMA PartLemma ==
  ASSUME NEW d \in Int, NEW j \in Nat, NEW q \in Nat, q > 0, j <= q
  PROVE  /\ (j * d) \div q \in Int
         /\ d >= 0 => 0 <= (j * d) \div q /\ (j * d) \div q <= d
         /\ d < 0 => d <= (j * d) \div q /\ (j * d) \div q <= 0
<1> DEFINE x == j * d
           k == x \div q
<1>1. x \in Int
  OBVIOUS
<1>2. d >= 0 => 0 <= x /\ x <= q * d
  OBVIOUS
<1>3. d < 0 => q * d <= x /\ x <= 0
  OBVIOUS
<1> HIDE DEF x
<1>4. k \in Int /\ q * k <= x /\ x < q * k + q
  BY <1>1, DivLemma
<1> HIDE DEF k
<1>5. ASSUME d >= 0 PROVE 0 <= k /\ k <= d
  <2>1. q * k <= q * d /\ 0 < q * k + q
    BY <1>1, <1>2, <1>4, <1>5
  <2> QED
    BY <1>4, <2>1
<1>6. ASSUME d < 0 PROVE d <= k /\ k <= 0
  <2>1. q * d < q * k + q /\ q * k <= 0
    BY <1>1, <1>3, <1>4, <1>6
  <2> QED
    BY <1>4, <2>1
<1> QED
  BY <1>4, <1>5, <1>6 DEF k, x

\* The next point is not earlier, and less than two steps later.
Follows(t, u) == t <= u /\ u - t < 2 * Step

\* A point between two others, in time and in value.
Between(p, a, b) ==
  /\ a.time < p.time /\ p.time < b.time
  /\ p.value <= Max({a.value, b.value})
  /\ p.value >= Min({a.value, b.value})

\* The j-th point that is filled in between a and b, when q steps fit between them.
LEMMA InterpolatedLemma ==
  ASSUME NEW a \in DataPoint, NEW b \in DataPoint, NEW q \in Nat, NEW j \in Nat,
         1 <= j, j < q, Step * q <= b.time - a.time,
         NEW p, p = [time |-> a.time + Step * j,
                     value |-> a.value + (j * (b.value - a.value)) \div q]
  PROVE  p \in DataPoint /\ Between(p, a, b)
<1>1. /\ a.time \in Nat /\ a.value \in Nat /\ b.time \in Nat /\ b.value \in Nat
      /\ Step \in Nat /\ Step > 0
  BY ScraperAssumption DEF DataPoint
<1> DEFINE d == b.value - a.value
           k == (j * d) \div q
<1>2. p.time = a.time + Step * j /\ p.value = a.value + k
  OBVIOUS
<1>3. /\ k \in Int
      /\ d >= 0 => 0 <= k /\ k <= d
      /\ d < 0 => d <= k /\ k <= 0
  <2>1. d \in Int
    BY <1>1
  <2> HIDE DEF d
  <2> QED
    BY <2>1, PartLemma
<1> HIDE DEF k
<1>4. /\ p.value \in Nat
      /\ \/ a.value <= p.value /\ p.value <= b.value
         \/ b.value <= p.value /\ p.value <= a.value
  BY <1>1, <1>2, <1>3
<1>5. p.time \in Nat /\ a.time < p.time /\ p.time < b.time
  <2>1. Step * j \in Nat /\ Step * j > 0 /\ Step * j < Step * q /\ Step * q \in Nat
    BY <1>1
  <2> QED
    BY <1>1, <1>2, <2>1
<1>6. p.value <= Max({a.value, b.value}) /\ p.value >= Min({a.value, b.value})
  <2> DEFINE M == Max({a.value, b.value})
             m == Min({a.value, b.value})
  <2>1. /\ M \in {a.value, b.value} /\ a.value <= M /\ b.value <= M
        /\ m \in {a.value, b.value} /\ m <= a.value /\ m <= b.value
    <3> DEFINE u == a.value
               v == b.value
    <3>1. u \in Int /\ v \in Int
      BY <1>1
    <3> HIDE DEF u, v
    <3>2. /\ Max({u, v}) \in {u, v} /\ u <= Max({u, v}) /\ v <= Max({u, v})
          /\ Min({u, v}) \in {u, v} /\ Min({u, v}) <= u /\ Min({u, v}) <= v
      BY <3>1, MaxOfTwoLemma
    <3> QED
      BY <3>2 DEF u, v
  <2> HIDE DEF M, m
  <2>2. p.value <= M /\ p.value >= m
    BY <1>1, <1>4, <2>1
  <2> QED
    BY <2>2 DEF M, m
<1>7. p \in DataPoint
  BY <1>4, <1>5 DEF DataPoint
<1> QED
  BY <1>5, <1>6, <1>7 DEF Between

\* w leads from the point a, which is not in it, to the point b, its last one.
IsFill(w, a, b) ==
  /\ w \in Seq(DataPoint)
  /\ Len(w) >= 1 /\ w[Len(w)] = b
  /\ Follows(a.time, w[1].time)
  /\ \A n \in 2..Len(w) : Follows(w[n - 1].time, w[n].time)
  /\ \A n \in 1..(Len(w) - 1) : Between(w[n], a, b)

\* The points that are filled in between two neighbours follow each other.
LEMMA FilledLemma ==
  ASSUME NEW s \in Seq(DataPoint), InOrder(s), NEW i \in 2..Len(s)
  PROVE  IsFill(Filled(s, i), s[i - 1], s[i])
<1> DEFINE a == s[i - 1]
           b == s[i]
           q == (b.time - a.time) \div Step
           m == Max({0, q - 1})
           P(j) == [time |-> a.time + Step * j,
                    value |-> a.value + (j * (b.value - a.value)) \div q]
           f == [j \in 1..m |-> P(j)]
           w == Filled(s, i)
<1>1. i \in DOMAIN s /\ i - 1 \in DOMAIN s /\ i - 1 <= i
  OBVIOUS
<1>2. a \in DataPoint /\ b \in DataPoint /\ a.time <= b.time
  BY <1>1 DEF InOrder
<1>3. w = f \o <<b>>
  BY DEF Filled
<1> HIDE DEF a, b, w
<1>4. a.time \in Nat /\ b.time \in Nat /\ Step \in Nat /\ Step > 0
  BY <1>2, ScraperAssumption DEF DataPoint
<1>5. q \in Nat /\ Step * q <= b.time - a.time /\ b.time - a.time < Step * q + Step
  <2> DEFINE x == b.time - a.time
  <2>1. x \in Nat
    BY <1>2, <1>4
  <2> HIDE DEF x
  <2>2. x \div Step \in Int /\ Step * (x \div Step) <= x /\ x < Step * (x \div Step) + Step
    BY <1>4, <2>1, DivLemma
  <2>3. x \div Step >= 0
    BY <1>4, <2>1, <2>2
  <2> QED
    BY <2>2, <2>3 DEF x
<1> HIDE DEF q
<1>6. m \in Nat /\ (q >= 1 => m = q - 1) /\ (q = 0 => m = 0)
  <2> DEFINE r == q - 1
  <2>1. r \in Int /\ 0 \in Int /\ r >= -1
    BY <1>5
  <2> HIDE DEF r
  <2>2. Max({0, r}) \in {0, r} /\ 0 <= Max({0, r}) /\ r <= Max({0, r})
    BY <2>1, MaxOfTwoLemma
  <2>3. m = Max({0, r})
    BY DEF r
  <2> HIDE DEF m
  <2>4. m \in Nat /\ (r >= 0 => m = r) /\ (r = -1 => m = 0)
    BY <2>1, <2>2, <2>3
  <2> QED
    BY <1>5, <2>4 DEF r
<1> HIDE DEF m
<1>7. ASSUME NEW j \in 1..m PROVE P(j) \in DataPoint /\ Between(P(j), a, b)
  <2>1. j \in Nat /\ 1 <= j /\ j < q
    BY <1>5, <1>6
  <2> QED
    BY <1>2, <1>5, <2>1, InterpolatedLemma
<1>8. ASSUME NEW j \in 1..m PROVE P(j).time = a.time + Step * j
  OBVIOUS
<1> HIDE DEF P
<1>9. f \in Seq(DataPoint) /\ Len(f) = m
  BY <1>6, <1>7
<1>10. \A j \in 1..m : f[j] = P(j)
  OBVIOUS
<1> HIDE DEF f
<1>11. w \in Seq(DataPoint) /\ Len(w) = m + 1
  BY <1>2, <1>3, <1>6, <1>9
<1>12. \A j \in 1..m : w[j] = P(j)
  BY <1>3, <1>6, <1>9, <1>10
<1>13. w[m + 1] = b
  BY <1>3, <1>6, <1>9
<1>14. Follows(a.time, w[1].time)
  <2>1. CASE m = 0
    <3>1. b.time - a.time < 2 * Step
      BY <1>4, <1>5, <1>6, <2>1
    <3> QED
      BY <1>2, <1>4, <1>13, <2>1, <3>1 DEF Follows
  <2>2. CASE m > 0
    <3>1. w[1].time = a.time + Step * 1
      BY <1>6, <1>8, <1>12, <2>2
    <3> QED
      BY <1>4, <3>1 DEF Follows
  <2> QED
    BY <1>6, <2>1, <2>2
<1>15. ASSUME NEW n \in 2..(m + 1) PROVE Follows(w[n - 1].time, w[n].time)
  <2>1. w[n - 1].time = a.time + Step * (n - 1)
    BY <1>6, <1>8, <1>12
  <2>2. CASE n <= m
    <3>1. w[n].time = a.time + Step * n
      BY <1>6, <1>8, <1>12, <2>2
    <3>2. Step * n = Step * (n - 1) + Step /\ Step * (n - 1) \in Nat
      BY <1>4, <1>6
    <3> HIDE DEF w
    <3> QED
      BY <1>4, <2>1, <3>1, <3>2 DEF Follows
  <2>3. CASE n = m + 1
    <3>1. w[n].time = b.time
      BY <1>13, <2>3
    <3>2. n = q /\ Step * q = Step * (n - 1) + Step /\ Step * (n - 1) \in Nat
      BY <1>4, <1>5, <1>6, <2>3
    <3> QED
      BY <1>4, <1>5, <2>1, <3>1, <3>2 DEF Follows
  <2> QED
    BY <1>6, <2>2, <2>3
<1>16. IsFill(w, a, b)
  BY <1>6, <1>7, <1>11, <1>12, <1>13, <1>14, <1>15 DEF IsFill
<1> QED
  BY <1>16 DEF w, a, b

\* w is what becomes of the first n points of s.
IsFilledUp(w, s, n) ==
  /\ w \in Seq(DataPoint)
  /\ Len(w) >= 1 /\ w[Len(w)] = s[n]
  /\ \A k \in 2..Len(w) : Follows(w[k - 1].time, w[k].time)
  /\ \A k \in 1..n : s[k] \in Points(w)
  /\ \A p \in Points(w) : p.time \in Times(s) \/ \E a, b \in DOMAIN s : Between(p, s[a], s[b])

\* One more point with what is filled in before it.
LEMMA FillOnLemma ==
  ASSUME NEW s \in Seq(DataPoint), NEW n \in Nat, n >= 1, n + 1 <= Len(s),
         NEW w, IsFilledUp(w, s, n),
         NEW f, IsFill(f, s[n], s[n + 1])
  PROVE  IsFilledUp(w \o f, s, n + 1)
<1> DEFINE L == Len(w)
           M == Len(f)
           v == w \o f
<1>1. /\ w \in Seq(DataPoint) /\ L >= 1 /\ w[L] = s[n]
      /\ \A k \in 2..L : Follows(w[k - 1].time, w[k].time)
      /\ \A k \in 1..n : s[k] \in Points(w)
      /\ \A p \in Points(w) :
           p.time \in Times(s) \/ \E a, b \in DOMAIN s : Between(p, s[a], s[b])
  BY DEF IsFilledUp
<1>2. /\ f \in Seq(DataPoint) /\ M >= 1 /\ f[M] = s[n + 1]
      /\ Follows(s[n].time, f[1].time)
      /\ \A k \in 2..M : Follows(f[k - 1].time, f[k].time)
      /\ \A k \in 1..(M - 1) : Between(f[k], s[n], s[n + 1])
  BY DEF IsFill
<1>3. n \in DOMAIN s /\ n + 1 \in DOMAIN s
  OBVIOUS
<1>4. L \in Nat /\ M \in Nat
  BY <1>1, <1>2
<1>5. v \in Seq(DataPoint) /\ Points(v) = Points(w) \cup Points(f)
  BY <1>1, <1>2, PointsJoinedLemma
<1>6. /\ Len(v) = L + M
      /\ \A k \in 1..L : v[k] = w[k]
      /\ \A k \in 1..M : v[L + k] = f[k]
  BY <1>1, <1>2
<1> HIDE DEF v, L, M
<1>7. Len(v) >= 1 /\ v[Len(v)] = s[n + 1]
  BY <1>1, <1>2, <1>4, <1>6
<1>8. ASSUME NEW k \in 2..Len(v) PROVE Follows(v[k - 1].time, v[k].time)
  <2>1. CASE k <= L
    <3>1. v[k - 1] = w[k - 1] /\ v[k] = w[k] /\ k \in 2..L
      BY <1>4, <1>6, <2>1
    <3> QED
      BY <1>1, <3>1
  <2>2. CASE k = L + 1
    <3>1. v[k - 1] = s[n]
      <4>1. k - 1 = L /\ L \in 1..L
        BY <1>1, <1>4, <2>2
      <4> QED
        BY <1>1, <1>6, <4>1
    <3>2. v[k] = f[1]
      BY <1>2, <1>4, <1>6, <2>2
    <3> QED
      BY <1>2, <3>1, <3>2
  <2>3. CASE k > L + 1
    <3> DEFINE r == k - L
    <3>1. r \in 2..M /\ r - 1 \in 1..M /\ r \in 1..M /\ L + r = k /\ L + (r - 1) = k - 1
      BY <1>4, <1>6, <2>3
    <3> HIDE DEF r
    <3>2. v[k] = f[r] /\ v[k - 1] = f[r - 1]
      BY <1>6, <3>1
    <3> QED
      BY <1>2, <3>1, <3>2
  <2> QED
    BY <1>4, <2>1, <2>2, <2>3
<1>9. ASSUME NEW k \in 1..(n + 1) PROVE s[k] \in Points(v)
  <2>1. CASE k = n + 1
    <3>1. M \in DOMAIN f
      BY <1>2, <1>4 DEF M
    <3>2. f[M] \in Points(f)
      BY <3>1 DEF Points
    <3> QED
      BY <1>2, <1>5, <2>1, <3>2
  <2>2. CASE k # n + 1
    <3>1. k \in 1..n
      BY <2>2
    <3> QED
      BY <1>1, <1>5, <3>1
  <2> QED
    BY <2>1, <2>2
<1>10. ASSUME NEW p \in Points(v)
       PROVE  p.time \in Times(s) \/ \E a, b \in DOMAIN s : Between(p, s[a], s[b])
  <2>1. CASE p \in Points(w)
    BY <1>1, <2>1
  <2>2. CASE p \in Points(f)
    <3>1. PICK k \in 1..M : p = f[k]
      BY <1>2, <2>2 DEF Points, M
    <3>2. CASE k = M
      BY <1>2, <1>3, <3>1, <3>2 DEF Times
    <3>3. CASE k # M
      <4>1. k \in 1..(M - 1)
        BY <1>4, <3>3
      <4> QED
        BY <1>2, <1>3, <3>1, <4>1
    <3> QED
      BY <3>2, <3>3
  <2> QED
    BY <1>5, <2>1, <2>2
<1>11. IsFilledUp(v, s, n + 1)
  BY <1>5, <1>7, <1>8, <1>9, <1>10 DEF IsFilledUp
<1> QED
  BY <1>11 DEF v

\* All points, with the gaps between them filled in.
LEMMA InterpolationLemma ==
  ASSUME NEW s \in Seq(DataPoint), InOrder(s)
  PROVE  /\ interpolateMissingDataPoints(s) \in Seq(DataPoint)
         /\ s # << >> => IsFilledUp(interpolateMissingDataPoints(s), s, Len(s))
         /\ s = << >> => interpolateMissingDataPoints(s) = << >>
<1> DEFINE N == Len(s)
           seqs == [i \in DOMAIN s |-> IF i = 1 THEN <<s[i]>> ELSE Filled(s, i)]
<1>1. N \in Nat /\ DOMAIN s = 1..N /\ \A i \in 1..N : s[i] \in DataPoint
  OBVIOUS
<1>2. \A i \in 2..N : IsFill(Filled(s, i), s[i - 1], s[i])
  BY FilledLemma
<1>3. \A i \in 1..N : seqs[i] = IF i = 1 THEN <<s[i]>> ELSE Filled(s, i)
  OBVIOUS
<1>4. seqs \in Seq(Seq(DataPoint)) /\ Len(seqs) = N
  <2>1. ASSUME NEW i \in 1..N PROVE seqs[i] \in Seq(DataPoint)
    <3>1. CASE i = 1
      BY <1>1, <1>3, <3>1
    <3>2. CASE i # 1
      <4>1. i \in 2..N
        BY <1>1, <3>2
      <4> QED
        BY <1>2, <1>3, <3>2, <4>1 DEF IsFill
    <3> QED
      BY <3>1, <3>2
  <2>2. DOMAIN seqs = 1..N
    OBVIOUS
  <2>3. seqs = [i \in 1..N |-> seqs[i]]
    OBVIOUS
  <2> HIDE DEF seqs, N
  <2> QED
    BY <1>1, <2>1, <2>2, <2>3
<1>5. interpolateMissingDataPoints(s) = FlattenSeq(seqs)
  BY DEF interpolateMissingDataPoints
<1> HIDE DEF seqs, N
<1>6. PICK g \in [0..N -> Seq(DataPoint)] :
        /\ g[0] = << >>
        /\ \A n \in 1..N : g[n] = g[n - 1] \o seqs[n]
        /\ FlattenSeq(seqs) = g[N]
  BY <1>4, FlattenLemma
<1> DEFINE T == {n \in Nat : n + 1 <= N => IsFilledUp(g[n + 1], s, n + 1)}
<1>7. 0 \in T
  <2> SUFFICES ASSUME 1 <= N PROVE IsFilledUp(g[1], s, 1)
    OBVIOUS
  <2>1. g[1] = <<s[1]>>
    <3>1. 1 \in 1..N /\ 1 - 1 = 0
      BY <1>1
    <3>2. g[1] = << >> \o seqs[1] /\ seqs[1] = <<s[1]>>
      BY <1>3, <1>6, <3>1
    <3> QED
      BY <3>2
  <2>2. s[1] \in DataPoint /\ 1 \in DOMAIN s
    BY <1>1
  <2>3. /\ <<s[1]>> \in Seq(DataPoint) /\ Len(<<s[1]>>) = 1
        /\ Points(<<s[1]>>) = {s[1]}
    BY <2>2 DEF Points
  <2>4. s[1].time \in Times(s)
    BY <2>2 DEF Times
  <2>5. \A k \in 1..1 : k = 1
    OBVIOUS
  <2>6. 2..Len(g[1]) = {} /\ g[1][Len(g[1])] = s[1] /\ Len(g[1]) >= 1
    BY <2>1, <2>3
  <2> QED
    BY <2>1, <2>3, <2>4, <2>5, <2>6 DEF IsFilledUp
<1>8. ASSUME NEW n \in Nat, n \in T PROVE n + 1 \in T
  <2> SUFFICES ASSUME (n + 1) + 1 <= N PROVE IsFilledUp(g[(n + 1) + 1], s, (n + 1) + 1)
    OBVIOUS
  <2> DEFINE m == n + 1
  <2>1. m \in Nat /\ m >= 1 /\ m <= N /\ m + 1 <= N /\ m + 1 \in 2..N /\ (m + 1) - 1 = m
    BY <1>1
  <2>2. IsFilledUp(g[m], s, m)
    BY <1>8, <2>1
  <2> HIDE DEF m, T
  <2>3. g[m + 1] = g[m] \o seqs[m + 1] /\ seqs[m + 1] = Filled(s, m + 1)
    <3>1. m + 1 \in 1..N /\ m + 1 # 1
      BY <2>1
    <3> QED
      BY <1>3, <1>6, <2>1, <3>1
  <2>4. IsFill(seqs[m + 1], s[m], s[m + 1])
    <3>1. IsFill(Filled(s, m + 1), s[(m + 1) - 1], s[m + 1])
      BY <1>2, <2>1
    <3> QED
      BY <2>1, <2>3, <3>1
  <2>5. IsFilledUp(g[m] \o seqs[m + 1], s, m + 1)
    BY <2>1, <2>2, <2>4, FillOnLemma DEF N
  <2> QED
    BY <2>3, <2>5 DEF m
<1>9. ASSUME N >= 1 PROVE IsFilledUp(g[N], s, N)
  <2>1. N - 1 \in Nat /\ (N - 1) + 1 = N
    BY <1>1, <1>9
  <2> HIDE DEF T
  <2>2. N - 1 \in T
    BY <1>7, <1>8, <2>1, InductionLemma
  <2> QED
    BY <2>1, <2>2 DEF T
<1>10. s # << >> => N >= 1
  BY <1>1 DEF N
<1>11. s = << >> => g[N] = << >>
  BY <1>6 DEF N
<1>12. g[N] \in Seq(DataPoint)
  BY <1>1, <1>6
<1> QED
  BY <1>5, <1>6, <1>9, <1>10, <1>11, <1>12 DEF N

\* The response of a query for the utilization has no gaps.
LEMMA NoGapsLemma ==
  ASSUME ScraperInv
  PROVE  HasNoGaps
<1> SUFFICES ASSUME response.done, query = "utilization", ~response.err PROVE HasNoGaps
  BY DEF HasNoGaps
<1> DEFINE s == Aggregated
           w == response.points
<1>1. s \in Seq(DataPoint) /\ InOrder(s)
  BY AggregatedLemma DEF IsAggregate
<1>2. w = interpolateMissingDataPoints(s)
  BY DEF ScraperInv, ResponseInv
<1> HIDE DEF s, w
<1>3. CASE s = << >>
  <2>1. w = << >>
    BY <1>1, <1>2, <1>3, InterpolationLemma
  <2>2. /\ IsSortedByTime(w)
        /\ \A n \in 2..Len(w) : w[n].time - w[n - 1].time < 2 * Step
        /\ DOMAIN s = {} /\ DOMAIN w = {}
    BY <1>3, <2>1 DEF IsSortedByTime
  <2> QED
    BY <2>2 DEF HasNoGaps, s, w
<1>4. CASE s # << >>
  <2>1. IsFilledUp(w, s, Len(s))
    BY <1>1, <1>2, <1>4, InterpolationLemma
  <2>2. /\ w \in Seq(DataPoint)
        /\ \A k \in 2..Len(w) : Follows(w[k - 1].time, w[k].time)
        /\ \A k \in 1..Len(s) : s[k] \in Points(w)
        /\ \A p \in Points(w) :
             p.time \in Times(s) \/ \E a, b \in DOMAIN s : Between(p, s[a], s[b])
    BY <2>1 DEF IsFilledUp
  <2>3. IsSortedByTime(w)
    BY <2>2 DEF IsSortedByTime, Follows
  <2>4. \A n \in 2..Len(w) : w[n].time - w[n - 1].time < 2 * Step
    BY <2>2 DEF Follows
  <2>5. \A n \in DOMAIN s : \E m \in DOMAIN w : w[m] = s[n]
    <3>1. DOMAIN s = 1..Len(s)
      BY <1>1
    <3> QED
      BY <2>2, <3>1 DEF Points
  <2>6. \A n \in DOMAIN w : w[n].time \in Times(s) \/
          \E a, b \in DOMAIN s :
            /\ s[a].time < w[n].time /\ w[n].time < s[b].time
            /\ w[n].value <= Max({s[a].value, s[b].value})
            /\ w[n].value >= Min({s[a].value, s[b].value})
    <3>1. \A n \in DOMAIN w : w[n] \in Points(w)
      BY DEF Points
    <3> QED
      BY <2>2, <3>1 DEF Between
  <2> QED
    BY <2>3, <2>4, <2>5, <2>6 DEF HasNoGaps, s, w
<1> QED
  BY <1>3, <1>4

--------------------------------------------------------------------------------
(***************************************************************************)
(* The steps of the scraper.                                               *)
(***************************************************************************)
\* A call that begins has no answer, no result and no response.
LEMMA ScraperInitLemma == ScraperInit => ScraperInv
<1> SUFFICES ASSUME ScraperInit PROVE ScraperInv
  OBVIOUS
<1> USE DEF ScraperInit
<1>1. ScraperTypeOK
  BY ScraperAssumption DEF ScraperTypeOK, NoResponse
<1>2. AreSeries
  <2> SUFFICES ASSUME NEW i \in Instance PROVE IsSeries(series[i])
    BY DEF AreSeries
  <2>1. series[i] \in Series
    OBVIOUS
  <2> QED
    BY <2>1, ScraperAssumption DEF IsSeries
<1>3. \A i \in Instance : OneAnswerEach(i)
  BY DEF OneAnswerEach
<1>4. ResultsInv /\ ResponseInv
  BY DEF ResultsInv, ResponseInv, NoResponse
<1> QED
  BY <1>1, <1>2, <1>3, <1>4 DEF ScraperInv

\* What is left when the call has ended.
LEMMA ScraperEndsLemma == ScraperInv /\ ScraperEnds => ScraperInv'
<1> SUFFICES ASSUME ScraperInv, ScraperEnds PROVE ScraperInv'
  OBVIOUS
<1> USE DEF ScraperEnds
<1>1. ScraperTypeOK'
  BY DEF ScraperInv, ScraperTypeOK, NoResponse
<1>2. AreSeries'
  BY DEF AreSeries, IsSeries
<1>3. \A i \in Instance : OneAnswerEach(i)'
  BY DEF OneAnswerEach
<1>4. ResultsInv' /\ ResponseInv'
  BY DEF ResultsInv, ResponseInv, NoResponse
<1> QED
  BY <1>1, <1>2, <1>3, <1>4 DEF ScraperInv

\* The result of an instance depends on its own answers only.
LEMMA SameResultLemma ==
  ASSUME NEW j, series' = series, answers'[j] = answers[j]
  PROVE  /\ Answered(j)' = Answered(j)
         /\ InstanceResult(j, QueryRangeByInterval(j))' =
              InstanceResult(j, QueryRangeByInterval(j))
<1>1. Answered(j)' = Answered(j)
  BY DEF Answered
<1>2. Failed(j)' = Failed(j)
  BY DEF Failed
<1>3. QueryRangeByInterval(j)' = QueryRangeByInterval(j)
  BY DEF QueryRangeByInterval
<1> QED
  BY <1>1, <1>2, <1>3 DEF InstanceResult

\* The response depends on the results only.
LEMMA SameResponseLemma ==
  ASSUME ResponseInv, UNCHANGED <<query, results, response>>
  PROVE  ResponseInv'
<1>1. Aggregated' = Aggregated
  BY DEF Aggregated
<1>2. AllResponded' = AllResponded
  BY DEF AllResponded, Responded
<1> QED
  BY <1>1, <1>2 DEF ResponseInv

LEMMA SameSeriesLemma ==
  ASSUME AreSeries, UNCHANGED series
  PROVE  AreSeries'
BY DEF AreSeries

LEMMA SameAnswersLemma ==
  ASSUME NEW i, OneAnswerEach(i), answers'[i] = answers[i]
  PROVE  OneAnswerEach(i)'
BY DEF OneAnswerEach

\* The invariant speaks of the variables of the scraper only.
LEMMA ScraperStutterLemma == ScraperInv /\ UNCHANGED scraperVars => ScraperInv'
<1> SUFFICES ASSUME ScraperInv, UNCHANGED scraperVars PROVE ScraperInv'
  OBVIOUS
<1>1. UNCHANGED <<query, series, answers, results, response, queryFaults>>
  BY DEF scraperVars
<1>2. ScraperTypeOK'
  BY <1>1 DEF ScraperInv, ScraperTypeOK
<1>3. AreSeries'
  BY <1>1, SameSeriesLemma DEF ScraperInv
<1>4. \A i \in Instance : OneAnswerEach(i)'
  BY <1>1, SameAnswersLemma DEF ScraperInv
<1>5. ResultsInv'
  <2> SUFFICES ASSUME NEW n \in DOMAIN results PROVE IsResult(results[n])'
    BY <1>1 DEF ResultsInv
  <2>1. IsResult(results[n])
    BY DEF ScraperInv, ResultsInv
  <2> QED
    BY <1>1, <2>1, SameResultLemma DEF IsResult
<1>6. ResponseInv'
  BY <1>1, SameResponseLemma DEF ScraperInv
<1> QED
  BY <1>2, <1>3, <1>4, <1>5, <1>6 DEF ScraperInv

\* An answer goes to an instance that has no result yet.
LEMMA AnswerLemma ==
  ASSUME ScraperInv, NEW i \in Instance, NEW range \in SplitRange, NEW err \in BOOLEAN,
         Answer(i, range, err), queryFaults' \in Nat
  PROVE  ScraperInv'
<1> DEFINE R == [range : SplitRange, err : BOOLEAN]
           a == answers[i]
           x == [range |-> range, err |-> err]
<1>1. /\ range \notin Answered(i)
      /\ answers' = [answers EXCEPT ![i] = Append(@, x)]
      /\ UNCHANGED <<query, series, results, response>>
  BY DEF Answer
<1>2. /\ ScraperTypeOK /\ AreSeries /\ (\A j \in Instance : OneAnswerEach(j))
      /\ ResultsInv /\ ResponseInv
  BY DEF ScraperInv
<1>3. answers \in [Instance -> Seq(R)] /\ x \in R
  BY <1>2 DEF ScraperTypeOK
<1>4. a \in Seq(R)
  BY <1>3
<1>5. answers'[i] = Append(a, x) /\ \A j \in Instance : j # i => answers'[j] = answers[j]
  BY <1>1, <1>3
<1>6. ScraperTypeOK'
  <2>1. answers' \in [Instance -> Seq(R)]
    <3> HIDE DEF R, x
    <3>1. Append(a, x) \in Seq(R)
      BY <1>3, <1>4
    <3> QED
      BY <1>1, <1>3, <3>1
  <2>2. SplitRange' = SplitRange
    BY DEF SplitRange
  <2> HIDE DEF x
  <2> QED
    BY <1>1, <1>2, <2>1, <2>2 DEF ScraperTypeOK
<1>7. \A j \in Instance : OneAnswerEach(j)'
  <2> SUFFICES ASSUME NEW j \in Instance PROVE OneAnswerEach(j)'
    OBVIOUS
  <2>1. CASE j # i
    BY <1>2, <1>5, <2>1, SameAnswersLemma
  <2>2. CASE j = i
    <3> DEFINE b == Append(a, x)
               N == Len(a)
    <3>1. N \in Nat /\ DOMAIN a = 1..N
      BY <1>4
    <3>2. /\ DOMAIN b = 1..(N + 1)
          /\ b[N + 1] = x
          /\ \A n \in 1..N : b[n] = a[n]
      <4> HIDE DEF R, x
      <4> QED
        BY <1>3, <1>4
    <3>3. x.range = range
      OBVIOUS
    <3>4. \A n \in 1..N : a[n].range # range
      BY <1>1, <3>1 DEF Answered
    <3>5. \A m, n \in 1..N : a[m].range = a[n].range => m = n
      BY <1>2, <3>1 DEF OneAnswerEach
    <3> HIDE DEF N, x, b
    <3>6. \A n \in 1..(N + 1) : n \in 1..N \/ n = N + 1
      BY <3>1
    <3>7. \A m, n \in 1..(N + 1) : b[m].range = b[n].range => m = n
      BY <3>2, <3>3, <3>4, <3>5, <3>6
    <3>8. answers'[j] = b
      BY <1>5, <2>2 DEF b
    <3> QED
      BY <3>2, <3>7, <3>8 DEF OneAnswerEach
  <2> QED
    BY <2>1, <2>2
<1>8. ResultsInv'
  <2> SUFFICES ASSUME NEW n \in DOMAIN results PROVE IsResult(results[n])'
    BY <1>1 DEF ResultsInv
  <2>1. IsResult(results[n])
    BY <1>2 DEF ResultsInv
  <2>2. results[n].instance \in Instance
    <3> DEFINE Q == [instance : Instance, points : Seq(DataPoint)]
    <3>1. results \in Seq(Q)
      BY <1>2 DEF ScraperTypeOK
    <3> HIDE DEF Q
    <3>2. results[n] \in Q
      BY <3>1
    <3> QED
      BY <3>2 DEF Q
  <2>3. results[n].instance # i
    BY <1>1, <2>1 DEF IsResult
  <2>4. answers'[results[n].instance] = answers[results[n].instance]
    BY <1>5, <2>2, <2>3
  <2>5. SplitRange' = SplitRange /\ results'[n] = results[n]
    BY <1>1 DEF SplitRange
  <2> QED
    BY <1>1, <2>1, <2>4, <2>5, SameResultLemma DEF IsResult
<1> QED
  BY <1>1, <1>2, <1>6, <1>7, <1>8, SameSeriesLemma, SameResponseLemma DEF ScraperInv

\* The result of an instance with all answers, while there is no response.
LEMMA RespondLemma ==
  ASSUME ScraperInv, NEW i \in Instance, Respond(i)
  PROVE  ScraperInv'
<1> DEFINE R == [instance : Instance, points : Seq(DataPoint)]
           points == InstanceResult(i, QueryRangeByInterval(i))
           x == [instance |-> i, points |-> points]
<1>1. /\ Answered(i) = SplitRange
      /\ i \notin Responded
      /\ results' = Append(results, x)
      /\ UNCHANGED <<query, series, answers, response, queryFaults>>
  BY DEF Respond
<1>2. /\ ScraperTypeOK /\ AreSeries /\ (\A j \in Instance : OneAnswerEach(j))
      /\ ResultsInv /\ ResponseInv
  BY DEF ScraperInv
<1>3. points \in Seq(DataPoint)
  BY <1>1, <1>2, InstanceLemma DEF IsAggregate
<1> HIDE DEF points
<1>4. results \in Seq(R) /\ x \in R
  BY <1>2, <1>3 DEF ScraperTypeOK
<1>5. ScraperTypeOK'
  <2>1. results' \in Seq(R)
    <3> HIDE DEF R, x
    <3> QED
      BY <1>1, <1>4
  <2>2. SplitRange' = SplitRange
    BY DEF SplitRange
  <2> HIDE DEF x
  <2> QED
    BY <1>1, <1>2, <2>1, <2>2 DEF ScraperTypeOK
<1>6. \A j \in Instance : OneAnswerEach(j)'
  BY <1>1, <1>2, SameAnswersLemma
<1>7. ResultsInv'
  <2> SUFFICES ASSUME NEW n \in DOMAIN results' PROVE IsResult(results[n])'
    BY DEF ResultsInv
  <2> DEFINE N == Len(results)
  <2>1. /\ N \in Nat /\ DOMAIN results = 1..N /\ DOMAIN results' = 1..(N + 1)
        /\ results'[N + 1] = x
        /\ \A k \in 1..N : results'[k] = results[k]
    <3> HIDE DEF R, x
    <3> QED
      BY <1>1, <1>4
  <2> HIDE DEF N
  <2>2. SplitRange' = SplitRange
    BY DEF SplitRange
  <2>3. CASE n = N + 1
    <3>1. results'[n].instance = i /\ results'[n].points = points
      BY <2>1, <2>3
    <3>2. Answered(i)' = Answered(i)
      BY <1>1, SameResultLemma
    <3>3. InstanceResult(i, QueryRangeByInterval(i))' = points
      BY <1>1, SameResultLemma DEF points
    <3> QED
      BY <1>1, <2>2, <3>1, <3>2, <3>3 DEF IsResult
  <2>4. CASE n # N + 1
    <3>1. n \in DOMAIN results /\ results'[n] = results[n]
      BY <2>1, <2>4
    <3>2. IsResult(results[n])
      BY <1>2, <3>1 DEF ResultsInv
    <3> QED
      BY <1>1, <2>2, <3>1, <3>2, SameResultLemma DEF IsResult
  <2> QED
    BY <2>3, <2>4
<1>8. ResponseInv'
  <2>1. ~response.done
    BY <1>1, <1>2 DEF ResponseInv, AllResponded
  <2> QED
    BY <1>1, <2>1 DEF ResponseInv
<1> QED
  BY <1>1, <1>2, <1>5, <1>6, <1>7, <1>8, SameSeriesLemma DEF ScraperInv

\* The two calls return what they have made of the aggregate.
LEMMA ReturnLemma ==
  ASSUME ScraperInv, AllResponded, UNCHANGED <<query, series, answers, results, queryFaults>>,
         NEW err \in BOOLEAN, NEW points \in Seq(DataPoint), Return(err, points),
         query = "breach" => ~err /\ points = Aggregated,
         query = "utilization" =>
           IF err THEN points = << >> ELSE points = interpolateMissingDataPoints(Aggregated)
  PROVE  ScraperInv'
<1>1. /\ response' = [done |-> TRUE, err |-> err, points |-> points]
      /\ response'.done /\ response'.err = err /\ response'.points = points
  BY DEF Return
<1>2. /\ ScraperTypeOK /\ AreSeries /\ (\A j \in Instance : OneAnswerEach(j))
      /\ ResultsInv
  BY DEF ScraperInv
<1>3. ScraperTypeOK'
  <2>1. response' \in [done : BOOLEAN, err : BOOLEAN, points : Seq(DataPoint)]
    BY <1>1
  <2>2. SplitRange' = SplitRange
    BY DEF SplitRange
  <2> QED
    BY <1>2, <2>1, <2>2 DEF ScraperTypeOK
<1>4. \A j \in Instance : OneAnswerEach(j)'
  BY <1>2, SameAnswersLemma
<1>5. ResultsInv'
  <2> SUFFICES ASSUME NEW n \in DOMAIN results PROVE IsResult(results[n])'
    BY DEF ResultsInv
  <2>1. IsResult(results[n])
    BY <1>2 DEF ResultsInv
  <2> QED
    BY <2>1, SameResultLemma DEF IsResult
<1>6. ResponseInv'
  <2>1. Aggregated' = Aggregated
    BY DEF Aggregated
  <2>2. AllResponded'
    BY DEF AllResponded, Responded
  <2> QED
    BY <1>1, <2>1, <2>2 DEF ResponseInv
<1> QED
  BY <1>2, <1>3, <1>4, <1>5, <1>6, SameSeriesLemma DEF ScraperInv

\* Every step of the scraper keeps the invariant.
LEMMA ScraperNextLemma == ScraperInv /\ ScraperNext => ScraperInv'
<1> SUFFICES ASSUME ScraperInv, ScraperNext PROVE ScraperInv'
  OBVIOUS
<1>1. queryFaults \in Nat
  BY DEF ScraperInv, ScraperTypeOK
<1>2. Aggregated \in Seq(DataPoint) /\ InOrder(Aggregated)
  BY AggregatedLemma DEF IsAggregate
<1>3. ASSUME NEW i \in Instance, NEW range \in SplitRange, AnswerRange(i, range)
      PROVE  ScraperInv'
  <2>1. Answer(i, range, FALSE) /\ queryFaults' = queryFaults
    BY <1>3 DEF AnswerRange
  <2> QED
    BY <1>1, <2>1, AnswerLemma
<1>4. ASSUME NEW i \in Instance, NEW range \in SplitRange, FailRange(i, range)
      PROVE  ScraperInv'
  <2>1. Answer(i, range, TRUE) /\ queryFaults' = queryFaults - 1 /\ queryFaults > 0
    BY <1>4 DEF FailRange
  <2>2. queryFaults' \in Nat
    BY <1>1, <2>1
  <2> QED
    BY <2>1, <2>2, AnswerLemma
<1>5. ASSUME NEW i \in Instance, Respond(i) PROVE ScraperInv'
  BY <1>5, RespondLemma
<1>6. CASE GetAverageCPUUtilizationByWorkload
  <2>1. /\ AllResponded /\ query = "utilization"
        /\ UNCHANGED <<query, series, answers, results, queryFaults>>
    BY <1>6 DEF GetAverageCPUUtilizationByWorkload
  <2>2. CASE Aggregated = << >>
    <3>1. Return(TRUE, << >>)
      BY <1>6, <2>2 DEF GetAverageCPUUtilizationByWorkload
    <3>2. << >> \in Seq(DataPoint)
      BY EmptyLemma
    <3> QED
      BY <2>1, <3>1, <3>2, ReturnLemma
  <2>3. CASE Aggregated # << >>
    <3>1. Return(FALSE, interpolateMissingDataPoints(Aggregated))
      BY <1>6, <2>3 DEF GetAverageCPUUtilizationByWorkload
    <3>2. interpolateMissingDataPoints(Aggregated) \in Seq(DataPoint)
      BY <1>2, InterpolationLemma
    <3> QED
      BY <2>1, <3>1, <3>2, ReturnLemma
  <2> QED
    BY <2>2, <2>3
<1>7. CASE GetCPUUtilizationBreachDataPoints
  <2>1. /\ AllResponded /\ query = "breach"
        /\ Return(FALSE, Aggregated)
        /\ UNCHANGED <<query, series, answers, results, queryFaults>>
    BY <1>7 DEF GetCPUUtilizationBreachDataPoints
  <2> QED
    BY <1>2, <2>1, ReturnLemma
<1> QED
  BY <1>3, <1>4, <1>5, <1>6, <1>7 DEF ScraperNext
================================================================================
