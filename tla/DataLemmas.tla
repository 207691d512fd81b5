----------------------------- MODULE DataLemmas -----------------------------
(***************************************************************************)
(* What the proofs need of numbers, of the order Ranking gives, of the     *)
(* library's folds and of the line at a lock.                              *)
(*                                                                         *)
(* Induction is over sets here: a set of natural numbers with 0 in it, and *)
(* with n + 1 in it for every n in it, holds them all.                     *)
(***************************************************************************)
EXTENDS Ranking, Sequences, FiniteSetsExt, FiniteSetTheorems, FunctionTheorems, TLAPS

\* What div and mod are, for the provers.
LEMMA Division ==
  ASSUME NEW n \in Int, NEW d \in Nat \ {0}
  PROVE  /\ n \div d \in Int /\ n % d \in 0 .. d - 1
         /\ n = (d * (n \div d)) + (n % d)
  OBVIOUS

\* A factor that is positive can be left out of a comparison.
LEMMA DivisionBound ==
  ASSUME NEW q \in Int, NEW m \in Int, NEW d \in Nat \ {0}, d * q < d * m
  PROVE  q < m
<1>1. SUFFICES ASSUME q >= m PROVE FALSE
  OBVIOUS
<1>2. d * (q - m) >= 0
  BY <1>1
<1>3. d * (q - m) = d * q - d * m
  OBVIOUS
<1> QED
  BY <1>2, <1>3

\* A quotient and a remainder are the only ones.
LEMMA DivisionIs ==
  ASSUME NEW n \in Int, NEW d \in Nat \ {0}, NEW q \in Int, NEW r \in 0 .. d - 1, n = d * q + r
  PROVE  n \div d = q /\ n % d = r
<1> DEFINE p == n \div d
           s == n % d
<1>1. p \in Int /\ s \in 0 .. d - 1 /\ n = d * p + s
  BY Division
<1> HIDE DEF p, s
<1>2. d * q < d * (p + 1) /\ d * p < d * (q + 1)
  <2>1. d * (p + 1) = d * p + d /\ d * (q + 1) = d * q + d /\ d * p \in Int /\ d * q \in Int
    BY <1>1
  <2> QED
    BY <1>1, <2>1
<1>3. q < p + 1 /\ p < q + 1
  BY <1>1, <1>2, DivisionBound
<1>4. p = q
  BY <1>1, <1>3
<1>5. s = r
  <2>1. d * p \in Int /\ d * p = d * q
    BY <1>1, <1>4
  <2> QED
    BY <1>1, <2>1
<1> QED
  BY <1>4, <1>5 DEF p, s

\* A set of natural numbers that is not empty has a least one.
LEMMA NatMin ==
  ASSUME NEW T, T \subseteq Nat, T # {}
  PROVE  \E m \in T : \A n \in T : m <= n
<1> DEFINE Below == {1 .. n : n \in T}
<1>1. IsWellFoundedOn(StrictSubsetOrdering(Nat), FiniteSubsetsOf(Nat))
  BY FS_StrictSubsetOrderingWellFounded
<1>2. Below \subseteq FiniteSubsetsOf(Nat) /\ Below # {}
  <2>1. ASSUME NEW n \in T PROVE 1 .. n \in FiniteSubsetsOf(Nat)
    BY FS_Interval DEF FiniteSubsetsOf
  <2> QED
    BY <2>1
<1> HIDE DEF Below
<1>3. PICK x \in Below : \A y \in Below : <<y, x>> \notin StrictSubsetOrdering(Nat)
  BY <1>1, <1>2, WFMin
<1> USE DEF Below
<1>4. PICK m \in T : x = 1 .. m
  BY <1>3
<1>5. ASSUME NEW n \in T, n < m PROVE FALSE
  <2>1. 1 .. n \subseteq 1 .. m /\ 1 .. n # 1 .. m /\ 1 .. n \in Below
    BY <1>5
  <2>2. <<1 .. n, x>> \in StrictSubsetOrdering(Nat)
    BY <2>1, <1>4 DEF StrictSubsetOrdering
  <2> QED
    BY <1>3, <2>1, <2>2
<1> QED
  BY <1>5

\* Induction, about a set instead of a predicate.
LEMMA SetInduction ==
  ASSUME NEW T, 0 \in T, \A n \in T : n \in Nat => n + 1 \in T
  PROVE  Nat \subseteq T
<1> SUFFICES ASSUME Nat \ T # {} PROVE FALSE
  OBVIOUS
<1>1. PICK m \in Nat \ T : \A n \in Nat \ T : m <= n
  BY NatMin
<1>2. m # 0 
  BY <1>1
<1>3. m - 1 \in T /\ m - 1 \in Nat
  BY <1>1, <1>2
<1> QED
  BY <1>1, <1>3

\* A set of natural numbers with a bound has a greatest one.
LEMMA MaxOfBounded ==
  ASSUME NEW s \in SUBSET Nat, s # {}, NEW n \in Nat, \A x \in s : x <= n
  PROVE  Max(s) \in s /\ \A y \in s : y <= Max(s)
<1> DEFINE T == {n - x : x \in s}
<1>1. ASSUME NEW x \in s PROVE n - x \in Nat
  BY <1>1
<1>2. T \subseteq Nat /\ T # {}
  BY <1>1
<1>3. PICK m \in T : \A k \in T : m <= k
  BY <1>2, NatMin
<1>4. PICK x \in s : m = n - x
  BY <1>3
<1>5. ASSUME NEW y \in s PROVE x >= y
  <2>1. n - y \in T
    OBVIOUS
  <2>2. n - x <= n - y
    BY <2>1, <1>3, <1>4
  <2> QED
    BY <2>2
<1> QED
  BY <1>5 DEF Max

\* The greatest of some of the first numbers is one of them.
LEMMA MaxIsMember ==
  ASSUME NEW n \in Nat, NEW s \in SUBSET (1 .. n), s # {}
  PROVE  Max(s) \in s /\ \A y \in s : y <= Max(s)
<1>1. s \in SUBSET Nat /\ \A x \in s : x <= n
  OBVIOUS
<1> QED
  BY <1>1, MaxOfBounded

\* Max is what it says.
LEMMA MaxIs ==
  ASSUME NEW s \in SUBSET Int, NEW x \in s, \A y \in s : y <= x
  PROVE  Max(s) = x
<1>1. \A y \in s : x >= y
  OBVIOUS
<1>2. \E z \in s : \A y \in s : z >= y
  BY <1>1
<1>3. Max(s) \in s /\ \A y \in s : Max(s) >= y
  BY <1>2 DEF Max
<1>4. Max(s) \in Int /\ x \in Int /\ Max(s) <= x /\ Max(s) >= x
  BY <1>3
<1> QED
  BY <1>4

\* Min is what it says.
LEMMA MinIs ==
  ASSUME NEW s \in SUBSET Int, NEW x \in s, \A y \in s : x <= y
  PROVE  Min(s) = x
<1>1. \E z \in s : \A y \in s : z <= y
  OBVIOUS
<1>2. Min(s) \in s /\ \A y \in s : Min(s) <= y
  BY <1>1 DEF Min
<1>3. Min(s) \in Int /\ x \in Int /\ Min(s) <= x /\ x <= Min(s)
  BY <1>2
<1> QED
  BY <1>3

\* f folds step over every set of the first numbers, the greatest member last.
IsFold(f, n, A, b, step) ==
  /\ f \in [SUBSET (1 .. n) -> A]
  /\ \A s \in SUBSET (1 .. n) :
       f[s] = IF s = {} THEN b ELSE step[<<f[s \ {Max(s)}], Max(s)>>]

\* A function that folds a step over the sets of the first numbers exists: what
\* the folds of the library choose.
LEMMA FoldExists ==
  ASSUME NEW n \in Nat, NEW A, NEW b \in A, NEW step \in [A \X (1 .. n) -> A]
  PROVE  \E f : IsFold(f, n, A, b, step)
<1> DEFINE Is(f, m) == \A s \in SUBSET (1 .. m) :
             f[s] = IF s = {} THEN b ELSE step[<<f[s \ {Max(s)}], Max(s)>>]
           T == {m \in Nat : m <= n => \E f \in [SUBSET (1 .. m) -> A] : Is(f, m)}
<1> HIDE DEF Is
<1>1. 0 \in T
  <2> DEFINE f == [s \in SUBSET (1 .. 0) |-> b]
  <2>1. f \in [SUBSET (1 .. 0) -> A] /\ \A s \in SUBSET (1 .. 0) : s = {}
    OBVIOUS
  <2>2. Is(f, 0)
    BY <2>1 DEF Is
  <2> QED
    BY <2>1, <2>2
<1>2. ASSUME NEW m \in T, m \in Nat, m + 1 <= n PROVE m + 1 \in T
  <2>0. m \in Nat /\ m <= n
    BY <1>2
  <2>1. PICK f \in [SUBSET (1 .. m) -> A] : Is(f, m)
    BY <2>0, <1>2, Zenon
  <2> DEFINE g == [s \in SUBSET (1 .. m + 1) |->
                     IF m + 1 \in s THEN step[<<f[s \ {m + 1}], m + 1>>] ELSE f[s]]
  <2>2. ASSUME NEW s \in SUBSET (1 .. m + 1), m + 1 \in s
        PROVE  /\ s \ {m + 1} \in SUBSET (1 .. m)
               /\ Max(s) = m + 1
               /\ g[s] = step[<<g[s \ {m + 1}], m + 1>>] /\ g[s] \in A
    <3>1. s \ {m + 1} \in SUBSET (1 .. m)
      OBVIOUS
    <3>2. Max(s) = m + 1
      <4>1. \A y \in s : y <= m + 1
        OBVIOUS
      <4> QED
        BY <4>1, <2>2, MaxIs
    <3>3. g[s \ {m + 1}] = f[s \ {m + 1}]
      <4>1. s \ {m + 1} \in SUBSET (1 .. m + 1)
        OBVIOUS
      <4> QED
        BY <4>1
    <3>4. g[s] = step[<<f[s \ {m + 1}], m + 1>>]
      BY <2>2
    <3>5. <<f[s \ {m + 1}], m + 1>> \in A \X (1 .. n)
      BY <3>1, <1>2
    <3> QED
      BY <3>1, <3>2, <3>3, <3>4, <3>5
  <2>3. ASSUME NEW s \in SUBSET (1 .. m + 1), m + 1 \notin s
        PROVE  /\ s \in SUBSET (1 .. m) /\ g[s] = f[s] /\ g[s] \in A
               /\ g[s \ {Max(s)}] = f[s \ {Max(s)}]
    <3>1. s \in SUBSET (1 .. m)
      BY <2>3
    <3>2. s \ {Max(s)} \in SUBSET (1 .. m + 1) /\ m + 1 \notin s \ {Max(s)}
      BY <2>3
    <3> QED
      BY <3>1, <3>2, <2>3
  <2>4. g \in [SUBSET (1 .. m + 1) -> A]
    BY <2>2, <2>3
  <2> HIDE DEF g
  <2>5. ASSUME NEW s \in SUBSET (1 .. m + 1)
        PROVE  g[s] = IF s = {} THEN b ELSE step[<<g[s \ {Max(s)}], Max(s)>>]
    <3>1. CASE m + 1 \in s
      BY <3>1, <2>2
    <3>2. CASE m + 1 \notin s
      BY <3>2, <2>3, <2>1 DEF Is
    <3> QED
      BY <3>1, <3>2
  <2>6. Is(g, m + 1)
    BY <2>5 DEF Is
  <2> QED
    BY <2>4, <2>6
<1>3. \A m \in T : m \in Nat => m + 1 \in T
  <2>1. ASSUME NEW m \in T, m \in Nat, ~(m + 1 <= n) PROVE m + 1 \in T
    BY <2>1
  <2> QED
    BY <2>1, <1>2
<1> HIDE DEF T
<1>4. Nat \subseteq T
  BY <1>1, <1>3, SetInduction
<1>5. \E f \in [SUBSET (1 .. n) -> A] : Is(f, n)
  <2>1. n \in T /\ n <= n
    BY <1>4
  <2> USE DEF T
  <2> QED
    BY <2>1, Zenon
<1> QED
  BY <1>5 DEF Is, IsFold

\* g goes from b step by step.
IsSteps(g, n, A, b, step) ==
  /\ g \in [0 .. n -> A] /\ g[0] = b
  /\ \A i \in 1 .. n : g[i] = step[<<g[i - 1], i>>]

\* It ends in v.
StepsTo(v, n, A, b, step) == \E g : IsSteps(g, n, A, b, step) /\ g[n] = v

\* What folds over the sets of the first numbers goes step by step over them.
LEMMA FoldSteps ==
  ASSUME NEW n \in Nat, NEW A, NEW b \in A, NEW step \in [A \X (1 .. n) -> A],
         NEW iter, iter[{}] = b,
         \A s \in SUBSET (1 .. n) : s # {} /\ iter[s \ {Max(s)}] \in A =>
           iter[s] = step[<<iter[s \ {Max(s)}], Max(s)>>]
  PROVE  StepsTo(iter[1 .. n], n, A, b, step)
<1> DEFINE g == [i \in 0 .. n |-> iter[1 .. i]]
<1>1. g[0] = b
  <2>1. 1 .. 0 = {}
    OBVIOUS
  <2> QED
    BY <2>1
<1>2. ASSUME NEW i \in 1 .. n, g[i - 1] \in A PROVE g[i] = step[<<g[i - 1], i>>]
  <2>1. /\ 1 .. i \in SUBSET (1 .. n) /\ 1 .. i # {} /\ i \in 1 .. i
    <3>1. i \in 1 .. i /\ \A j \in 1 .. i : j \in 1 .. n
      OBVIOUS
    <3> QED
      BY <3>1
  <2>2. Max(1 .. i) = i
    <3>1. 1 .. i \in SUBSET Int /\ \A y \in 1 .. i : y <= i
      OBVIOUS
    <3> QED
      BY <2>1, <3>1, MaxIs
  <2>3. (1 .. i) \ {i} = 1 .. i - 1
    OBVIOUS
  <2>4. g[i] = iter[1 .. i] /\ g[i - 1] = iter[1 .. i - 1]
    OBVIOUS
  <2> HIDE DEF g
  <2> QED
    BY <1>2, <2>1, <2>2, <2>3, <2>4
<1>3. g[n] = iter[1 .. n] /\ g = [i \in 0 .. n |-> g[i]]
  OBVIOUS
<1> HIDE DEF g
<1>4. ASSUME NEW i \in 0 .. n PROVE g[i] \in A
  <2> DEFINE T == {j \in Nat : j <= n => g[j] \in A}
  <2>1. 0 \in T
    BY <1>1
  <2>2. ASSUME NEW j \in T, j \in Nat PROVE j + 1 \in T
    <3>1. CASE j + 1 <= n
      <4>1. j + 1 \in 1 .. n /\ (j + 1) - 1 = j /\ g[j] \in A
        BY <3>1, <2>2
      <4>2. g[j + 1] = step[<<g[j], j + 1>>]
        BY <4>1, <1>2
      <4> QED
        BY <4>1, <4>2
    <3>2. CASE ~(j + 1 <= n)
      BY <3>2
    <3> QED
      BY <3>1, <3>2
  <2> HIDE DEF T
  <2>3. Nat \subseteq T
    BY <2>1, <2>2, SetInduction
  <2> USE DEF T
  <2> QED
    BY <2>3
<1>5. \A i \in 1 .. n : g[i] = step[<<g[i - 1], i>>]
  BY <1>2, <1>4
<1> QED
  BY <1>1, <1>3, <1>4, <1>5 DEF IsSteps, StepsTo

\* Pairs from which other pairs can be told are no more than these.
LEMMA NoMoreThan ==
  ASSUME NEW S, NEW T, IsFiniteSet(T), NEW R,
         \A x \in S : \E y \in T : <<x, y>> \in R,
         \A x, z \in S, y \in T : <<x, y>> \in R /\ <<z, y>> \in R => x = z
  PROVE  IsFiniteSet(S) /\ Cardinality(S) <= Cardinality(T)
<1> DEFINE f == [x \in S |-> CHOOSE y \in T : <<x, y>> \in R]
<1>1. \A x \in S : f[x] \in T /\ <<x, f[x]>> \in R
  OBVIOUS
<1>2. f \in [S -> T]
  BY <1>1
<1> HIDE DEF f
<1>3. f \in Injection(S, T)
  BY <1>1, <1>2 DEF Injection, IsInjective
<1> QED
  BY <1>3, FS_Injection

\* R orders S, strictly and totally.
StrictOrder(S, R) ==
  /\ \A x \in S : <<x, x>> \notin R
  /\ \A x, y, z \in S : <<x, y>> \in R /\ <<y, z>> \in R => <<x, z>> \in R
  /\ \A x, y \in S : x # y => <<x, y>> \in R \/ <<y, x>> \in R

\* The members of S before x.
Behind(x, S, R) == {y \in S : <<y, x>> \in R}

\* Fewer members are before one than there are.
LEMMA BehindCount ==
  ASSUME NEW S, IsFiniteSet(S), NEW R, StrictOrder(S, R), NEW x \in S
  PROVE  /\ IsFiniteSet(Behind(x, S, R))
         /\ Cardinality(Behind(x, S, R)) \in 0 .. Cardinality(S) - 1
<1>1. Behind(x, S, R) \in SUBSET S /\ x \notin Behind(x, S, R)
  BY DEF Behind, StrictOrder
<1>2. IsFiniteSet(Behind(x, S, R)) /\ Cardinality(Behind(x, S, R)) <= Cardinality(S)
      /\ (Cardinality(S) = Cardinality(Behind(x, S, R)) => S = Behind(x, S, R))
  BY <1>1, FS_Subset
<1>3. Cardinality(Behind(x, S, R)) \in Nat /\ Cardinality(S) \in Nat
  BY <1>2, FS_CardinalityType
<1> QED
  BY <1>1, <1>2, <1>3

\* More members are before a later one.
LEMMA BehindGrows ==
  ASSUME NEW S, IsFiniteSet(S), NEW R, StrictOrder(S, R), NEW x \in S, NEW y \in S,
         <<x, y>> \in R
  PROVE  Cardinality(Behind(x, S, R)) < Cardinality(Behind(y, S, R))
<1>1. Behind(x, S, R) \in SUBSET Behind(y, S, R)
      /\ x \in Behind(y, S, R) /\ x \notin Behind(x, S, R)
  BY DEF Behind, StrictOrder
<1>2. IsFiniteSet(Behind(y, S, R)) /\ IsFiniteSet(Behind(x, S, R))
  BY BehindCount
<1>3. Cardinality(Behind(x, S, R)) <= Cardinality(Behind(y, S, R))
      /\ (Cardinality(Behind(y, S, R)) = Cardinality(Behind(x, S, R))
            => Behind(y, S, R) = Behind(x, S, R))
  BY <1>1, <1>2, FS_Subset
<1>4. Cardinality(Behind(x, S, R)) \in Nat /\ Cardinality(Behind(y, S, R)) \in Nat
  BY <1>2, FS_CardinalityType
<1> QED
  BY <1>1, <1>3, <1>4

\* In a strict total order each place has one member, and the places go with the order.
LEMMA RankedInOrder ==
  ASSUME NEW S, IsFiniteSet(S), NEW R, StrictOrder(S, R)
  PROVE  /\ Cardinality(S) \in Nat
         /\ Ranked(S, R) \in Bijection(1 .. Cardinality(S), S)
         /\ \A i, j \in 1 .. Cardinality(S) :
              i < j <=> <<Ranked(S, R)[i], Ranked(S, R)[j]>> \in R
<1> DEFINE n == Cardinality(S)
           rank == [x \in S |-> Cardinality(Behind(x, S, R)) + 1]
           q == Ranked(S, R)
<1>1. n \in Nat
  BY FS_CardinalityType
<1>2. ASSUME NEW x \in S PROVE rank[x] \in 1 .. n
  BY <1>1, BehindCount
<1>3. ASSUME NEW x \in S, NEW y \in S PROVE <<x, y>> \in R <=> rank[x] < rank[y]
  <2>1. CASE x = y
    BY <2>1, <1>2 DEF StrictOrder
  <2>2. CASE <<x, y>> \in R
    BY <2>2, <1>2, BehindGrows, BehindCount
  <2>3. CASE <<y, x>> \in R
    <3>1. rank[y] < rank[x]
      BY <2>3, <1>2, BehindGrows, BehindCount
    <3>2. <<x, y>> \notin R
      BY <2>3 DEF StrictOrder
    <3> QED
      BY <3>1, <3>2, <1>2
  <2> QED
    BY <2>1, <2>2, <2>3 DEF StrictOrder
<1>4. rank \in Injection(S, 1 .. n)
  <2>1. rank \in [S -> 1 .. n]
    BY <1>2
  <2>2. ASSUME NEW x \in S, NEW y \in S, rank[x] = rank[y] PROVE x = y
    BY <2>2, <1>2, <1>3 DEF StrictOrder
  <2> QED
    BY <2>1, <2>2 DEF Injection, IsInjective
<1>5. IsFiniteSet(1 .. n) /\ Cardinality(1 .. n) = n
  BY <1>1, FS_Interval
<1>6. rank \in Surjection(S, 1 .. n)
  BY <1>4, <1>5, FS_Injection
<1>7. ASSUME NEW k \in 1 .. n PROVE q[k] \in S /\ rank[q[k]] = k
  <2>1. PICK x \in S : rank[x] = k
    BY <1>6 DEF Surjection
  <2>2. Cardinality(Behind(x, S, R)) = k - 1
    BY <2>1, BehindCount, <1>1
  <2>3. q[k] \in S /\ Cardinality(Behind(q[k], S, R)) = k - 1
    BY <2>2 DEF Ranked, Behind
  <2> QED
    BY <2>3, BehindCount, <1>1
<1> HIDE DEF rank
<1>8. q \in [1 .. n -> S]
  BY <1>7 DEF Ranked
<1>9. ASSUME NEW i \in 1 .. n, NEW j \in 1 .. n, q[i] = q[j] PROVE i = j
  BY <1>7, <1>9
<1>10. ASSUME NEW x \in S PROVE \E k \in 1 .. n : q[k] = x
  <2>1. rank[q[rank[x]]] = rank[x] /\ rank[x] \in 1 .. n
    BY <1>2, <1>7
  <2>2. q[rank[x]] \in S
    BY <2>1, <1>7
  <2>3. q[rank[x]] = x
    BY <2>1, <2>2, <1>4 DEF Injection, IsInjective
  <2> QED
    BY <2>1, <2>3
<1>11. q \in Bijection(1 .. n, S)
  BY <1>8, <1>9, <1>10 DEF Bijection, Injection, IsInjective, Surjection
<1>12. ASSUME NEW i \in 1 .. n, NEW j \in 1 .. n PROVE i < j <=> <<q[i], q[j]>> \in R
  BY <1>3, <1>7
<1> QED
  BY <1>1, <1>11, <1>12

\* Ascending lists its numbers, the smaller first.
LEMMA AscendingInOrder ==
  ASSUME NEW I \in SUBSET Int, IsFiniteSet(I)
  PROVE  /\ Cardinality(I) \in Nat
         /\ Ascending(I) \in Bijection(1 .. Cardinality(I), I)
         /\ \A k, l \in 1 .. Cardinality(I) : k < l <=> Ascending(I)[k] < Ascending(I)[l]
<1> DEFINE R == {p \in I \X I : p[1] < p[2]}
<1>1. StrictOrder(I, R)
  BY DEF StrictOrder
<1>2. \A x, y \in I : <<x, y>> \in R <=> x < y
  OBVIOUS
<1> HIDE DEF R
<1>3. /\ Cardinality(I) \in Nat
      /\ Ranked(I, R) \in Bijection(1 .. Cardinality(I), I)
      /\ \A i, j \in 1 .. Cardinality(I) :
           i < j <=> <<Ranked(I, R)[i], Ranked(I, R)[j]>> \in R
  BY <1>1, RankedInOrder
<1>4. Ascending(I) = Ranked(I, R)
  BY DEF Ascending, R
<1>5. \A k \in 1 .. Cardinality(I) : Ascending(I)[k] \in I
  BY <1>3, <1>4 DEF Bijection, Injection
<1> QED
  BY <1>2, <1>3, <1>4, <1>5

\* What was picked is where it was, in the order of the places.
LEMMA PickedFrom ==
  ASSUME NEW s, NEW I \in SUBSET Int, IsFiniteSet(I)
  PROVE  /\ DOMAIN Picked(s, I) = 1 .. Cardinality(I) /\ Cardinality(I) \in Nat
         /\ \A k \in 1 .. Cardinality(I) : /\ Ascending(I)[k] \in I
                                           /\ Picked(s, I)[k] = s[Ascending(I)[k]]
         /\ \A i \in I : \E k \in 1 .. Cardinality(I) : Ascending(I)[k] = i
  BY AscendingInOrder DEF Picked, Bijection, Injection, Surjection

\* Places of a sequence are finitely many.
LEMMA FiniteDomain ==
  ASSUME NEW n \in Nat, NEW I \in SUBSET (1 .. n)
  PROVE  /\ IsFiniteSet(I) /\ I \in SUBSET Int /\ Cardinality(I) \in 0 .. n
         /\ Cardinality(1 .. n) = n
<1>1. IsFiniteSet(1 .. n) /\ Cardinality(1 .. n) = n
  BY FS_Interval
<1>2. IsFiniteSet(I) /\ Cardinality(I) <= n
  BY <1>1, FS_Subset
<1>3. Cardinality(I) \in Nat
  BY <1>2, FS_CardinalityType
<1> QED
  BY <1>1, <1>2, <1>3

-----------------------------------------------------------------------------
(***************************************************************************)
(* The queue of an asyncio.Lock (GpuOrchestrator._lock): the holder, then  *)
(* those who wait, in order, as CasePipeline and GpuOrchestrator have it.  *)
(***************************************************************************)

\* Nobody stands in the line twice.
Once(q) == \A i, j \in 1 .. Len(q) : q[i] = q[j] => i = j

InLine(q, x) == \E i \in 1 .. Len(q) : q[i] = x

-----------------------------------------------------------------------------
\* acquire: whoever is not in the line stands at its end, and nobody moves.
LEMMA JoinLine ==
  ASSUME NEW S, NEW q \in Seq(S), NEW x \in S, Once(q), ~InLine(q, x)
  PROVE  /\ Once(Append(q, x))
         /\ \A y : InLine(Append(q, x), y) <=> InLine(q, y) \/ y = x
         /\ q # <<>> => Head(Append(q, x)) = Head(q)
<1> DEFINE r == Append(q, x)
<1>1. /\ r \in Seq(S) /\ Len(r) = Len(q) + 1 /\ Len(q) \in Nat
      /\ r[Len(q) + 1] = x /\ \A i \in 1 .. Len(q) : r[i] = q[i]
  OBVIOUS
<1>2. Once(r)
  <2>1. \A i \in 1 .. Len(q) : q[i] # x
    BY DEF InLine
  <2> QED
    BY <1>1, <2>1 DEF Once
<1>3. ASSUME NEW y PROVE InLine(r, y) <=> InLine(q, y) \/ y = x
  <2>1. ASSUME InLine(r, y) PROVE InLine(q, y) \/ y = x
    BY <2>1, <1>1 DEF InLine
  <2>2. ASSUME InLine(q, y) PROVE InLine(r, y)
    BY <2>2, <1>1 DEF InLine
  <2>3. ASSUME y = x PROVE InLine(r, y)
    <3>1. Len(q) + 1 \in 1 .. Len(r)
      BY <1>1
    <3> QED
      BY <2>3, <3>1, <1>1 DEF InLine
  <2> QED
    BY <2>1, <2>2, <2>3
<1>4. q # <<>> => Head(r) = Head(q)
  OBVIOUS
<1> QED
  BY <1>2, <1>3, <1>4

\* release: the holder leaves, and nobody else.
LEMMA LeaveLine ==
  ASSUME NEW S, NEW q \in Seq(S), q # <<>>, Once(q)
  PROVE  /\ Tail(q) \in Seq(S) /\ Once(Tail(q))
         /\ \A y : InLine(Tail(q), y) <=> InLine(q, y) /\ y # Head(q)
<1> DEFINE r == Tail(q)
<1>1. /\ r \in Seq(S) /\ Len(r) = Len(q) - 1 /\ Len(q) \in Nat \ {0}
      /\ Head(q) = q[1] /\ \A i \in 1 .. Len(r) : r[i] = q[i + 1]
  OBVIOUS
<1>2. Once(r)
  <2> SUFFICES ASSUME NEW i \in 1 .. Len(r), NEW j \in 1 .. Len(r), r[i] = r[j]
               PROVE  i = j
    BY DEF Once
  <2>1. i + 1 \in 1 .. Len(q) /\ j + 1 \in 1 .. Len(q) /\ q[i + 1] = q[j + 1]
    BY <1>1
  <2> QED
    BY <2>1, <1>1 DEF Once
<1>3. ASSUME NEW y PROVE InLine(r, y) <=> InLine(q, y) /\ y # Head(q)
  <2>1. ASSUME InLine(r, y) PROVE InLine(q, y) /\ y # Head(q)
    <3>1. PICK i \in 1 .. Len(r) : r[i] = y
      BY <2>1 DEF InLine
    <3>2. i + 1 \in 1 .. Len(q) /\ q[i + 1] = y /\ 1 \in 1 .. Len(q) /\ i + 1 # 1
      BY <3>1, <1>1
    <3> QED
      BY <3>2, <1>1 DEF Once, InLine
  <2>2. ASSUME InLine(q, y), y # Head(q) PROVE InLine(r, y)
    <3>1. PICK i \in 1 .. Len(q) : q[i] = y
      BY <2>2 DEF InLine
    <3>2. i - 1 \in 1 .. Len(r) /\ (i - 1) + 1 = i
      BY <3>1, <2>2, <1>1
    <3>3. r[i - 1] = y
      BY <3>1, <3>2, <1>1
    <3> QED
      BY <3>2, <3>3 DEF InLine
  <2> QED
    BY <2>1, <2>2
<1> QED
  BY <1>1, <1>2, <1>3

=============================================================================
