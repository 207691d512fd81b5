-------------------------- MODULE DetectionProofs ---------------------------
(***************************************************************************)
(* Lemmas about RiskEngine, for every configuration whose weights and      *)
(* floors are numbers and every sequence of detections, and about          *)
(* VisionPipeline, for every size of the model's square, thresholds and    *)
(* number of classes.                                                      *)
(*                                                                         *)
(* The engine's sort makes one sequence of the detections, whatever their  *)
(* order; of fewer detections it makes a part of that sequence; what counts*)
(* of a part is a part of what counts, and fewer factors leave more of the *)
(* product.                                                                *)
(***************************************************************************)
EXTENDS VisionPipeline, RiskEngine, DataLemmas, SequenceTheorems

\* In a sequence in order, no member is before an earlier one.
InOrderBy(R, a, m) ==
  \A i, j \in 1 .. m : i < j => <<a[j], a[i]>> \notin R

\* Two sequences in order, the members of one among those of the other: the
\* members of the first come no sooner.
LEMMA NoSooner ==
  ASSUME NEW X, NEW R, StrictOrder(X, R), NEW m \in Nat,
         NEW a \in [1 .. m -> X], NEW b \in [1 .. m -> X],
         InOrderBy(R, a, m), InOrderBy(R, b, m),
         NEW p \in Injection(1 .. m, 1 .. m), \A j \in 1 .. m : b[j] = a[p[j]],
         NEW k \in 1 .. m
  PROVE  <<b[k], a[k]>> \notin R
<1> SUFFICES ASSUME <<b[k], a[k]>> \in R PROVE FALSE
  OBVIOUS
<1>1. ASSUME NEW j \in 1 .. k PROVE p[j] \in 1 .. k - 1
  <2>1. j \in 1 .. m /\ p[j] \in 1 .. m /\ k \in 1 .. m
    BY DEF Injection
  <2>2. SUFFICES ASSUME p[j] >= k PROVE FALSE
    BY <2>1
  <2>3. <<b[k], b[j]>> \notin R
    BY DEF InOrderBy, StrictOrder
  <2>4. <<a[p[j]], a[k]>> \notin R
    BY <2>1, <2>2 DEF InOrderBy, StrictOrder
  <2>5. a[p[j]] = b[j] /\ a[k] \in X /\ b[k] \in X /\ b[j] \in X
    BY <2>1
  <2>6. b[j] = b[k] \/ <<b[j], b[k]>> \in R
    BY <2>3, <2>5 DEF StrictOrder
  <2>7. <<b[j], a[k]>> \in R
    BY <2>5, <2>6 DEF StrictOrder
  <2> QED
    BY <2>4, <2>5, <2>7
<1> DEFINE f == [j \in 1 .. k |-> p[j]]
<1>2. f \in [1 .. k -> 1 .. k - 1]
  BY <1>1
<1>3. /\ IsFiniteSet(1 .. k) /\ Cardinality(1 .. k) = k
      /\ IsFiniteSet(1 .. k - 1) /\ Cardinality(1 .. k - 1) = k - 1
  <2>1. k \in Nat /\ k - 1 \in Nat
    OBVIOUS
  <2> QED
    BY <2>1, FiniteDomain
<1>4. PICK x \in 1 .. k, y \in 1 .. k : x # y /\ f[x] = f[y]
  <2> DEFINE S == 1 .. k
             T == 1 .. k - 1
  <2>1. /\ IsFiniteSet(S) /\ IsFiniteSet(T) /\ Cardinality(T) < Cardinality(S)
        /\ f \in [S -> T]
    BY <1>2, <1>3
  <2> HIDE DEF f, S, T
  <2>2. \E x, y \in S : x # y /\ f[x] = f[y]
    BY <2>1, FS_PigeonHole
  <2> QED
    BY <2>2 DEF S
<1>5. x \in 1 .. m /\ y \in 1 .. m /\ p[x] = p[y]
  BY <1>4
<1> QED
  BY <1>4, <1>5 DEF Injection, IsInjective

\* A sequence in order is known by its members.
LEMMA OneOrder ==
  ASSUME NEW X, NEW R, StrictOrder(X, R), NEW m \in Nat,
         NEW a \in [1 .. m -> X], NEW b \in [1 .. m -> X],
         InOrderBy(R, a, m), InOrderBy(R, b, m),
         NEW p \in Bijection(1 .. m, 1 .. m), \A j \in 1 .. m : b[j] = a[p[j]]
  PROVE  a = b
<1> DEFINE q == [k \in 1 .. m |-> CHOOSE j \in 1 .. m : p[j] = k]
<1>1. \A k \in 1 .. m : q[k] \in 1 .. m /\ p[q[k]] = k
  BY DEF Bijection, Surjection
<1>2. q \in Injection(1 .. m, 1 .. m) /\ \A k \in 1 .. m : a[k] = b[q[k]]
  <2>1. q \in [1 .. m -> 1 .. m]
    BY <1>1
  <2> HIDE DEF q
  <2>2. ASSUME NEW i \in 1 .. m, NEW j \in 1 .. m, q[i] = q[j] PROVE i = j
    <3>1. p[q[i]] = i /\ p[q[j]] = j
      BY <1>1
    <3> QED
      BY <2>2, <3>1
  <2>3. \A k \in 1 .. m : a[k] = b[q[k]]
    BY <1>1
  <2> QED
    BY <2>1, <2>2, <2>3 DEF Injection, IsInjective
<1> HIDE DEF q
<1>3. p \in Injection(1 .. m, 1 .. m)
  BY DEF Bijection
<1>4. ASSUME NEW k \in 1 .. m PROVE a[k] = b[k]
  <2>1. <<b[k], a[k]>> \notin R
    BY <1>3, NoSooner
  <2>2. <<a[k], b[k]>> \notin R
    BY <1>2, NoSooner
  <2> QED
    BY <2>1, <2>2 DEF StrictOrder
<1> QED
  BY <1>4

\* The l members of b are members of a, as they stand there.
PartOf(e, a, m, b, l) ==
  /\ e \in [1 .. l -> 1 .. m]
  /\ \A i, j \in 1 .. l : i < j => e[i] < e[j]
  /\ \A j \in 1 .. l : b[j] = a[e[j]]

\* Members of a sequence in order, themselves in order, are a part of it as it
\* stands.
LEMMA PartInOrder ==
  ASSUME NEW X, NEW R, StrictOrder(X, R), NEW m \in Nat, NEW l \in Nat,
         NEW a \in [1 .. m -> X], NEW b \in [1 .. l -> X],
         InOrderBy(R, a, m), InOrderBy(R, b, l),
         NEW h \in Injection(1 .. l, 1 .. m), \A j \in 1 .. l : b[j] = a[h[j]]
  PROVE  \E e : PartOf(e, a, m, b, l)
<1> DEFINE I == {h[j] : j \in 1 .. l}
           e == Ascending(I)
<1>1. h \in [1 .. l -> 1 .. m] /\ \A i, j \in 1 .. l : h[i] = h[j] => i = j
  BY DEF Injection, IsInjective
<1>2. I \in SUBSET (1 .. m) /\ I \in SUBSET Int /\ IsFiniteSet(I)
  <2>1. I \in SUBSET (1 .. m)
    BY <1>1
  <2> QED
    BY <2>1, FiniteDomain
<1>3. h \in Bijection(1 .. l, I)
  BY <1>1 DEF Bijection, Injection, Surjection, IsInjective
<1>4. Cardinality(I) = l
  <2>1. IsFiniteSet(1 .. l) /\ Cardinality(1 .. l) = l
    BY FiniteDomain
  <2>2. ExistsBijection(1 .. l, I)
    BY <1>3 DEF ExistsBijection
  <2> QED
    BY <2>1, <2>2, FS_Bijection
<1> HIDE DEF I
<1>5. e \in Bijection(1 .. l, I) /\ \A i, j \in 1 .. l : i < j <=> e[i] < e[j]
  BY <1>2, <1>4, AscendingInOrder
<1> HIDE DEF e
<1> DEFINE c == [j \in 1 .. l |-> a[e[j]]]
           p == [j \in 1 .. l |-> CHOOSE i \in 1 .. l : e[i] = h[j]]
<1>6. e \in [1 .. l -> 1 .. m] /\ (\A i \in I : \E j \in 1 .. l : e[j] = i)
      /\ (\A i, j \in 1 .. l : e[i] = e[j] => i = j)
  BY <1>2, <1>5 DEF Bijection, Injection, Surjection, IsInjective
<1>7. \A j \in 1 .. l : h[j] \in I
  BY DEF I
<1>8. \A j \in 1 .. l : p[j] \in 1 .. l /\ e[p[j]] = h[j]
  BY <1>6, <1>7
<1>9. p \in Bijection(1 .. l, 1 .. l)
  <2>1. p \in [1 .. l -> 1 .. l]
    BY <1>8
  <2>2. ASSUME NEW i \in 1 .. l, NEW j \in 1 .. l, p[i] = p[j] PROVE i = j
    <3>1. e[p[i]] = h[i] /\ e[p[j]] = h[j]
      BY <1>8
    <3>2. h[i] = h[j]
      BY <2>2, <3>1
    <3> QED
      BY <3>2, <1>1
  <2>3. \A i \in 1 .. l : \E j \in 1 .. l : p[j] = i
    <3>1. SUFFICES ASSUME NEW i \in 1 .. l PROVE \E j \in 1 .. l : p[j] = i
      OBVIOUS
    <3>2. PICK j \in 1 .. l : h[j] = e[i]
      BY <1>3, <1>5 DEF Bijection, Injection, Surjection
    <3> QED
      BY <3>2, <1>6, <1>8
  <2> QED
    BY <2>1, <2>2, <2>3 DEF Bijection, Injection, Surjection, IsInjective
<1>10. c \in [1 .. l -> X] /\ InOrderBy(R, c, l)
  BY <1>5, <1>6 DEF InOrderBy
<1>11. \A j \in 1 .. l : b[j] = c[p[j]]
  BY <1>6, <1>8
<1> HIDE DEF c, p
<1>12. c = b
  BY <1>9, <1>10, <1>11, OneOrder
<1>13. PartOf(e, a, m, b, l)
  BY <1>5, <1>6, <1>12 DEF c, PartOf
<1> QED
  BY <1>13

-----------------------------------------------------------------------------
\* Detections that _coerce_detection has let through.
NormDetections == [usable : {TRUE}, cls : Int, conf : Int, box : Int]

\* Before, as a relation.
Earlier == {p \in NormDetections \X NormDetections : Before(p[1], p[2])}

\* Earlier is Before, as a relation.
LEMMA EarlierIs ==
  ASSUME NEW x \in NormDetections, NEW y \in NormDetections
  PROVE  <<x, y>> \in Earlier <=> Before(x, y)
  BY DEF Earlier

\* It is an order, if not a total one: alike detections are in none.
LEMMA EarlierIsOrder == StrictOrder(NormDetections, Earlier)
<1>1. ASSUME NEW x \in NormDetections PROVE <<x, x>> \notin Earlier
  <2>1. ~Before(x, x)
    BY DEF Before, NormDetections
  <2> QED
    BY <2>1, EarlierIs
<1>2. ASSUME NEW x \in NormDetections, NEW y \in NormDetections, NEW z \in NormDetections,
             <<x, y>> \in Earlier, <<y, z>> \in Earlier
      PROVE  <<x, z>> \in Earlier
  <2>1. Before(x, y) /\ Before(y, z)
    BY <1>2, EarlierIs
  <2>2. Before(x, z)
    BY <2>1 DEF Before, NormDetections
  <2> QED
    BY <2>2, EarlierIs
<1>3. ASSUME NEW x \in NormDetections, NEW y \in NormDetections, x # y
      PROVE  <<x, y>> \in Earlier \/ <<y, x>> \in Earlier
  <2>1. x.cls # y.cls \/ x.conf # y.conf \/ x.box # y.box
    <3>1. /\ x = [usable |-> x.usable, cls |-> x.cls, conf |-> x.conf, box |-> x.box]
          /\ y = [usable |-> y.usable, cls |-> y.cls, conf |-> y.conf, box |-> y.box]
          /\ x.usable = y.usable
      BY DEF NormDetections
    <3> QED
      BY <3>1, <1>3
  <2>2. Before(x, y) \/ Before(y, x)
    BY <2>1 DEF Before, NormDetections
  <2> QED
    BY <2>2, EarlierIs
<1> QED
  BY <1>1, <1>2, <1>3 DEF StrictOrder

\* What _coerce_detection returns of a usable detection is a usable one.
LEMMA CoercedIsNorm ==
  ASSUME NEW raw \in RawDetections, raw.usable
  PROVE  Coerced(raw) \in NormDetections
<1>1. Clamp(raw.conf, 0, One) \in Int
  BY DEF RawDetections, Clamp, One
<1>2. Coerced(raw) = [raw EXCEPT !.conf = Clamp(raw.conf, 0, One)]
  BY DEF Coerced
<1>3. raw = [usable |-> raw.usable, cls |-> raw.cls, conf |-> raw.conf, box |-> raw.box]
      /\ raw.cls \in Int /\ raw.box \in Int /\ raw.usable = TRUE
  BY DEF RawDetections
<1> QED
  BY <1>1, <1>2, <1>3 DEF NormDetections

\* With the places to tell alike ones apart, the order is total, and agrees with it.
LEMMA PrecedenceIsOrder ==
  ASSUME NEW m \in Nat, NEW norm \in [1 .. m -> NormDetections]
  PROVE  /\ StrictOrder(1 .. m, Precedence(norm))
         /\ \A i, j \in 1 .. m : <<i, j>> \in Precedence(norm) =>
              <<norm[j], norm[i]>> \notin Earlier
<1> DEFINE E(i, j) == <<norm[i], norm[j]>> \in Earlier
<1>1. /\ \A i \in 1 .. m : ~E(i, i)
      /\ \A i, j, k \in 1 .. m : E(i, j) /\ E(j, k) => E(i, k)
      /\ \A i, j \in 1 .. m : E(i, j) \/ E(j, i) \/ norm[i] = norm[j]
  BY EarlierIsOrder DEF StrictOrder
<1>2. \A i, j \in 1 .. m : <<i, j>> \in Precedence(norm) <=> E(i, j) \/ (~E(j, i) /\ i < j)
  BY EarlierIs DEF Precedence
<1>3. \A i, j, k \in 1 .. m : norm[i] = norm[j] => (E(i, k) <=> E(j, k)) /\ (E(k, i) <=> E(k, j))
  OBVIOUS
<1> HIDE DEF E
<1>4. ASSUME NEW i \in 1 .. m, NEW j \in 1 .. m, <<i, j>> \in Precedence(norm)
      PROVE  ~E(j, i)
  BY <1>1, <1>2, <1>4
<1>5. ASSUME NEW i \in 1 .. m, NEW j \in 1 .. m, NEW k \in 1 .. m,
             <<i, j>> \in Precedence(norm), <<j, k>> \in Precedence(norm)
      PROVE  <<i, k>> \in Precedence(norm)
  <2>1. E(i, j) \/ (norm[i] = norm[j] /\ i < j)
    BY <1>1, <1>2, <1>5
  <2>2. E(j, k) \/ (norm[j] = norm[k] /\ j < k)
    BY <1>1, <1>2, <1>5
  <2>3. E(i, k) \/ (norm[i] = norm[k] /\ i < k)
    BY <2>1, <2>2, <1>1, <1>3
  <2> QED
    BY <2>3, <1>1, <1>2, <1>3
<1>6. ASSUME NEW i \in 1 .. m, NEW j \in 1 .. m, i # j
      PROVE  <<i, j>> \in Precedence(norm) \/ <<j, i>> \in Precedence(norm)
  BY <1>1, <1>2, <1>6
<1>7. \A i \in 1 .. m : <<i, i>> \notin Precedence(norm)
  BY <1>1, <1>2
<1>8. StrictOrder(1 .. m, Precedence(norm))
  BY <1>5, <1>6, <1>7 DEF StrictOrder
<1> QED
  BY <1>4, <1>8 DEF E

\* One order of an order is an order.
LEMMA BijectionThenBijection ==
  ASSUME NEW A, NEW B, NEW C, NEW f \in Bijection(A, B), NEW g \in Bijection(B, C),
         NEW h \in [A -> C], \A x \in A : h[x] = g[f[x]]
  PROVE  h \in Bijection(A, C)
  BY DEF Bijection, Injection, Surjection, IsInjective

\* Normalised(dets) is the usable detections, coerced and in order.
LEMMA NormalisedInOrder ==
  ASSUME NEW n \in Nat, NEW dets \in [1 .. n -> RawDetections]
  PROVE  LET U == {i \in 1 .. n : dets[i].usable}
             m == Cardinality(U)
         IN  /\ m \in 0 .. n
             /\ Normalised(dets) \in [1 .. m -> NormDetections]
             /\ InOrderBy(Earlier, Normalised(dets), m)
             /\ \E h \in Bijection(1 .. m, U) :
                  \A k \in 1 .. m : Normalised(dets)[k] = Coerced(dets[h[k]])
<1> DEFINE U == {i \in 1 .. n : dets[i].usable}
           m == Cardinality(U)
           at == Ascending(U)
           ok == Picked(dets, U)
           norm == [i \in DOMAIN ok |-> Coerced(ok[i])]
           order == Ranked(DOMAIN norm, Precedence(norm))
           h == [k \in 1 .. m |-> at[order[k]]]
<1>1. U \in SUBSET (1 .. n) /\ IsFiniteSet(U) /\ U \in SUBSET Int /\ m \in 0 .. n
      /\ Cardinality(1 .. m) = m /\ IsFiniteSet(1 .. m)
  <2>1. U \in SUBSET (1 .. n) /\ IsFiniteSet(U) /\ U \in SUBSET Int /\ m \in 0 .. n
    BY FiniteDomain
  <2> QED
    BY <2>1, FiniteDomain
<1>2. Normalised(dets) = [i \in DOMAIN norm |-> norm[order[i]]]
  BY DEF Normalised
<1>3. \A i \in U : dets[i] \in RawDetections /\ dets[i].usable
  OBVIOUS
<1> HIDE DEF U
<1>4. /\ at \in Bijection(1 .. m, U) /\ DOMAIN ok = 1 .. m
      /\ \A k \in 1 .. m : at[k] \in U /\ ok[k] = dets[at[k]]
  BY <1>1, AscendingInOrder, PickedFrom
<1>5. norm \in [1 .. m -> NormDetections] /\ \A k \in 1 .. m : norm[k] = Coerced(dets[at[k]])
  BY <1>3, <1>4, CoercedIsNorm
<1> HIDE DEF m, at, ok, norm
<1>6. DOMAIN norm = 1 .. m /\ m \in Nat
  BY <1>1, <1>5
<1>7. StrictOrder(1 .. m, Precedence(norm))
      /\ \A i, j \in 1 .. m : <<i, j>> \in Precedence(norm) => <<norm[j], norm[i]>> \notin Earlier
  BY <1>5, <1>6, PrecedenceIsOrder
<1>8. order \in Bijection(1 .. m, 1 .. m)
      /\ \A i, j \in 1 .. m : i < j <=> <<order[i], order[j]>> \in Precedence(norm)
  BY <1>1, <1>6, <1>7, RankedInOrder
<1> HIDE DEF order
<1>9. h \in Bijection(1 .. m, U)
  <2>1. h \in [1 .. m -> U] /\ \A k \in 1 .. m : h[k] = at[order[k]]
    BY <1>4, <1>8 DEF Bijection, Injection
  <2> DEFINE D == 1 .. m
  <2>2. h \in [D -> U] /\ at \in Bijection(D, U) /\ order \in Bijection(D, D)
        /\ \A k \in D : h[k] = at[order[k]]
    BY <2>1, <1>4, <1>8
  <2> HIDE DEF h, D
  <2>3. h \in Bijection(D, U)
    BY <2>2, BijectionThenBijection
  <2> QED
    BY <2>3 DEF D
<1>10. \A k \in 1 .. m : order[k] \in 1 .. m
  BY <1>8 DEF Bijection, Injection
<1>11. /\ Normalised(dets) \in [1 .. m -> NormDetections]
       /\ \A k \in 1 .. m : Normalised(dets)[k] = norm[order[k]]
  BY <1>2, <1>5, <1>6, <1>10
<1>12. InOrderBy(Earlier, Normalised(dets), m)
  BY <1>7, <1>8, <1>10, <1>11 DEF InOrderBy
<1>13. \A k \in 1 .. m : Normalised(dets)[k] = Coerced(dets[h[k]])
  BY <1>5, <1>10, <1>11
<1> QED
  BY <1>1, <1>9, <1>11, <1>12, <1>13 DEF m, U

\* The members of b, in order, are among those of a, in order.
NormalPart(m, k, g, a, b) ==
  /\ m \in Nat /\ k \in Nat /\ g \in Injection(1 .. k, 1 .. m)
  /\ a \in [1 .. m -> NormDetections] /\ InOrderBy(Earlier, a, m)
  /\ b \in [1 .. k -> NormDetections] /\ InOrderBy(Earlier, b, k)
  /\ \A j \in 1 .. k : b[j] = a[g[j]]

\* A part of the detections, in any order, has its usable ones among theirs; and
\* all of them, in another order, are the same when normalised.
LEMMA NormalisedPart ==
  ASSUME NEW n \in Nat, NEW dets \in [1 .. n -> RawDetections],
         NEW l \in Nat, NEW part \in [1 .. l -> RawDetections],
         NEW w \in Injection(1 .. l, 1 .. n), \A j \in 1 .. l : part[j] = dets[w[j]]
  PROVE  \E m, k, g : /\ NormalPart(m, k, g, Normalised(dets), Normalised(part))
                      /\ w \in Bijection(1 .. l, 1 .. n) => g \in Bijection(1 .. k, 1 .. m)
<1> DEFINE U == {i \in 1 .. n : dets[i].usable}
           V == {i \in 1 .. l : part[i].usable}
           m == Cardinality(U)
           k == Cardinality(V)
<1>1. PICK h \in Bijection(1 .. m, U) :
           /\ m \in 0 .. n /\ Normalised(dets) \in [1 .. m -> NormDetections]
           /\ InOrderBy(Earlier, Normalised(dets), m)
           /\ \A j \in 1 .. m : Normalised(dets)[j] = Coerced(dets[h[j]])
  BY NormalisedInOrder
<1>2. PICK v \in Bijection(1 .. k, V) :
           /\ k \in 0 .. l /\ Normalised(part) \in [1 .. k -> NormDetections]
           /\ InOrderBy(Earlier, Normalised(part), k)
           /\ \A j \in 1 .. k : Normalised(part)[j] = Coerced(part[v[j]])
  BY NormalisedInOrder
<1>3. \A j \in V : w[j] \in U /\ j \in 1 .. l
  BY DEF Injection
<1>4. \A i, j \in 1 .. l : w[i] = w[j] => i = j
  BY DEF Injection, IsInjective
<1>5. w \in Bijection(1 .. l, 1 .. n) => \A i \in U : \E j \in V : w[j] = i
  BY DEF Bijection, Surjection
<1> HIDE DEF U, V, m, k
<1>6. /\ v \in [1 .. k -> V] /\ \A i, j \in 1 .. k : v[i] = v[j] => i = j
      /\ \A i \in V : \E j \in 1 .. k : v[j] = i
  BY DEF Bijection, Injection, Surjection, IsInjective
<1>7. /\ h \in [1 .. m -> U] /\ \A i, j \in 1 .. m : h[i] = h[j] => i = j
      /\ \A i \in U : \E j \in 1 .. m : h[j] = i
  BY DEF Bijection, Injection, Surjection, IsInjective
<1> DEFINE g == [j \in 1 .. k |-> CHOOSE i \in 1 .. m : h[i] = w[v[j]]]
<1>8. \A j \in 1 .. k : g[j] \in 1 .. m /\ h[g[j]] = w[v[j]]
  BY <1>3, <1>6, <1>7
<1>9. g \in [1 .. k -> 1 .. m]
  BY <1>8
<1> HIDE DEF g
<1>10. ASSUME NEW i \in 1 .. k, NEW j \in 1 .. k, g[i] = g[j] PROVE i = j
  <2>1. w[v[i]] = w[v[j]]
    BY <1>8, <1>10
  <2>2. v[i] = v[j]
    BY <2>1, <1>3, <1>4, <1>6
  <2> QED
    BY <2>2, <1>6
<1>11. g \in Injection(1 .. k, 1 .. m)
  BY <1>9, <1>10 DEF Injection, IsInjective
<1>12. ASSUME NEW j \in 1 .. k PROVE Normalised(part)[j] = Normalised(dets)[g[j]]
  <2>1. part[v[j]] = dets[w[v[j]]]
    BY <1>3, <1>6
  <2> QED
    BY <2>1, <1>1, <1>2, <1>8
<1>13. ASSUME w \in Bijection(1 .. l, 1 .. n) PROVE g \in Bijection(1 .. k, 1 .. m)
  <2>1. SUFFICES ASSUME NEW x \in 1 .. m PROVE \E j \in 1 .. k : g[j] = x
    BY <1>9, <1>11 DEF Bijection, Surjection
  <2>2. PICK i \in V : w[i] = h[x]
    BY <1>5, <1>7, <1>13
  <2>3. PICK j \in 1 .. k : v[j] = i
    BY <1>6
  <2>4. h[g[j]] = h[x] /\ g[j] \in 1 .. m
    BY <2>2, <2>3, <1>8
  <2> QED
    BY <2>4, <1>7
<1>14. m \in Nat /\ k \in Nat
  BY <1>1, <1>2
<1>15. NormalPart(m, k, g, Normalised(dets), Normalised(part))
  BY <1>1, <1>2, <1>11, <1>12, <1>14 DEF NormalPart
<1> QED
  BY <1>13, <1>15

\* The same detections in another order are normalised to the same ones: the sort
\* undoes whatever the detector did (_coerce_detection and the sort of compute_risk).
LEMMA NormalisedAnyOrder ==
  ASSUME NEW n \in Nat, NEW dets \in [1 .. n -> RawDetections],
         NEW w \in Bijection(1 .. n, 1 .. n)
  PROVE  Normalised([i \in 1 .. n |-> dets[w[i]]]) = Normalised(dets)
<1> DEFINE part == [i \in 1 .. n |-> dets[w[i]]]
<1>1. w \in Injection(1 .. n, 1 .. n) /\ part \in [1 .. n -> RawDetections]
      /\ \A j \in 1 .. n : part[j] = dets[w[j]]
  BY DEF Bijection, Injection
<1> HIDE DEF part
<1>2. PICK m, k, g : /\ NormalPart(m, k, g, Normalised(dets), Normalised(part))
                    /\ g \in Bijection(1 .. k, 1 .. m)
  BY <1>1, NormalisedPart
<1>3. /\ m \in Nat /\ k \in Nat /\ g \in Injection(1 .. k, 1 .. m)
      /\ Normalised(dets) \in [1 .. m -> NormDetections]
      /\ InOrderBy(Earlier, Normalised(dets), m)
      /\ Normalised(part) \in [1 .. k -> NormDetections]
      /\ InOrderBy(Earlier, Normalised(part), k)
      /\ \A j \in 1 .. k : Normalised(part)[j] = Normalised(dets)[g[j]]
  BY <1>2 DEF NormalPart
<1>4. m = k
  <2>1. /\ IsFiniteSet(1 .. k) /\ Cardinality(1 .. k) = k /\ Cardinality(1 .. m) = m
    BY <1>3, FiniteDomain
  <2>2. ExistsBijection(1 .. k, 1 .. m)
    BY <1>2 DEF ExistsBijection
  <2> QED
    BY <2>1, <2>2, FS_Bijection
<1>5. Normalised(dets) = Normalised(part)
  <2>1. /\ m \in Nat /\ Normalised(dets) \in [1 .. m -> NormDetections]
        /\ Normalised(part) \in [1 .. m -> NormDetections]
        /\ InOrderBy(Earlier, Normalised(dets), m)
        /\ InOrderBy(Earlier, Normalised(part), m)
        /\ g \in Bijection(1 .. m, 1 .. m)
        /\ \A j \in 1 .. m : Normalised(part)[j] = Normalised(dets)[g[j]]
    BY <1>2, <1>3, <1>4
  <2> QED
    BY <2>1, EarlierIsOrder, OneOrder
<1> QED
  BY <1>5 DEF part

-----------------------------------------------------------------------------
\* Those that reached their floors.
ScoredOf(norm, cfg) == Picked(norm, {i \in DOMAIN norm : Scored(norm[i], cfg)})

\* The s members of what is scored are those u points to.
ScoredAs(s, u, norm, m, cfg) ==
  /\ s \in Nat /\ u \in Bijection(1 .. s, {i \in 1 .. m : Scored(norm[i], cfg)})
  /\ ScoredOf(norm, cfg) \in [1 .. s -> NormDetections]
  /\ InOrderBy(Earlier, ScoredOf(norm, cfg), s)
  /\ \A j \in 1 .. s : ScoredOf(norm, cfg)[j] = norm[u[j]]

\* What counts is in the order of what there is.
LEMMA ScoredInOrder ==
  ASSUME NEW m \in Nat, NEW norm \in [1 .. m -> NormDetections],
         InOrderBy(Earlier, norm, m), NEW cfg
  PROVE  \E s, u : ScoredAs(s, u, norm, m, cfg)
<1> DEFINE I == {i \in 1 .. m : Scored(norm[i], cfg)}
           s == Cardinality(I)
<1>1. I \in SUBSET (1 .. m) /\ IsFiniteSet(I) /\ I \in SUBSET Int /\ s \in 0 .. m
  <2>1. I \in SUBSET (1 .. m)
    OBVIOUS
  <2> HIDE DEF I
  <2> QED
    BY <2>1, FiniteDomain
<1>2. ScoredOf(norm, cfg) = Picked(norm, I)
  BY DEF ScoredOf
<1> HIDE DEF I
<1>3. /\ DOMAIN Picked(norm, I) = 1 .. s
      /\ \A k \in 1 .. s : Ascending(I)[k] \in I /\ Picked(norm, I)[k] = norm[Ascending(I)[k]]
      /\ Picked(norm, I) = [k \in 1 .. s |-> Picked(norm, I)[k]]
  BY <1>1, PickedFrom DEF Picked
<1>4. /\ Ascending(I) \in Bijection(1 .. s, I)
      /\ \A k, l \in 1 .. s : k < l <=> Ascending(I)[k] < Ascending(I)[l]
  BY <1>1, AscendingInOrder
<1> HIDE DEF s
<1>5. ScoredOf(norm, cfg) \in [1 .. s -> NormDetections]
  BY <1>1, <1>2, <1>3
<1>6. InOrderBy(Earlier, ScoredOf(norm, cfg), s)
  BY <1>1, <1>2, <1>3, <1>4 DEF InOrderBy
<1> USE DEF s
<1>7. s \in Nat /\ Ascending(I) \in Bijection(1 .. s, {i \in 1 .. m : Scored(norm[i], cfg)})
  BY <1>1, <1>4 DEF I
<1>8. ScoredAs(s, Ascending(I), norm, m, cfg)
  BY <1>2, <1>3, <1>5, <1>6, <1>7 DEF ScoredAs
<1> QED
  BY <1>8

\* b of length t is the part e of a of length s, both over S.
SequencePart(s, t, e, S, a, b) ==
  /\ s \in Nat /\ a \in [1 .. s -> S]
  /\ t \in Nat /\ b \in [1 .. t -> S]
  /\ PartOf(e, a, s, b, t)

\* What is scored of a part is a part, in its order, of what is scored.
LEMMA ScoredPart ==
  ASSUME NEW m, NEW k, NEW g, NEW a, NEW b, NormalPart(m, k, g, a, b), NEW cfg
  PROVE  \E s, t, e :
           SequencePart(s, t, e, NormDetections, ScoredOf(a, cfg), ScoredOf(b, cfg))
<1>0. /\ m \in Nat /\ k \in Nat /\ g \in Injection(1 .. k, 1 .. m)
      /\ a \in [1 .. m -> NormDetections] /\ InOrderBy(Earlier, a, m)
      /\ b \in [1 .. k -> NormDetections] /\ InOrderBy(Earlier, b, k)
      /\ \A j \in 1 .. k : b[j] = a[g[j]]
  BY DEF NormalPart
<1> DEFINE I == {i \in 1 .. m : Scored(a[i], cfg)}
           J == {i \in 1 .. k : Scored(b[i], cfg)}
<1>a. PICK s, u : ScoredAs(s, u, a, m, cfg)
  BY <1>0, ScoredInOrder
<1>b. PICK t, v : ScoredAs(t, v, b, k, cfg)
  BY <1>0, ScoredInOrder
<1>1. /\ s \in Nat /\ ScoredOf(a, cfg) \in [1 .. s -> NormDetections]
      /\ InOrderBy(Earlier, ScoredOf(a, cfg), s) /\ u \in Bijection(1 .. s, I)
      /\ \A j \in 1 .. s : ScoredOf(a, cfg)[j] = a[u[j]]
  BY <1>a DEF ScoredAs
<1>2. /\ t \in Nat /\ ScoredOf(b, cfg) \in [1 .. t -> NormDetections]
      /\ InOrderBy(Earlier, ScoredOf(b, cfg), t) /\ v \in Bijection(1 .. t, J)
      /\ \A j \in 1 .. t : ScoredOf(b, cfg)[j] = b[v[j]]
  BY <1>b DEF ScoredAs
<1>3. g \in [1 .. k -> 1 .. m] /\ \A i, j \in 1 .. k : g[i] = g[j] => i = j
  BY <1>0 DEF Injection, IsInjective
<1>4. \A j \in J : j \in 1 .. k /\ g[j] \in I
  BY <1>0, <1>3
<1> HIDE DEF I, J
<1>5. /\ u \in [1 .. s -> I] /\ \A i \in I : \E j \in 1 .. s : u[j] = i
      /\ v \in [1 .. t -> J] /\ \A i, j \in 1 .. t : v[i] = v[j] => i = j
  BY <1>1, <1>2 DEF Bijection, Injection, Surjection, IsInjective
<1> DEFINE h == [j \in 1 .. t |-> CHOOSE i \in 1 .. s : u[i] = g[v[j]]]
<1>6. \A j \in 1 .. t : h[j] \in 1 .. s /\ u[h[j]] = g[v[j]]
  BY <1>4, <1>5
<1>7. h \in [1 .. t -> 1 .. s]
  BY <1>6
<1> HIDE DEF h
<1>8. ASSUME NEW i \in 1 .. t, NEW j \in 1 .. t, h[i] = h[j] PROVE i = j
  <2>1. g[v[i]] = g[v[j]]
    BY <1>6, <1>8
  <2>2. v[i] = v[j]
    BY <2>1, <1>3, <1>4, <1>5
  <2> QED
    BY <2>2, <1>5
<1>9. h \in Injection(1 .. t, 1 .. s)
  BY <1>7, <1>8 DEF Injection, IsInjective
<1>10. ASSUME NEW j \in 1 .. t PROVE ScoredOf(b, cfg)[j] = ScoredOf(a, cfg)[h[j]]
  <2>1. ScoredOf(b, cfg)[j] = b[v[j]] /\ b[v[j]] = a[g[v[j]]]
    BY <1>0, <1>2, <1>4, <1>5
  <2> QED
    BY <2>1, <1>1, <1>6
<1> DEFINE A == ScoredOf(a, cfg)
           B == ScoredOf(b, cfg)
<1>11. /\ A \in [1 .. s -> NormDetections] /\ InOrderBy(Earlier, A, s)
       /\ B \in [1 .. t -> NormDetections] /\ InOrderBy(Earlier, B, t)
       /\ \A j \in 1 .. t : B[j] = A[h[j]]
  BY <1>1, <1>2, <1>10
<1> HIDE DEF A, B
<1>12. \E e : PartOf(e, A, s, B, t)
  BY <1>1, <1>2, <1>9, <1>11, EarlierIsOrder, PartInOrder
<1>13. \E e : SequencePart(s, t, e, NormDetections, A, B)
  BY <1>1, <1>2, <1>11, <1>12 DEF SequencePart
<1> QED
  BY <1>13 DEF A, B

-----------------------------------------------------------------------------
\* What is left of the product after each contribution.
Leaving(f, c, n) ==
  /\ f \in [0 .. n -> Int]
  /\ f[0] = Whole
  /\ \A i \in 1 .. n : f[i] = (f[i - 1] \div 1000) * (1000 - c[i])

\* Remaining goes from contribution to contribution, as the loop of the code does.
LEMMA RemainingIsFold ==
  ASSUME NEW n \in Nat, NEW c \in [1 .. n -> Int]
  PROVE  \E f : Leaving(f, c, n) /\ f[n] = Remaining(c)
<1> DEFINE E(prod, x) == (prod \div 1000) * (1000 - x)
           step == [p \in Int \X (1 .. n) |-> E(p[1], c[p[2]])]
           D == DOMAIN c
<1>1. D = 1 .. n
  OBVIOUS
<1>2. Remaining(c) = (CHOOSE iter : iter = [s \in SUBSET D |->
                        IF s = {} THEN Whole
                        ELSE E(iter[s \ {Max(s)}], c[Max(s)])])[D]
  BY DEF Remaining, FoldLeft, MapThenFoldSet
<1>3. \E f : f = [s \in SUBSET D |->
               IF s = {} THEN Whole ELSE E(f[s \ {Max(s)}], c[Max(s)])]
  <2>1. step \in [Int \X (1 .. n) -> Int]
    OBVIOUS
  <2>2. ASSUME NEW a \in Int, NEW i \in 1 .. n PROVE step[<<a, i>>] = E(a, c[i])
    OBVIOUS
  <2> HIDE DEF step, E, D
  <2>3. \E f : IsFold(f, n, Int, Whole, step)
    <3>1. Whole \in Int
      BY SMT DEF Whole
    <3> QED
      BY <2>1, <3>1, FoldExists
  <2>4. PICK f \in [SUBSET (1 .. n) -> Int] : \A s \in SUBSET (1 .. n) :
          f[s] = IF s = {} THEN Whole ELSE step[<<f[s \ {Max(s)}], Max(s)>>]
    BY <2>3 DEF IsFold
  <2>5. ASSUME NEW s \in SUBSET (1 .. n), s # {}
        PROVE f[s] = E(f[s \ {Max(s)}], c[Max(s)])
    <3>1. Max(s) \in 1 .. n
      BY <2>5, MaxIsMember
    <3>2. f[s \ {Max(s)}] \in Int
      OBVIOUS
    <3> QED
      BY <2>2, <2>4, <2>5, <3>1, <3>2
  <2>6. \A s \in SUBSET (1 .. n) :
          f[s] = IF s = {} THEN Whole ELSE E(f[s \ {Max(s)}], c[Max(s)])
    BY <2>4, <2>5
  <2>7. f = [s \in SUBSET (1 .. n) |-> f[s]]
    OBVIOUS
  <2>8. f = [s \in SUBSET D |->
               IF s = {} THEN Whole ELSE E(f[s \ {Max(s)}], c[Max(s)])]
    BY <2>6, <2>7, <1>1
  <2> QED
    BY <2>8
<1> DEFINE iter == CHOOSE f : f = [s \in SUBSET D |->
               IF s = {} THEN Whole ELSE E(f[s \ {Max(s)}], c[Max(s)])]
           g == [i \in 0 .. n |-> iter[1 .. i]]
<1> HIDE DEF E, D
<1>4. iter = [s \in SUBSET D |->
               IF s = {} THEN Whole ELSE E(iter[s \ {Max(s)}], c[Max(s)])]
  BY <1>3
<1>5. Remaining(c) = iter[1 .. n]
  BY <1>1, <1>2
<1> HIDE DEF iter
<1>6. g[0] = Whole /\ g[n] = Remaining(c)
  <2>1. 1 .. 0 = {} /\ 1 .. 0 \in SUBSET (1 .. n)
    OBVIOUS
  <2>2. iter[1 .. 0] = Whole
    BY <1>1, <1>4, <2>1
  <2> QED
    BY <2>2, <1>5
<1>7. ASSUME NEW i \in 1 .. n PROVE g[i] = E(g[i - 1], c[i])
  <2>1. /\ 1 .. i \in SUBSET (1 .. n)
        /\ 1 .. i # {}
        /\ i \in 1 .. i
    <3>1. i \in 1 .. i /\ \A j \in 1 .. i : j \in 1 .. n
      OBVIOUS
    <3> QED
      BY <3>1
  <2>2. Max(1 .. i) = i
    <3>1. 1 .. i \in SUBSET Int /\ \A y \in 1 .. i : y <= i
      OBVIOUS
    <3> QED
      BY <2>1, <3>1, MaxIs
  <2>3. (1 .. i) \ {i} = 1 .. i - 1
    OBVIOUS
  <2>4. iter[1 .. i] = E(iter[1 .. i - 1], c[i])
    BY <1>1, <1>4, <2>1, <2>2, <2>3
  <2> QED
    BY <2>4
<1> HIDE DEF g
<1> USE DEF E
<1>8. g \in [0 .. n -> Int]
  <2> DEFINE T == {i \in Nat : i <= n => g[i] \in Int}
  <2>1. 0 \in T
    BY <1>6, SMT DEF Whole
  <2>2. ASSUME NEW i \in T, i \in Nat PROVE i + 1 \in T
    <3>1. CASE i + 1 <= n
      <4>1. i + 1 \in 1 .. n /\ (i + 1) - 1 = i /\ g[i] \in Int
        BY <3>1, <2>2
      <4>2. g[i + 1] = E(g[i], c[i + 1]) /\ c[i + 1] \in Int
        BY <4>1, <1>7
      <4> QED
        BY <4>1, <4>2
    <3>2. CASE ~(i + 1 <= n)
      BY <3>2
    <3> QED
      BY <3>1, <3>2
  <2> HIDE DEF T
  <2>3. Nat \subseteq T
    BY <2>1, <2>2, SetInduction
  <2> USE DEF T
  <2>4. \A i \in 0 .. n : g[i] \in Int
    BY <2>3
  <2> QED
    BY <2>4 DEF g
<1>9. Leaving(g, c, n)
  BY <1>6, <1>7, <1>8 DEF Leaving
<1> QED
  BY <1>6, <1>9

\* What a detection can contribute, and what it leaves of a product.
Contributions == 0 .. 999

\* What one contribution leaves.
Down(x, c) == (x \div 1000) * (1000 - c)

\* A contribution takes from what remains, and leaves more of more.
LEMMA StepDown ==
  ASSUME NEW x \in Nat, NEW y \in Nat, x <= y, NEW c \in Contributions
  PROVE  Down(x, c) \in 0 .. x /\ Down(y, c) \in 0 .. y /\ Down(x, c) <= Down(y, c)
<1> DEFINE p == x \div 1000
           q == y \div 1000
           k == 1000 - c
<1>1. p \in Int /\ q \in Int /\ 1000 * p <= x /\ 0 <= p /\ p <= q
  BY SMT
<1>2. k \in 1 .. 1000
  BY SMT DEF Contributions
<1> HIDE DEF p, q, k
<1>3. p * k \in Int /\ 0 <= p * k
  BY <1>1, <1>2
<1>4. p * k <= 1000 * p
  <2>1. 0 <= p * (1000 - k)
    BY <1>1, <1>2
  <2>2. p * (1000 - k) = 1000 * p - p * k
    BY <1>1, <1>2
  <2> QED
    BY <2>1, <2>2, <1>1, <1>3
<1>5. p * k <= q * k
  <2>1. 0 <= (q - p) * k
    BY <1>1, <1>2
  <2>2. (q - p) * k = q * k - p * k
    BY <1>1, <1>2
  <2>3. q * k \in Int
    BY <1>1, <1>2
  <2> QED
    BY <2>1, <2>2, <2>3, <1>3
<1>6. q * k <= 1000 * q /\ 1000 * q <= y /\ q * k \in Int
  <2>1. 0 <= q * (1000 - k)
    BY <1>1, <1>2
  <2>2. q * (1000 - k) = 1000 * q - q * k /\ q * k \in Int
    BY <1>1, <1>2
  <2>3. 1000 * q <= y
    BY DEF q
  <2> QED
    BY <2>1, <2>2, <2>3, <1>1
<1>7. Down(x, c) = p * k /\ Down(y, c) = q * k
  BY DEF Down, p, q, k
<1> QED
  BY <1>1, <1>3, <1>4, <1>5, <1>6, <1>7

\* The whole is a number; its digits are out of the way of the provers.
LEMMA WholeIsNatural == Whole \in Nat
  BY SMT DEF Whole

\* Fewer contributions, in the same order, leave no less of the whole.
LEMMA RemainingOfPart ==
  ASSUME NEW n \in Nat, NEW a \in [1 .. n -> Contributions],
         NEW l \in Nat, NEW b \in [1 .. l -> Contributions],
         NEW e, PartOf(e, a, n, b, l)
  PROVE  /\ Remaining(a) \in 0 .. Whole /\ Remaining(b) \in 0 .. Whole
         /\ Remaining(a) <= Remaining(b)
<1>0. /\ \A i \in 1 .. n : a[i] \in Contributions
      /\ \A i \in 1 .. l : b[i] \in Contributions
  OBVIOUS
<1>1. a \in [1 .. n -> Int] /\ b \in [1 .. l -> Int]
  <2>1. a = [i \in 1 .. n |-> a[i]] /\ b = [i \in 1 .. l |-> b[i]]
    OBVIOUS
  <2>2. \A i \in Contributions : i \in Int
    BY SMT DEF Contributions
  <2> QED
    BY <2>1, <2>2, <1>0
<1>2. PICK f : Leaving(f, a, n) /\ f[n] = Remaining(a)
  BY <1>1, RemainingIsFold
<1>3. PICK g : Leaving(g, b, l) /\ g[l] = Remaining(b)
  BY <1>1, RemainingIsFold
<1>4. /\ f[0] = Whole /\ f[0] \in Nat
      /\ \A i \in 1 .. n : f[i] = Down(f[i - 1], a[i])
  BY <1>2, WholeIsNatural DEF Leaving, Down
<1>5. /\ g[0] = Whole /\ g[0] \in Nat
      /\ \A i \in 1 .. l : g[i] = Down(g[i - 1], b[i])
  BY <1>3, WholeIsNatural DEF Leaving, Down
<1>6. /\ \A i \in 1 .. l : e[i] \in 1 .. n /\ b[i] = a[e[i]]
      /\ \A i, j \in 1 .. l : i < j => e[i] < e[j]
  BY DEF PartOf
<1>7. \A j \in 0 .. l : g[j] \in 0 .. Whole
  <2> DEFINE T == {i \in Nat : i <= l => g[i] \in 0 .. Whole}
  <2>1. 0 \in T
    BY <1>5
  <2>2. ASSUME NEW i \in T, i \in Nat PROVE i + 1 \in T
    <3>1. SUFFICES ASSUME i + 1 <= l PROVE g[i + 1] \in 0 .. Whole
      OBVIOUS
    <3>2. i + 1 \in 1 .. l /\ (i + 1) - 1 = i /\ g[i] \in 0 .. Whole /\ g[i] \in Nat /\ g[i] <= g[i]
      BY <3>1, <2>2
    <3>3. g[i + 1] = Down(g[i], b[i + 1]) /\ b[i + 1] \in Contributions
      BY <3>2, <1>0, <1>5
    <3>4. Down(g[i], b[i + 1]) \in 0 .. g[i]
      BY <3>2, <3>3, StepDown
    <3> QED
      BY <3>2, <3>3, <3>4, WholeIsNatural
  <2> HIDE DEF T
  <2>3. Nat \subseteq T
    BY <2>1, <2>2, SetInduction
  <2> USE DEF T
  <2> QED
    BY <2>3
<1> DEFINE Under(i) == f[i] \in 0 .. Whole /\ \A j \in 0 .. l : j = 0 \/ e[j] <= i => f[i] <= g[j]
           T == {i \in Nat : i <= n => Under(i)}
<1>8. 0 \in T
  <2>1. \A j \in 0 .. l : j = 0 \/ e[j] <= 0 => j = 0
    BY <1>6
  <2>2. Under(0)
    BY <2>1, <1>4, <1>5
  <2> QED
    BY <2>2
<1>9. ASSUME NEW i \in T, i \in Nat PROVE i + 1 \in T
  <2>1. SUFFICES ASSUME i + 1 <= n PROVE Under(i + 1)
    OBVIOUS
  <2>2. i + 1 \in 1 .. n /\ (i + 1) - 1 = i /\ Under(i)
    BY <2>1, <1>9
  <2>3. f[i + 1] = Down(f[i], a[i + 1]) /\ a[i + 1] \in Contributions
    BY <2>2, <1>0, <1>4
  <2>4. f[i] \in Nat /\ f[i + 1] \in 0 .. f[i] /\ f[i + 1] \in 0 .. Whole
    <3>1. f[i] \in Nat /\ f[i] \in 0 .. Whole
      BY <2>2
    <3>2. Down(f[i], a[i + 1]) \in 0 .. f[i]
      BY <2>3, <3>1, StepDown
    <3> QED
      BY <2>3, <3>1, <3>2, WholeIsNatural
  <2>5. ASSUME NEW j \in 0 .. l, j = 0 \/ e[j] <= i + 1 PROVE f[i + 1] <= g[j]
    <3>1. CASE j = 0 \/ e[j] <= i
      <4>1. f[i] <= g[j]
        BY <3>1, <2>2
      <4>2. g[j] \in 0 .. Whole
        BY <1>7
      <4> QED
        BY <4>1, <4>2, <2>4, WholeIsNatural
    <3>2. CASE j # 0 /\ ~(e[j] <= i)
      <4>1. j \in 1 .. l /\ e[j] = i + 1 /\ j - 1 \in 0 .. l
        BY <3>2, <2>5, <1>6
      <4>2. j - 1 = 0 \/ e[j - 1] <= i
        <5>1. SUFFICES ASSUME j - 1 # 0 PROVE e[j - 1] <= i
          OBVIOUS
        <5>2. j - 1 \in 1 .. l /\ j - 1 < j
          BY <5>1, <4>1
        <5>3. e[j - 1] < e[j] /\ e[j - 1] \in 1 .. n
          BY <5>2, <4>1, <1>6
        <5> QED
          BY <5>3, <4>1
      <4>3. f[i] <= g[j - 1] /\ g[j - 1] \in Nat
        BY <4>1, <4>2, <2>2, <1>7, WholeIsNatural
      <4>4. g[j] = Down(g[j - 1], a[i + 1])
        BY <4>1, <1>5, <1>6
      <4>5. Down(f[i], a[i + 1]) <= Down(g[j - 1], a[i + 1])
        BY <4>3, <2>3, <2>4, StepDown
      <4> QED
        BY <4>4, <4>5, <2>3
    <3> QED
      BY <3>1, <3>2
  <2> QED
    BY <2>4, <2>5
<1> HIDE DEF T
<1>10. Nat \subseteq T
  BY <1>8, <1>9, SetInduction
<1> USE DEF T
<1>11. Under(n)
  BY <1>10
<1>12. l = 0 \/ e[l] <= n
  BY <1>6
<1> QED
  BY <1>2, <1>3, <1>7, <1>11, <1>12

-----------------------------------------------------------------------------
\* A contribution is clamped, whatever the weights.
LEMMA ContributionIs ==
  ASSUME NEW cfg, IsConfig(cfg), NEW d \in NormDetections
  PROVE  Contribution(d, cfg) \in Contributions
<1>1. Weight(d.cls, cfg) \in Int
  BY DEF Weight, Lookup, IsConfig
<1>2. d.conf \in Int
  BY DEF NormDetections
<1> DEFINE w == Weight(d.cls, cfg)
           x == (10 * w) * d.conf
<1>3. x \in Int
  <2>1. w \in Int /\ 10 * w \in Int
    BY <1>1
  <2> HIDE DEF w
  <2> QED
    BY <2>1, <1>2
<1>4. Contribution(d, cfg) = Clamp(x, 0, 999)
  BY DEF Contribution
<1> HIDE DEF x
<1> QED
  BY <1>3, <1>4, SMT DEF Clamp, Contributions

\* The contributions that are combined.
Counted(dets, cfg) ==
  [i \in DOMAIN ScoredOf(Normalised(dets), cfg) |->
     Contribution(ScoredOf(Normalised(dets), cfg)[i], cfg)]

\* The parts of what compute_risk returns.
LEMMA RiskIs ==
  ASSUME NEW dets, NEW cfg, MergeConfig(cfg) = cfg
  PROVE  LET norm == Normalised(dets)
             risk == ComputeRisk(dets, cfg)
         IN  /\ risk.score = NoisyOr(Counted(dets, cfg))
             /\ risk.factors = [i \in DOMAIN norm |-> Factor(norm[i], cfg)]
                  \o (IF ScoredOf(norm, cfg) = <<>> THEN <<NotCleared>> ELSE <<>>)
  BY DEF ComputeRisk, Counted, ScoredOf

\* compute_risk does not depend on the order of the detections.
LEMMA RiskAnyOrder ==
  ASSUME NEW n \in Nat, NEW dets \in [1 .. n -> RawDetections],
         NEW w \in Bijection(1 .. n, 1 .. n), NEW cfg
  PROVE  ComputeRisk([i \in 1 .. n |-> dets[w[i]]], cfg) = ComputeRisk(dets, cfg)
  BY NormalisedAnyOrder DEF ComputeRisk

\* A configuration from load_risk_config has every key that compute_risk falls back on.
LEMMA LoadedIsMerged ==
  ASSUME NEW yaml
  PROVE  MergeConfig(LoadRiskConfig(yaml)) = LoadRiskConfig(yaml)
<1> DEFINE cfg == LoadRiskConfig(yaml)
<1>1. DOMAIN Fallback = DOMAIN DefaultRiskConfig
  BY DEF Fallback, DefaultRiskConfig
<1>2. cfg = [key \in DOMAIN yaml \cup DOMAIN DefaultRiskConfig |-> cfg[key]]
  BY DEF LoadRiskConfig, Over
<1>3. DOMAIN cfg \cup DOMAIN Fallback = DOMAIN cfg
  BY <1>1, <1>2
<1> HIDE DEF cfg
<1>4. MergeConfig(cfg) = [key \in DOMAIN cfg |-> cfg[key]]
  BY <1>3 DEF MergeConfig, Over
<1>5. cfg = [key \in DOMAIN cfg |-> cfg[key]]
  BY <1>2
<1> QED
  BY <1>4, <1>5 DEF cfg

\* A quotient between bounds.
LEMMA QuotientBetween ==
  ASSUME NEW n \in Int, NEW d \in Nat \ {0}, NEW lo \in Int, NEW hi \in Int,
         d * lo <= n, n < d * (hi + 1)
  PROVE  n \div d \in lo .. hi
<1> DEFINE q == n \div d
           r == n % d
<1>1. q \in Int /\ r \in 0 .. d - 1 /\ n = (d * q) + r
  BY Division
<1> HIDE DEF q, r
<1>2. lo < q + 1
  <2>1. d * lo < d * (q + 1)
    BY <1>1
  <2> QED
    BY <2>1, <1>1, DivisionBound
<1>3. q < hi + 1
  <2>1. d * q < d * (hi + 1)
    BY <1>1
  <2> QED
    BY <2>1, <1>1, DivisionBound
<1>4. q \in lo .. hi
  BY <1>1, <1>2, <1>3
<1> QED
  BY <1>4 DEF q

\* Division keeps the order.
LEMMA QuotientMonotone ==
  ASSUME NEW m \in Int, NEW n \in Int, m <= n, NEW d \in Nat \ {0}
  PROVE  m \div d <= n \div d
<1> DEFINE p == m \div d
           q == n \div d
<1>1. /\ p \in Int /\ m % d \in 0 .. d - 1 /\ m = (d * p) + (m % d)
      /\ q \in Int /\ n % d \in 0 .. d - 1 /\ n = (d * q) + (n % d)
  BY Division
<1> HIDE DEF p, q
<1>2. d * p < d * (q + 1)
  BY <1>1
<1>3. p < q + 1
  BY <1>1, <1>2, DivisionBound
<1>4. p <= q
  BY <1>1, <1>3
<1> QED
  BY <1>4 DEF p, q

\* The score of some of the contributions is a score, and no higher than that of all.
LEMMA NoisyOrOfPart ==
  ASSUME NEW n \in Nat, NEW a \in [1 .. n -> Contributions],
         NEW l \in Nat, NEW b \in [1 .. l -> Contributions],
         NEW e, PartOf(e, a, n, b, l)
  PROVE  NoisyOr(a) \in Scores /\ NoisyOr(b) <= NoisyOr(a)
<1> DEFINE r == Remaining(a)
           q == Remaining(b)
<1>1. r \in 0 .. Whole /\ q \in 0 .. Whole /\ r <= q
  BY RemainingOfPart
<1>2. NoisyOr(a) = (Clamp(Whole - r, 0, Whole) + 50000) \div 100000
  BY SMT DEF NoisyOr
<1>3. NoisyOr(b) = (Clamp(Whole - q, 0, Whole) + 50000) \div 100000
  BY SMT DEF NoisyOr
<1> HIDE DEF r, q
<1> DEFINE x == Whole - r
           y == Whole - q
<1>4. /\ x \in Int /\ y \in Int /\ 0 <= x /\ 0 <= y /\ x <= Whole /\ y <= Whole /\ y <= x
  BY <1>1, WholeIsNatural
<1>5. Clamp(x, 0, Whole) = x /\ Clamp(y, 0, Whole) = y
  BY <1>4, WholeIsNatural DEF Clamp
<1>6. NoisyOr(a) = (x + 50000) \div 100000 /\ NoisyOr(b) = (y + 50000) \div 100000
  BY <1>2, <1>3, <1>5
<1> HIDE DEF x, y
<1> DEFINE u == x + 50000
           v == y + 50000
           d == 100000
           top == 10000
<1>7. /\ u \in Int /\ v \in Int /\ v <= u /\ d \in Nat \ {0} /\ top \in Int
      /\ d * 0 <= u /\ u < d * (top + 1)
  <2>0. Whole = 1000000000
    BY SMT DEF Whole
  <2>1. x \in Int /\ y \in Int /\ 0 <= x /\ 0 <= y /\ x <= 1000000000
    BY <1>4, <2>0, SMT
  <2>2. u \in Int /\ v \in Int /\ v <= u
    BY <1>4, <2>1, SMT
  <2>3. d \in Nat \ {0} /\ top \in Int
    BY SMT
  <2>4. d * 0 = 0 /\ d * (top + 1) = 1000100000
    BY SMT
  <2>5. 0 <= u /\ u < 1000100000
    BY <2>1, SMT
  <2> QED
    BY <2>2, <2>3, <2>4, <2>5, SMT
<1>8. NoisyOr(a) = u \div d /\ NoisyOr(b) = v \div d
  BY <1>6, SMT
<1> HIDE DEF u, v, d, top
<1>9. u \div d \in 0 .. top
  BY <1>7, QuotientBetween
<1>10. v \div d <= u \div d
  BY <1>7, QuotientMonotone
<1>11. NoisyOr(a) \in 0 .. top /\ NoisyOr(b) <= NoisyOr(a)
  BY <1>8, <1>9, <1>10
<1> QED
  BY <1>11, SMT DEF top, Scores

\* Of fewer detections, what counts is a part of what counted.
LEMMA CountedOfPart ==
  ASSUME NEW cfg, IsConfig(cfg),
         NEW n \in Nat, NEW dets \in [1 .. n -> RawDetections],
         NEW l \in Nat, NEW part \in [1 .. l -> RawDetections],
         NEW w \in Injection(1 .. l, 1 .. n), \A j \in 1 .. l : part[j] = dets[w[j]]
  PROVE  \E s, t, e :
           SequencePart(s, t, e, Contributions, Counted(dets, cfg), Counted(part, cfg))
<1> DEFINE a == Normalised(dets)
           b == Normalised(part)
<1>1. PICK m, k, g : NormalPart(m, k, g, a, b)
  BY NormalisedPart
<1>3. /\ Counted(dets, cfg) = [i \in DOMAIN ScoredOf(a, cfg) |-> Contribution(ScoredOf(a, cfg)[i], cfg)]
      /\ Counted(part, cfg) = [i \in DOMAIN ScoredOf(b, cfg) |-> Contribution(ScoredOf(b, cfg)[i], cfg)]
  BY DEF Counted
<1> HIDE DEF a, b
<1>4. PICK s, t, e : SequencePart(s, t, e, NormDetections, ScoredOf(a, cfg), ScoredOf(b, cfg))
  BY <1>1, ScoredPart
<1>5. /\ s \in Nat /\ ScoredOf(a, cfg) \in [1 .. s -> NormDetections]
      /\ t \in Nat /\ ScoredOf(b, cfg) \in [1 .. t -> NormDetections]
      /\ PartOf(e, ScoredOf(a, cfg), s, ScoredOf(b, cfg), t)
  BY <1>4 DEF SequencePart
<1> DEFINE A == ScoredOf(a, cfg)
           B == ScoredOf(b, cfg)
           C == Counted(dets, cfg)
           D == Counted(part, cfg)
<1>6. /\ C = [i \in 1 .. s |-> Contribution(A[i], cfg)]
      /\ D = [i \in 1 .. t |-> Contribution(B[i], cfg)]
  BY <1>3, <1>5
<1>7. /\ \A i \in 1 .. s : A[i] \in NormDetections
      /\ \A i \in 1 .. t : B[i] \in NormDetections
      /\ e \in [1 .. t -> 1 .. s] /\ \A i, j \in 1 .. t : i < j => e[i] < e[j]
      /\ \A i \in 1 .. t : B[i] = A[e[i]]
  BY <1>5 DEF PartOf
<1> HIDE DEF A, B, C, D
<1>8. C \in [1 .. s -> Contributions] /\ D \in [1 .. t -> Contributions]
  BY <1>6, <1>7, ContributionIs
<1>9. PartOf(e, C, s, D, t)
  BY <1>6, <1>7 DEF PartOf
<1>10. SequencePart(s, t, e, Contributions, C, D)
  BY <1>5, <1>8, <1>9 DEF SequencePart
<1> QED
  BY <1>10 DEF C, D

\* A part of the detections, in any order, scores no more than all of them.
LEMMA RiskOfPart ==
  ASSUME NEW cfg, IsConfig(cfg), MergeConfig(cfg) = cfg,
         NEW n \in Nat, NEW dets \in [1 .. n -> RawDetections],
         NEW l \in Nat, NEW part \in [1 .. l -> RawDetections],
         NEW w \in Injection(1 .. l, 1 .. n), \A j \in 1 .. l : part[j] = dets[w[j]]
  PROVE  /\ ComputeRisk(dets, cfg).score \in Scores
         /\ ComputeRisk(part, cfg).score <= ComputeRisk(dets, cfg).score
<1> DEFINE C == Counted(dets, cfg)
           D == Counted(part, cfg)
<1>1. PICK s, t, e : SequencePart(s, t, e, Contributions, C, D)
  BY CountedOfPart
<1>2. ComputeRisk(dets, cfg).score = NoisyOr(C) /\ ComputeRisk(part, cfg).score = NoisyOr(D)
  BY RiskIs
<1> HIDE DEF C, D
<1>3. /\ s \in Nat /\ C \in [1 .. s -> Contributions]
      /\ t \in Nat /\ D \in [1 .. t -> Contributions] /\ PartOf(e, C, s, D, t)
  BY <1>1 DEF SequencePart
<1>4. NoisyOr(C) \in Scores /\ NoisyOr(D) <= NoisyOr(C)
  BY <1>3, NoisyOrOfPart
<1> QED
  BY <1>2, <1>4


\* The advisory stands alone or last, and only when nothing was scored.
LEMMA RiskAdvice ==
  ASSUME NEW cfg, MergeConfig(cfg) = cfg,
         NEW n \in Nat, NEW dets \in [1 .. n -> RawDetections]
  PROVE  LET factors == ComputeRisk(dets, cfg).factors
             usable == {i \in 1 .. n : dets[i].usable}
             advised == NotCleared = Last(factors)
         IN  /\ Len(factors) = Cardinality(usable) + (IF advised THEN 1 ELSE 0)
             /\ Len(factors) \in Nat /\ DOMAIN factors = 1 .. Len(factors)
             /\ advised <=> \A i \in usable : ~Scored(Coerced(dets[i]), cfg)
             /\ \A i \in 1 .. Len(factors) :
                  factors[i] = NotCleared \/ \E j \in usable : factors[i].cls = dets[j].cls
<1> DEFINE U == {i \in 1 .. n : dets[i].usable}
           m == Cardinality(U)
           norm == Normalised(dets)
           told == [i \in DOMAIN norm |-> Factor(norm[i], cfg)]
           factors == ComputeRisk(dets, cfg).factors
<1>1. PICK h \in Bijection(1 .. m, U) :
           /\ m \in 0 .. n /\ norm \in [1 .. m -> NormDetections]
           /\ InOrderBy(Earlier, norm, m)
           /\ \A k \in 1 .. m : norm[k] = Coerced(dets[h[k]])
  BY NormalisedInOrder
<1>2. factors = told \o (IF ScoredOf(norm, cfg) = <<>> THEN <<NotCleared>> ELSE <<>>)
  BY RiskIs
<1>3. \A i \in U : Coerced(dets[i]).cls = dets[i].cls
  BY DEF RawDetections, Coerced
<1> HIDE DEF U, m, norm, factors
<1>4. m \in Nat /\ DOMAIN norm = 1 .. m
  BY <1>1
<1>5. PICK s, u : ScoredAs(s, u, norm, m, cfg)
  BY <1>1, <1>4, ScoredInOrder
<1>6. /\ s \in Nat /\ u \in [1 .. s -> {i \in 1 .. m : Scored(norm[i], cfg)}]
      /\ \A i \in {i \in 1 .. m : Scored(norm[i], cfg)} : \E j \in 1 .. s : u[j] = i
      /\ DOMAIN ScoredOf(norm, cfg) = 1 .. s
      /\ ScoredOf(norm, cfg) = [j \in 1 .. s |-> ScoredOf(norm, cfg)[j]]
  BY <1>5 DEF ScoredAs, Bijection, Injection, Surjection
<1> DEFINE none == \A i \in 1 .. m : ~Scored(norm[i], cfg)
<1>7. ScoredOf(norm, cfg) = <<>> <=> none
  <2>1. ScoredOf(norm, cfg) = <<>> <=> s = 0
    BY <1>6
  <2>2. s = 0 => none
    BY <1>6
  <2>3. ASSUME s # 0 PROVE ~none
    <3>1. 1 \in 1 .. s
      BY <2>3, <1>6
    <3> QED
      BY <3>1, <1>6
  <2> QED
    BY <2>1, <2>2, <2>3
<1>8. none <=> \A i \in U : ~Scored(Coerced(dets[i]), cfg)
  BY <1>1 DEF Bijection, Injection, Surjection
<1> DEFINE S == {Factor(norm[i], cfg) : i \in 1 .. m} \cup {NotCleared}
<1>9. /\ told \in [1 .. m -> S] /\ told \in Seq(S) /\ Len(told) = m
      /\ \A i \in 1 .. m : told[i] = Factor(norm[i], cfg)
      /\ NotCleared \in S
  BY <1>4
<1> HIDE DEF S
<1>10. \A i \in 1 .. m : Factor(norm[i], cfg) # NotCleared /\ Factor(norm[i], cfg).cls = norm[i].cls
  BY DEF Factor, NotCleared
<1>11. \A i \in 1 .. m : \E j \in U : norm[i].cls = dets[j].cls
  BY <1>1, <1>3 DEF Bijection, Injection
<1> HIDE DEF told
<1> DEFINE advised == NotCleared = Last(factors)
           Told == /\ Len(factors) = m + (IF advised THEN 1 ELSE 0)
                   /\ Len(factors) \in Nat /\ DOMAIN factors = 1 .. Len(factors)
                   /\ advised <=> none
                   /\ \A i \in 1 .. Len(factors) :
                        factors[i] = NotCleared \/ \E j \in U : factors[i].cls = dets[j].cls
<1>12. ASSUME none PROVE Told
  <2>1. factors = told \o <<NotCleared>>
    BY <1>2, <1>7, <1>12
  <2>2. <<NotCleared>> \in Seq(S) /\ Len(<<NotCleared>>) = 1
    BY <1>9
  <2>3. Len(factors) = m + 1 /\ factors[m + 1] = NotCleared
        /\ \A i \in 1 .. m : factors[i] = told[i]
        /\ DOMAIN factors = 1 .. Len(factors)
    BY <2>1, <2>2, <1>4, <1>9
  <2>4. Last(factors) = NotCleared
    BY <2>3 DEF Last
  <2>5. \A i \in 1 .. Len(factors) : i \in 1 .. m \/ i = m + 1
    BY <2>3, <1>4
  <2> QED
    BY <2>3, <2>4, <2>5, <1>4, <1>9, <1>10, <1>11, <1>12
<1>13. ASSUME ~none PROVE Told
  <2>1. factors = told \o <<>>
    BY <1>2, <1>7, <1>13
  <2>2. factors = told
    BY <2>1, <1>9
  <2>3. m \in 1 .. m
    BY <1>13, <1>4
  <2>4. Last(factors) # NotCleared
    BY <2>2, <2>3, <1>9, <1>10 DEF Last
  <2>5. Len(factors) = m /\ ~advised /\ DOMAIN factors = 1 .. m
    BY <2>2, <2>4, <1>4, <1>9
  <2>6. m = m + (IF advised THEN 1 ELSE 0)
    BY <2>5, <1>4
  <2>7. \A i \in 1 .. Len(factors) : \E j \in U : factors[i].cls = dets[j].cls
    BY <2>2, <2>5, <1>9, <1>10, <1>11
  <2> QED
    BY <2>5, <2>6, <2>7, <1>4, <1>13
<1>14. Told
  BY <1>12, <1>13
<1> QED
  BY <1>8, <1>14 DEF U, m, factors

-----------------------------------------------------------------------------
\* No digit is lost when there is none to lose.
LEMMA ExactQuotient ==
  ASSUME NEW z \in Int
  PROVE  (1000 * z) \div 1000 = z
  BY SMT

\* Three factors in any order.
LEMMA ThreeFactors ==
  ASSUME NEW u \in Int, NEW v \in Int, NEW w \in Int
  PROVE  /\ (u * w) * v = (u * v) * w /\ (v * u) * w = (u * v) * w
         /\ (v * w) * u = (u * v) * w /\ (w * u) * v = (u * v) * w
         /\ (w * v) * u = (u * v) * w
  BY SMT

\* Up to three steps lose no digit: the product is exact.
LEMMA ThreeSteps ==
  ASSUME NEW n \in 0 .. 3, NEW q, q[0] = Whole,
         NEW z, \A i \in 1 .. n : z[i] \in Int,
         \A i \in 1 .. n : q[i] = (q[i - 1] \div 1000) * z[i]
  PROVE  /\ n = 1 => q[n] = 1000000 * z[1]
         /\ n = 2 => q[n] = 1000 * (z[1] * z[2])
         /\ n = 3 => q[n] = (z[1] * z[2]) * z[3]
<1>1. q[0] \div 1000 = 1000000
  BY SMT DEF Whole
<1>2. n >= 1 => q[1] = 1000000 * z[1] /\ z[1] \in Int
  <2>1. n >= 1 => 1 \in 1 .. n /\ 1 - 1 = 0
    OBVIOUS
  <2> QED
    BY <1>1, <2>1, SMT
<1>3. n >= 2 => q[2] = 1000 * (z[1] * z[2]) /\ z[2] \in Int /\ z[1] * z[2] \in Int
  <2>1. SUFFICES ASSUME n >= 2
                 PROVE  q[2] = 1000 * (z[1] * z[2]) /\ z[2] \in Int /\ z[1] * z[2] \in Int
    OBVIOUS
  <2>2. z[1] \in Int /\ z[2] \in Int /\ q[2] = (q[1] \div 1000) * z[2]
    BY <2>1, SMT
  <2>3. q[1] = 1000 * (1000 * z[1])
    BY <2>1, <2>2, <1>2, SMT
  <2>4. q[1] \div 1000 = 1000 * z[1]
    <3>1. 1000 * z[1] \in Int
      BY <2>2, SMT
    <3> QED
      BY <2>3, <3>1, ExactQuotient, SMT
  <2>5. (1000 * z[1]) * z[2] = 1000 * (z[1] * z[2])
    BY <2>2, SMT
  <2> QED
    BY <2>2, <2>4, <2>5, SMT
<1>4. n >= 3 => q[3] = (z[1] * z[2]) * z[3]
  <2>1. SUFFICES ASSUME n >= 3 PROVE q[3] = (z[1] * z[2]) * z[3]
    OBVIOUS
  <2>2. q[3] = (q[2] \div 1000) * z[3]
    BY <2>1, SMT
  <2>3. q[2] \div 1000 = z[1] * z[2]
    BY <2>1, <1>3, ExactQuotient, SMT
  <2> QED
    BY <2>2, <2>3
<1> QED
  BY <1>2, <1>3, <1>4, SMT

\* Up to three contributions, no digit is lost, whatever their order.
LEMMA RemainingAnyOrder ==
  ASSUME NEW n \in 0 .. 3, NEW a \in [1 .. n -> Contributions],
         NEW p \in Bijection(1 .. n, 1 .. n)
  PROVE  Remaining([i \in 1 .. n |-> a[p[i]]]) = Remaining(a)
<1> DEFINE b == [i \in 1 .. n |-> a[p[i]]]
           x == [i \in 1 .. n |-> 1000 - a[i]]
<1>1. /\ p \in [1 .. n -> 1 .. n]
      /\ \A i, j \in 1 .. n : p[i] = p[j] => i = j
  BY DEF Bijection, Injection, IsInjective
<1>2. /\ \A i \in 1 .. n : a[i] \in Int /\ b[i] \in Int /\ b[i] = a[p[i]] /\ x[i] \in Int
      /\ a = [i \in 1 .. n |-> a[i]] /\ b = [i \in 1 .. n |-> b[i]]
  <2>1. \A i \in Contributions : i \in Int
    BY SMT DEF Contributions
  <2> QED
    BY <2>1, <1>1
<1>3. a \in [1 .. n -> Int] /\ b \in [1 .. n -> Int] /\ n \in Nat
  BY <1>2
<1> HIDE DEF b
<1>4. PICK f : Leaving(f, a, n) /\ f[n] = Remaining(a)
  BY <1>3, RemainingIsFold
<1>5. PICK g : Leaving(g, b, n) /\ g[n] = Remaining(b)
  BY <1>3, RemainingIsFold
<1>6. /\ f[0] = Whole /\ g[0] = Whole
      /\ \A i \in 1 .. n : f[i] = (f[i - 1] \div 1000) * (1000 - a[i])
      /\ \A i \in 1 .. n : g[i] = (g[i - 1] \div 1000) * (1000 - b[i])
  BY <1>4, <1>5 DEF Leaving
<1> DEFINE y == [i \in 1 .. n |-> x[p[i]]]
<1>7. /\ \A i \in 1 .. n : x[i] \in Int /\ y[i] \in Int /\ y[i] = x[p[i]]
      /\ \A i \in 1 .. n : f[i] = (f[i - 1] \div 1000) * x[i]
      /\ \A i \in 1 .. n : g[i] = (g[i - 1] \div 1000) * y[i]
  <2>1. \A i \in 1 .. n : p[i] \in 1 .. n
    BY <1>1
  <2>2. \A i \in 1 .. n : x[i] = 1000 - a[i] /\ y[i] = x[p[i]]
    OBVIOUS
  <2>3. \A i \in 1 .. n : y[i] = 1000 - b[i]
    BY <2>1, <2>2, <1>2
  <2> HIDE DEF x, y
  <2>4. \A i \in 1 .. n : x[i] \in Int /\ y[i] \in Int
    BY <2>2, <2>3, <1>2, SMT
  <2> QED
    BY <2>2, <2>3, <2>4, <1>6
<1> HIDE DEF x, y
<1>8. ASSUME NEW q, q[0] = Whole, NEW z, \A i \in 1 .. n : z[i] \in Int,
             \A i \in 1 .. n : q[i] = (q[i - 1] \div 1000) * z[i]
      PROVE  /\ n = 1 => q[n] = 1000000 * z[1]
             /\ n = 2 => q[n] = 1000 * (z[1] * z[2])
             /\ n = 3 => q[n] = (z[1] * z[2]) * z[3]
  BY <1>8, ThreeSteps
<1>9. CASE n = 0
  BY <1>4, <1>5, <1>6, <1>9 DEF b
<1>10. CASE n = 1
  <2>1. p[1] = 1
    BY <1>1, <1>10
  <2> QED
    BY <2>1, <1>4, <1>5, <1>6, <1>7, <1>8, <1>10 DEF b
<1>11. CASE n = 2
  <2>1. 1 \in 1 .. n /\ 2 \in 1 .. n
    BY <1>11
  <2>2. (p[1] = 1 /\ p[2] = 2) \/ (p[1] = 2 /\ p[2] = 1)
    BY <1>1, <1>11
  <2>3. y[1] * y[2] = x[1] * x[2]
    BY <2>1, <2>2, <1>7
  <2>4. f[n] = 1000 * (x[1] * x[2]) /\ g[n] = 1000 * (y[1] * y[2])
    BY <1>6, <1>7, <1>8, <1>11
  <2> QED
    BY <2>3, <2>4, <1>4, <1>5 DEF b
<1>12. CASE n = 3
  <2>1. 1 \in 1 .. n /\ 2 \in 1 .. n /\ 3 \in 1 .. n
    BY <1>12
  <2>2. \/ p[1] = 1 /\ p[2] = 2 /\ p[3] = 3
        \/ p[1] = 1 /\ p[2] = 3 /\ p[3] = 2
        \/ p[1] = 2 /\ p[2] = 1 /\ p[3] = 3
        \/ p[1] = 2 /\ p[2] = 3 /\ p[3] = 1
        \/ p[1] = 3 /\ p[2] = 1 /\ p[3] = 2
        \/ p[1] = 3 /\ p[2] = 2 /\ p[3] = 1
    BY <1>1, <1>12
  <2>3. (y[1] * y[2]) * y[3] = (x[1] * x[2]) * x[3]
    <3>1. /\ x[1] \in Int /\ x[2] \in Int /\ x[3] \in Int
          /\ y[1] = x[p[1]] /\ y[2] = x[p[2]] /\ y[3] = x[p[3]]
      BY <2>1, <1>7
    <3>2. /\ (x[1] * x[3]) * x[2] = (x[1] * x[2]) * x[3]
          /\ (x[2] * x[1]) * x[3] = (x[1] * x[2]) * x[3]
          /\ (x[2] * x[3]) * x[1] = (x[1] * x[2]) * x[3]
          /\ (x[3] * x[1]) * x[2] = (x[1] * x[2]) * x[3]
          /\ (x[3] * x[2]) * x[1] = (x[1] * x[2]) * x[3]
      BY <3>1, ThreeFactors
    <3> QED
      BY <2>2, <3>1, <3>2
  <2>4. f[n] = (x[1] * x[2]) * x[3] /\ g[n] = (y[1] * y[2]) * y[3]
    BY <1>6, <1>7, <1>8, <1>12
  <2> QED
    BY <2>3, <2>4, <1>4, <1>5 DEF b
<1> QED
  BY <1>9, <1>10, <1>11, <1>12

\* Rounded to four digits and to three, a number differs by half of the last of three.
LEMMA SameToThreeDigits ==
  ASSUME NEW x \in 0 .. Whole
  PROVE  ((x + 50000) \div 100000) - 10 * ((x + 500000) \div 1000000) \in -5 .. 5
<1> DEFINE u == x + 50000
           v == x + 500000
           c == 100000
           d == 1000000
           a == u \div c
           b == v \div d
<1>1. u \in Int /\ v \in Int /\ c \in Nat \ {0} /\ d \in Nat \ {0}
  BY WholeIsNatural, SMT
<1> HIDE DEF u, v, c, d
<1>2. /\ a \in Int /\ u % c \in 0 .. c - 1 /\ u = (c * a) + (u % c)
      /\ b \in Int /\ v % d \in 0 .. d - 1 /\ v = (d * b) + (v % d)
  BY <1>1, Division
<1> DEFINE r == u % c
           s == v % d
<1>3. /\ a \in Int /\ r \in 0 .. c - 1 /\ u = (c * a) + r
      /\ b \in Int /\ s \in 0 .. d - 1 /\ v = (d * b) + s
  BY <1>2
<1> HIDE DEF a, b, r, s
<1>4. c = 100000 /\ d = 1000000 /\ v = u + 450000
  BY WholeIsNatural, SMT DEF u, v, c, d
<1>5. 0 <= r /\ r < 100000 /\ r \in Int /\ 0 <= s /\ s < 1000000 /\ s \in Int
  <2>1. r \in 0 .. c - 1 /\ s \in 0 .. d - 1
    BY <1>3
  <2>2. c = 100000 /\ d = 1000000
    BY <1>4
  <2>3. r \in Int /\ 0 <= r /\ r < c /\ s \in Int /\ 0 <= s /\ s < d
    BY <2>1, <1>1
  <2> QED
    BY <2>2, <2>3, SMT
<1>6. u = (100000 * a) + r /\ u + 450000 = (1000000 * b) + s
  <2>1. u = (c * a) + r /\ v = (d * b) + s
    BY <1>3
  <2>2. u = (100000 * a) + r /\ v = (1000000 * b) + s
    BY <2>1, <1>4, SMT
  <2> QED
    BY <2>2, <1>4, SMT
<1>7. 100000 * (a - 10 * b) = (s - r) - 450000
  BY <1>3, <1>5, <1>6, <1>1, SMT
<1> DEFINE t == a - 10 * b
<1>8. t \in Int /\ 100000 * t < 600000 /\ -600000 < 100000 * t
  BY <1>3, <1>5, <1>7, SMT
<1>9. t \in -5 .. 5
  BY <1>8, SMT
<1>10. a - 10 * b \in -5 .. 5
  BY <1>9
<1> QED
  BY <1>10, SMT DEF a, b, u, v, c, d

\* On up to three detections that the reference engine takes as they are, the two
\* engines agree to its three digits (scoring.py against mocks.py).
LEMMA RiskAsReference ==
  ASSUME NEW cfg, IsConfig(cfg), MergeConfig(cfg) = cfg,
         NEW n \in 0 .. 3, NEW dets \in [1 .. n -> RawDetections],
         \A i \in 1 .. n :
           /\ dets[i].usable /\ dets[i].conf \in 0 .. 10
           /\ Scored(dets[i], cfg) /\ Weight(dets[i].cls, cfg) * dets[i].conf \in 0 .. 99
  PROVE  ComputeRisk(dets, cfg).score - 10 * ReferenceRisk(dets, cfg).score \in -5 .. 5
<1> DEFINE U == {i \in 1 .. n : dets[i].usable}
           D == 1 .. n
           norm == Normalised(dets)
           c == [i \in 1 .. n |-> 10 * Weight(dets[i].cls, cfg) * dets[i].conf]
<1>1. n \in Nat /\ U = D /\ Cardinality(D) = n /\ IsFiniteSet(D)
  BY FiniteDomain
<1> DEFINE m == Cardinality(U)
<1>0. PICK h \in Bijection(1 .. m, U) :
           /\ m \in 0 .. n /\ norm \in [1 .. m -> NormDetections]
           /\ InOrderBy(Earlier, norm, m)
           /\ \A k \in 1 .. m : norm[k] = Coerced(dets[h[k]])
  BY <1>1, NormalisedInOrder
<1> HIDE DEF norm, U
<1>2. /\ h \in Bijection(1 .. n, D)
      /\ norm \in [1 .. n -> NormDetections] /\ InOrderBy(Earlier, norm, n)
      /\ \A k \in 1 .. n : norm[k] = Coerced(dets[h[k]])
  BY <1>0, <1>1
<1>3. \A i \in 1 .. n : Coerced(dets[i]) = dets[i]
  BY DEF Coerced, Clamp, One, RawDetections
<1>4. \A k \in 1 .. n : h[k] \in 1 .. n /\ norm[k] = dets[h[k]] /\ Scored(norm[k], cfg)
  BY <1>2, <1>3 DEF Bijection, Injection
<1>5. PICK s, u : ScoredAs(s, u, norm, n, cfg)
  BY <1>1, <1>2, ScoredInOrder
<1>6. {i \in 1 .. n : Scored(norm[i], cfg)} = D
  BY <1>4
<1>7. /\ s \in Nat /\ u \in Bijection(1 .. s, D)
      /\ ScoredOf(norm, cfg) \in [1 .. s -> NormDetections]
      /\ \A j \in 1 .. s : ScoredOf(norm, cfg)[j] = norm[u[j]]
  BY <1>5, <1>6 DEF ScoredAs
<1>8. s = n
  <2>1. /\ IsFiniteSet(1 .. s) /\ Cardinality(1 .. s) = s
    BY <1>7, FiniteDomain
  <2>2. ExistsBijection(1 .. s, D)
    BY <1>7 DEF ExistsBijection
  <2> QED
    BY <2>1, <2>2, <1>1, FS_Bijection
<1>9. \A i \in 1 .. n : c[i] = Contribution(dets[i], cfg) /\ c[i] \in Contributions
  <2>1. SUFFICES ASSUME NEW i \in 1 .. n
                 PROVE  c[i] = Contribution(dets[i], cfg) /\ c[i] \in Contributions
    OBVIOUS
  <2> DEFINE w == Weight(dets[i].cls, cfg)
             f == dets[i].conf
  <2>2. w \in Int /\ f \in Int /\ w * f \in 0 .. 99
    BY DEF Weight, Lookup, IsConfig, RawDetections
  <2>3. c[i] = (10 * w) * f /\ Contribution(dets[i], cfg) = Clamp((10 * w) * f, 0, 999)
    BY DEF Contribution
  <2> HIDE DEF w, f, c
  <2>4. (10 * w) * f = 10 * (w * f)
    BY <2>2
  <2> DEFINE x == 10 * (w * f)
  <2>5. x \in 0 .. 990
    BY <2>2, SMT
  <2>6. c[i] = x /\ Contribution(dets[i], cfg) = Clamp(x, 0, 999)
    BY <2>3, <2>4
  <2> HIDE DEF x
  <2>7. Clamp(x, 0, 999) = x /\ x \in Contributions
    BY <2>5, SMT DEF Clamp, Contributions
  <2> QED
    BY <2>6, <2>7
<1> DEFINE p == [k \in 1 .. n |-> h[u[k]]]
<1>10. p \in Bijection(1 .. n, 1 .. n)
  <2>1. p \in [D -> D] /\ u \in Bijection(D, D) /\ h \in Bijection(D, D)
        /\ \A k \in D : p[k] = h[u[k]]
    BY <1>2, <1>7, <1>8 DEF Bijection, Injection
  <2> HIDE DEF p, D
  <2>2. p \in Bijection(D, D)
    BY <2>1, BijectionThenBijection
  <2> QED
    BY <2>2 DEF D
<1>11. \A k \in 1 .. n : u[k] \in 1 .. n /\ p[k] \in 1 .. n /\ p[k] = h[u[k]]
  BY <1>7, <1>8, <1>10 DEF Bijection, Injection
<1>12. Counted(dets, cfg) = [k \in 1 .. n |-> Contribution(ScoredOf(norm, cfg)[k], cfg)]
  BY <1>7, <1>8 DEF Counted, norm
<1> HIDE DEF c, p
<1>13. Counted(dets, cfg) = [k \in 1 .. n |-> c[p[k]]]
  <2>1. \A k \in 1 .. n : ScoredOf(norm, cfg)[k] = dets[p[k]]
    <3>1. \A k \in 1 .. n : ScoredOf(norm, cfg)[k] = norm[u[k]]
      BY <1>7, <1>8
    <3>2. \A k \in 1 .. n : norm[u[k]] = dets[h[u[k]]]
      BY <1>4, <1>11
    <3> QED
      BY <3>1, <3>2, <1>11
  <2>2. \A k \in 1 .. n : Contribution(dets[p[k]], cfg) = c[p[k]]
    BY <1>9, <1>11
  <2>3. \A k \in 1 .. n : Contribution(ScoredOf(norm, cfg)[k], cfg) = c[p[k]]
    BY <2>1, <2>2
  <2> QED
    BY <1>12, <2>3
<1>14. c \in [1 .. n -> Contributions]
  BY <1>9 DEF c
<1>15. Remaining([k \in 1 .. n |-> c[p[k]]]) = Remaining(c)
  BY <1>10, <1>14, RemainingAnyOrder
<1> DEFINE r == Remaining(c)
           x == Whole - r
<1>16. r \in 0 .. Whole
  <2> DEFINE e == [i \in 1 .. n |-> i]
  <2>1. PartOf(e, c, n, c, n)
    BY DEF PartOf
  <2> HIDE DEF e
  <2> QED
    BY <2>1, <1>1, <1>14, RemainingOfPart
<1>17. ComputeRisk(dets, cfg).score = (Clamp(Whole - r, 0, Whole) + 50000) \div 100000
  <2>1. ComputeRisk(dets, cfg).score = NoisyOr(Counted(dets, cfg))
    BY RiskIs
  <2>2. Remaining(Counted(dets, cfg)) = r
    BY <1>13, <1>15
  <2> HIDE DEF r
  <2> QED
    BY <2>1, <2>2, SMT DEF NoisyOr
<1>18. ReferenceRisk(dets, cfg).score = (Whole - r + 500000) \div 1000000
  <2>1. c = [i \in DOMAIN dets |->
               10 * Lookup(cfg.class_weights, dets[i].cls, cfg.default_weight) * dets[i].conf]
    BY DEF c, Weight
  <2>2. ReferenceRisk(dets, cfg).score =
          (Whole - Remaining([i \in DOMAIN dets |->
               10 * Lookup(cfg.class_weights, dets[i].cls, cfg.default_weight) * dets[i].conf])
           + 500000) \div 1000000
    BY SMT DEF ReferenceRisk
  <2> QED
    BY <2>1, <2>2, SMT
<1> HIDE DEF r
<1>19. x \in 0 .. Whole /\ Clamp(x, 0, Whole) = x
  BY <1>16, WholeIsNatural DEF Clamp
<1> HIDE DEF x
<1>20. ((x + 50000) \div 100000) - 10 * ((x + 500000) \div 1000000) \in -5 .. 5
  BY <1>19, SameToThreeDigits, SMT
<1> QED
  BY <1>17, <1>18, <1>19, <1>20, SMT DEF x

-----------------------------------------------------------------------------
\* Round goes to one of the neighbours, and leaves a whole number alone.
LEMMA RoundBounds ==
  ASSUME NEW n \in Int, NEW d \in Nat \ {0}
  PROVE  /\ Round(n, d) \in {n \div d, (n \div d) + 1} /\ Round(n, d) \in Int
         /\ n % d = 0 => Round(n, d) = n \div d
  BY Division DEF Round

\* Rounded, a number stays within whole bounds.
LEMMA RoundWithin ==
  ASSUME NEW n \in Int, NEW d \in Nat \ {0}, NEW m \in Nat, 0 <= n, n <= d * m
  PROVE  Round(n, d) \in 0 .. m
<1> DEFINE q == n \div d
           r == n % d
<1>1. q \in Int /\ r \in 0 .. d - 1 /\ n = d * q + r
  BY Division
<1> HIDE DEF q, r
<1>2. -1 < q
  <2>1. d * (-1) < d * q
    BY <1>1
  <2> QED
    BY <2>1, <1>1, DivisionBound
<1>3. q < m + 1
  <2>1. d * q < d * (m + 1)
    BY <1>1
  <2> QED
    BY <2>1, <1>1, DivisionBound
<1>4. q = m => r = 0
  BY <1>1
<1>5. Round(n, d) \in {q, q + 1} /\ (r = 0 => Round(n, d) = q)
  BY RoundBounds DEF q, r
<1> QED
  BY <1>1, <1>2, <1>3, <1>4, <1>5

\* Rounding keeps the order, ties to the even neighbour included.
LEMMA RoundMonotone ==
  ASSUME NEW a \in Int, NEW b \in Int, NEW d \in Nat \ {0}, a <= b
  PROVE  Round(a, d) <= Round(b, d)
<1> DEFINE p == a \div d
           q == b \div d
           r == a % d
           s == b % d
<1>1. p \in Int /\ r \in 0 .. d - 1 /\ a = d * p + r
  BY Division
<1>2. q \in Int /\ s \in 0 .. d - 1 /\ b = d * q + s
  BY Division
<1>3. /\ Round(a, d) = IF 2 * r < d \/ (2 * r = d /\ p % 2 = 0) THEN p ELSE p + 1
      /\ Round(b, d) = IF 2 * s < d \/ (2 * s = d /\ q % 2 = 0) THEN q ELSE q + 1
  BY DEF Round
<1> HIDE DEF p, q, r, s
<1>4. p < q + 1
  <2>1. d * p < d * (q + 1)
    BY <1>1, <1>2
  <2> QED
    BY <2>1, <1>1, <1>2, DivisionBound
<1>5. p = q => r <= s
  BY <1>1, <1>2
<1> QED
  BY <1>1, <1>2, <1>3, <1>4, <1>5

\* Rounded, a fraction does not depend on how it is written.
LEMMA RoundExpanded ==
  ASSUME NEW n \in Int, NEW d \in Nat \ {0}, NEW k \in Nat \ {0}
  PROVE  Round(n * k, d * k) = Round(n, d)
<1> DEFINE q == n \div d
           r == n % d
           rk == r * k
           dk == d * k
           nk == n * k
<1>1. q \in Int /\ r \in 0 .. d - 1 /\ n = d * q + r
  BY Division
<1>2. Round(n, d) = IF 2 * r < d \/ (2 * r = d /\ q % 2 = 0) THEN q ELSE q + 1
  BY DEF Round
<1> HIDE DEF q, r
<1>3. dk \in Nat \ {0} /\ rk \in Nat /\ nk \in Int
  BY <1>1
<1>4. nk = dk * q + rk
  <2>1. (d * q + r) * k = (d * q) * k + r * k
    BY <1>1
  <2>2. (d * q) * k = (d * k) * q
    BY <1>1
  <2> QED
    BY <1>1, <2>1, <2>2
<1>5. \A a, b \in Int : a < b => k * a < k * b
  <2> SUFFICES ASSUME NEW a \in Int, NEW b \in Int, a < b PROVE k * a < k * b
    OBVIOUS
  <2>1. k * (b - a) > 0
    OBVIOUS
  <2>2. k * (b - a) = k * b - k * a
    OBVIOUS
  <2> QED
    BY <2>1, <2>2
<1>6. k * r = rk /\ k * d = dk /\ k * (2 * r) = 2 * rk
  BY <1>1
<1>7. rk < dk
  BY <1>1, <1>5, <1>6
<1>8. 2 * r < d <=> 2 * rk < dk
  <2>1. 2 * r < d => 2 * rk < dk
    BY <1>1, <1>5, <1>6
  <2>2. 2 * rk < dk => 2 * r < d
    <3>1. SUFFICES ASSUME k * (2 * r) < k * d PROVE 2 * r < d
      BY <1>6
    <3> QED
      BY <3>1, <1>1, DivisionBound
  <2> QED
    BY <2>1, <2>2
<1>9. d < 2 * r <=> dk < 2 * rk
  <2>1. d < 2 * r => dk < 2 * rk
    BY <1>1, <1>5, <1>6
  <2>2. dk < 2 * rk => d < 2 * r
    <3>1. SUFFICES ASSUME k * d < k * (2 * r) PROVE d < 2 * r
      BY <1>6
    <3> QED
      BY <3>1, <1>1, DivisionBound
  <2> QED
    BY <2>1, <2>2
<1> HIDE DEF rk, dk, nk
<1>10. 2 * r = d <=> 2 * rk = dk
  BY <1>1, <1>3, <1>8, <1>9
<1>11. nk \div dk = q /\ nk % dk = rk
  BY <1>1, <1>3, <1>4, <1>7, DivisionIs
<1>12. Round(nk, dk) = IF 2 * rk < dk \/ (2 * rk = dk /\ q % 2 = 0) THEN q ELSE q + 1
  BY <1>11 DEF Round
<1>13. Round(nk, dk) = Round(n, d)
  BY <1>2, <1>8, <1>10, <1>12
<1> QED
  BY <1>13 DEF nk, dk

-----------------------------------------------------------------------------
\* A side, resized, fits the square of the model.
LEMMA ResizedFits ==
  ASSUME NEW image \in ImageSizes, NEW length \in {image.h, image.w}
  PROVE  Resized(length, image) \in 0 .. ImgSize
<1>1. ImgSize \in Nat /\ Side(image) \in Nat \ {0} /\ length \in Nat /\ length <= Side(image)
  BY VisionAssumption DEF ImageSizes, Side, Larger
<1> DEFINE d == Side(image)
<1> HIDE DEF d
<1>2. length * ImgSize \in Int /\ 0 <= length * ImgSize
  BY <1>1
<1>3. length * ImgSize <= d * ImgSize
  <2>1. (d - length) * ImgSize >= 0
    BY <1>1 DEF d
  <2>2. (d - length) * ImgSize = d * ImgSize - length * ImgSize
    BY <1>1 DEF d
  <2> QED
    BY <2>1, <2>2, <1>1 DEF d
<1>4. Round(length * ImgSize, d) \in 0 .. ImgSize
  BY <1>1, <1>2, <1>3, RoundWithin DEF d
<1> QED
  BY <1>4 DEF Resized, d

\* The padding is not negative, and leaves room for what is padded: round(pad - 0.1)
\* never puts the image over the edge.
LEMMA PadFits ==
  ASSUME NEW image \in ImageSizes, NEW length \in {image.h, image.w}
  PROVE  /\ Pad(length, image) \in Nat
         /\ Pad(length, image) + Resized(length, image) <= ImgSize
<1> DEFINE k == ImgSize - Resized(length, image)
<1>1. k \in Nat /\ ImgSize \in Nat /\ Resized(length, image) \in 0 .. ImgSize
  BY ResizedFits, VisionAssumption
<1>2. Pad(length, image) = Round(5 * k - 1, 10)
  BY DEF Pad
<1> HIDE DEF k
<1>3. CASE k = 0
  <2> DEFINE n == 5 * k - 1
  <2>0. n \in Int
    BY <1>1
  <2>1. n = -1
    BY <1>3
  <2> HIDE DEF n
  <2>3. n \div 10 = -1 /\ n % 10 = 9
    <3>1. n = (10 * (n \div 10)) + (n % 10) /\ n % 10 \in 0 .. 9 /\ n \div 10 \in Int
      BY <2>0
    <3> QED
      BY <3>1, <2>1
  <2>2. Round(n, 10) = 0
    BY <2>3 DEF Round
  <2> QED
    BY <2>2, <1>1, <1>2 DEF n
<1>4. CASE k > 0
  <2>1. 5 * k - 1 \in Int /\ 0 <= 5 * k - 1 /\ 5 * k - 1 <= 10 * k
    BY <1>1, <1>4
  <2>2. Round(5 * k - 1, 10) \in 0 .. k
    BY <2>1, <1>1, RoundWithin
  <2> QED
    BY <2>2, <1>1, <1>2 DEF k
<1> QED
  BY <1>1, <1>3, <1>4

\* A coordinate is clipped to the image, whatever the network answers.
LEMMA ToPixelWithin ==
  ASSUME NEW x \in Int, NEW pad \in Int, NEW image \in ImageSizes, NEW length \in Nat
  PROVE  ToPixel(x, pad, image, length) \in 0 .. length
<1> DEFINE d == 20 * ImgSize
           n == (x - 20 * pad) * Side(image)
           c == Within(n, 0, length * d)
<1>1. d \in Nat \ {0}
  BY VisionAssumption
<1>2. n \in Int
  <2>1. x - 20 * pad \in Int /\ Side(image) \in Int
    BY DEF ImageSizes, Side, Larger
  <2> QED
    BY <2>1
<1>3. ToPixel(x, pad, image, length) = Round(c, d)
  BY DEF ToPixel
<1> HIDE DEF d, n
<1>4. length * d \in Nat /\ length * d = d * length
  BY <1>1
<1>5. c \in Int /\ 0 <= c /\ c <= d * length
  BY <1>2, <1>4 DEF Within, Larger, Smaller
<1> HIDE DEF c
<1> QED
  BY <1>1, <1>3, <1>5, RoundWithin

\* The way back to the image keeps the order of coordinates.
LEMMA ToPixelMonotone ==
  ASSUME NEW x \in Int, NEW y \in Int, x <= y, NEW pad \in Int,
         NEW image \in ImageSizes, NEW length \in Nat
  PROVE  ToPixel(x, pad, image, length) <= ToPixel(y, pad, image, length)
<1> DEFINE s == Side(image)
           d == 20 * ImgSize
           p == 20 * pad
           n == (x - p) * s
           m == (y - p) * s
           c == Within(n, 0, length * d)
           e == Within(m, 0, length * d)
<1>1. s \in Nat \ {0} /\ p \in Int /\ d \in Nat \ {0}
  BY VisionAssumption DEF ImageSizes, Side, Larger
<1>2. /\ ToPixel(x, pad, image, length) = Round(c, d)
      /\ ToPixel(y, pad, image, length) = Round(e, d)
  BY DEF ToPixel
<1> HIDE DEF s, d, p
<1>3. n \in Int /\ m \in Int /\ n <= m
  <2>1. (y - x) * s >= 0
    BY <1>1
  <2>2. (y - x) * s = m - n
    BY <1>1
  <2> QED
    BY <2>1, <2>2, <1>1
<1> HIDE DEF n, m
<1>4. length * d \in Nat
  BY <1>1
<1>5. c \in Int /\ e \in Int /\ c <= e
  BY <1>3, <1>4 DEF Within, Larger, Smaller
<1> HIDE DEF c, e
<1> QED
  BY <1>1, <1>2, <1>5, RoundMonotone

-----------------------------------------------------------------------------
\* Decoded boxes.
Boxes == [cls : Int, score : Int, x1 : Int, y1 : Int, x2 : Int, y2 : Int]

\* Overlap is mutual.
LEMMA OverlapSymmetric ==
  ASSUME NEW a \in Boxes, NEW b \in Boxes
  PROVE  Overlap(a, b) <=> Overlap(b, a)
<1>1. Inter(a, b) = Inter(b, a)
  <2>1. ASSUME NEW x \in Int, NEW y \in Int
        PROVE  Smaller(x, y) = Smaller(y, x) /\ Larger(x, y) = Larger(y, x)
    BY DEF Smaller, Larger
  <2> QED
    BY <2>1 DEF Inter, Boxes
<1>2. Area(a) \in Int /\ Area(b) \in Int
  BY DEF Area, Boxes
<1>3. Inter(a, b) \in Int
  BY DEF Inter, Boxes, Smaller, Larger
<1>4. Union(a, b) = Union(b, a)
  BY <1>1, <1>2, <1>3 DEF Union
<1> QED
  BY <1>1, <1>4 DEF Overlap

\* Some class is the first of the best: argmax is defined.
LEMMA BestClassExists ==
  ASSUME NEW m \in Nat \ {0}, NEW scores \in [1 .. m -> Int]
  PROVE  BestClass(scores) \in 1 .. m
<1> DEFINE S == 1 .. m
           R == {p \in S \X S : \/ scores[p[1]] > scores[p[2]]
                                \/ scores[p[1]] = scores[p[2]] /\ p[1] < p[2]}
<1>1. m \in Nat \ {0}
  OBVIOUS
<1>2. IsFiniteSet(S) /\ Cardinality(S) = m
  BY <1>1, FS_Interval
<1>3. \A x, y \in S : <<x, y>> \in R <=> (scores[x] > scores[y] \/ (scores[x] = scores[y] /\ x < y))
  OBVIOUS
<1> HIDE DEF R
<1>4. StrictOrder(S, R)
  BY <1>3 DEF StrictOrder
<1> DEFINE q == Ranked(S, R)
<1>5. q \in Bijection(S, S) /\ \A i, j \in S : i < j <=> <<q[i], q[j]>> \in R
  BY <1>2, <1>4, RankedInOrder
<1> HIDE DEF q
<1>6. q[1] \in S
  BY <1>1, <1>5 DEF Bijection, Injection
<1>7. ASSUME NEW d \in S, d # q[1] PROVE <<q[1], d>> \in R
  <2>1. PICK i \in S : q[i] = d
    BY <1>5 DEF Bijection, Surjection
  <2>2. 1 < i /\ 1 \in S
    BY <2>1, <1>7, <1>1
  <2> QED
    BY <2>1, <2>2, <1>5
<1>8. /\ \A d \in DOMAIN scores : scores[d] <= scores[q[1]]
      /\ \A d \in DOMAIN scores : d < q[1] => scores[d] < scores[q[1]]
  <2>1. \A d \in S : scores[d] \in Int
    OBVIOUS
  <2>2. ASSUME NEW d \in S
        PROVE  scores[d] <= scores[q[1]] /\ (d < q[1] => scores[d] < scores[q[1]])
    <3>1. CASE d = q[1]
      BY <3>1, <2>1, <1>6
    <3>2. CASE d # q[1]
      <4>1. scores[q[1]] > scores[d] \/ (scores[q[1]] = scores[d] /\ q[1] < d)
        BY <3>2, <1>3, <1>6, <1>7
      <4> QED
        BY <4>1, <2>1, <1>6
    <3> QED
      BY <3>1, <3>2
  <2> QED
    BY <2>2
<1>9. \E c \in DOMAIN scores : /\ \A d \in DOMAIN scores : scores[d] <= scores[c]
                               /\ \A d \in DOMAIN scores : d < c => scores[d] < scores[c]
  BY <1>6, <1>8
<1>10. BestClass(scores) \in DOMAIN scores
  BY <1>9 DEF BestClass
<1> QED
  BY <1>10

\* The corners of a box are in order.
CornersInOrder(b) == b.x1 <= b.x2 /\ b.y1 <= b.y2

\* Every candidate that is sure enough is among the boxes.
AllRead(answer, boxes) ==
  \A i \in DOMAIN answer :
    Decoded(answer[i]).score >= Conf => \E k \in DOMAIN boxes : boxes[k] = Decoded(answer[i])

\* A row with a score is decoded to a box, whose corners are in order if its size
\* is not negative.
LEMMA DecodedIsBox ==
  ASSUME NEW w \in Nat, w >= 5, NEW row \in [1 .. w -> Int]
  PROVE  /\ Decoded(row) \in Boxes
         /\ row[3] >= 0 /\ row[4] >= 0 => CornersInOrder(Decoded(row))
<1> DEFINE m == Len(row) - 4
           scores == [c \in 1 .. m |-> row[c + 4]]
<1>1. Len(row) = w
  OBVIOUS
<1>2. m \in Nat \ {0} /\ \A c \in 1 .. m : c + 4 \in 1 .. w
  BY <1>1
<1>3. scores \in [1 .. m -> Int]
  BY <1>2
<1> DEFINE a == 2 * row[1] - row[3]
           b == 2 * row[2] - row[4]
           c == 2 * row[1] + row[3]
           d == 2 * row[2] + row[4]
           best == BestClass(scores)
<1>4. Decoded(row) = [cls |-> best, score |-> scores[best], x1 |-> a, y1 |-> b, x2 |-> c, y2 |-> d]
  BY DEF Decoded
<1>5. row[1] \in Int /\ row[2] \in Int /\ row[3] \in Int /\ row[4] \in Int
  OBVIOUS
<1>6. /\ a \in Int /\ b \in Int /\ c \in Int /\ d \in Int
      /\ row[3] >= 0 /\ row[4] >= 0 => a <= c /\ b <= d
  BY <1>5
<1> HIDE DEF a, b, c, d, m, scores
<1>7. best \in 1 .. m
  BY <1>2, <1>3, BestClassExists
<1>8. best \in Int /\ scores[best] \in Int
  BY <1>2, <1>3, <1>7
<1> HIDE DEF best
<1> QED
  BY <1>4, <1>6, <1>8 DEF Boxes, CornersInOrder

\* The rows of an array that is not empty have a score.
RowsOf(rows, n, w) == w >= 5 /\ rows \in [1 .. n -> [1 .. w -> Int]]

LEMMA RowsAre ==
  ASSUME NEW answer \in Seq(Candidates), Turned(answer) \/ Len(answer) >= 5
  PROVE  \E n, w \in Nat : RowsOf(Rows(answer), n, w)
<1>1. 4 + Classes \in Nat /\ 4 + Classes >= 5
  BY VisionAssumption
<1>2. answer \in [1 .. Len(answer) -> [1 .. 4 + Classes -> Int]] /\ Len(answer) \in Nat
  BY DEF Candidates
<1>3. CASE Turned(answer)
  <2>1. RowsOf(Rows(answer), Len(answer), 4 + Classes)
    BY <1>1, <1>2, <1>3 DEF Rows, RowsOf
  <2> QED
    BY <2>1, <1>1, <1>2
<1>4. CASE ~Turned(answer)
  <2>1. Rows(answer) = [r \in 1 .. 4 + Classes |-> [i \in DOMAIN answer |-> answer[i][r]]]
    BY <1>4 DEF Rows
  <2>2. ASSUME NEW r \in 1 .. 4 + Classes
        PROVE  [i \in DOMAIN answer |-> answer[i][r]] \in [1 .. Len(answer) -> Int]
    BY <1>2
  <2>3. RowsOf(Rows(answer), 4 + Classes, Len(answer))
    BY <2>1, <2>2, <1>4 DEF RowsOf
  <2> QED
    BY <2>3, <1>1, <1>2
<1> QED
  BY <1>3, <1>4

\* decode_yolo_output returns boxes, whatever the array is taken for; and the sure
\* candidates, with their corners in order, of an array that is turned.
LEMMA DecodeIsBoxes ==
  ASSUME NEW answer \in Seq(Candidates)
  PROVE  \E n \in Nat :
           /\ Decode(answer) \in [1 .. n -> Boxes]
           /\ Turned(answer) => /\ \A i \in 1 .. n : CornersInOrder(Decode(answer)[i])
                                /\ AllRead(answer, Decode(answer))
<1>1. CASE ~Turned(answer) /\ Len(answer) < 5
  <2>1. Decode(answer) = <<>>
    BY <1>1 DEF Decode
  <2>2. Decode(answer) \in [1 .. 0 -> Boxes]
    BY <2>1
  <2> QED
    BY <2>2, <1>1
<1>2. CASE Turned(answer) \/ Len(answer) >= 5
  <2> DEFINE rows == Rows(answer)
             all == [i \in DOMAIN rows |-> Decoded(rows[i])]
             I == {i \in DOMAIN all : all[i].score >= Conf}
             m == Cardinality(I)
  <2>1. PICK h, w \in Nat : RowsOf(rows, h, w)
    BY <1>2, RowsAre
  <2>2. Decode(answer) = Picked(all, I)
    <3>1. Len(answer) \in Nat
      OBVIOUS
    <3>2. ~(~Turned(answer) /\ Len(answer) < 5)
      BY <1>2, <3>1
    <3> QED
      BY <3>2 DEF Decode
  <2>3. Turned(answer) => rows = answer
    BY DEF Rows
  <2> HIDE DEF rows
  <2>4. DOMAIN all = 1 .. h /\ \A i \in 1 .. h : all[i] = Decoded(rows[i])
    BY <2>1 DEF RowsOf
  <2>5. ASSUME NEW i \in 1 .. h PROVE all[i] \in Boxes
    <3>1. rows[i] \in [1 .. w -> Int] /\ w >= 5
      BY <2>1 DEF RowsOf
    <3> QED
      BY <3>1, <2>4, DecodedIsBox
  <2>6. ASSUME Turned(answer), NEW i \in 1 .. h PROVE CornersInOrder(all[i])
    <3>1. rows[i] \in [1 .. w -> Int] /\ w >= 5
      BY <2>1 DEF RowsOf
    <3>2. i \in DOMAIN answer
      BY <2>1, <2>3, <2>6 DEF RowsOf
    <3>3. rows[i] \in Candidates
      BY <2>3, <2>6, <3>2
    <3>4. rows[i][3] >= 0 /\ rows[i][4] >= 0
      BY <3>3 DEF Candidates
    <3> QED
      BY <3>1, <3>4, <2>4, DecodedIsBox
  <2> HIDE DEF all
  <2>7. I \in SUBSET Int /\ IsFiniteSet(I) /\ I \subseteq 1 .. h
    BY <2>4, FiniteDomain
  <2>8. \A i \in 1 .. h : all[i].score >= Conf => i \in I
    BY <2>4
  <2> HIDE DEF I
  <2>9. /\ DOMAIN Picked(all, I) = 1 .. m /\ m \in Nat
        /\ \A k \in 1 .. m : /\ Ascending(I)[k] \in I
                             /\ Picked(all, I)[k] = all[Ascending(I)[k]]
        /\ \A i \in I : \E k \in 1 .. m : Ascending(I)[k] = i
    BY <2>7, PickedFrom
  <2>10. Picked(all, I) = [k \in 1 .. m |-> Picked(all, I)[k]]
    BY <2>9 DEF Picked
  <2> HIDE DEF m
  <2>11. \A k \in 1 .. m : /\ Ascending(I)[k] \in 1 .. h
                           /\ Decode(answer)[k] = all[Ascending(I)[k]]
    BY <2>2, <2>7, <2>9
  <2>12. Decode(answer) \in [1 .. m -> Boxes]
    BY <2>2, <2>5, <2>10, <2>11
  <2>13. ASSUME Turned(answer) PROVE \A i \in 1 .. m : CornersInOrder(Decode(answer)[i])
    BY <2>6, <2>11, <2>13
  <2>14. ASSUME Turned(answer) PROVE AllRead(answer, Decode(answer))
    <3>1. SUFFICES ASSUME NEW i \in DOMAIN answer, Decoded(answer[i]).score >= Conf
                   PROVE  \E k \in DOMAIN Decode(answer) : Decode(answer)[k] = Decoded(answer[i])
      BY DEF AllRead
    <3>2. i \in 1 .. h /\ all[i] = Decoded(answer[i])
      BY <2>1, <2>3, <2>4, <2>14 DEF RowsOf
    <3>3. i \in I
      BY <2>8, <3>1, <3>2
    <3>4. PICK k \in 1 .. m : Ascending(I)[k] = i
      BY <2>9, <3>3
    <3> QED
      BY <3>2, <3>4, <2>11, <2>12
  <2> QED
    BY <2>9, <2>12, <2>13, <2>14
<1>3. Len(answer) \in Nat
  OBVIOUS
<1> QED
  BY <1>1, <1>2, <1>3

-----------------------------------------------------------------------------
\* The order of suppression is total: the places tell equal scores apart.
LEMMA BestFirstIsOrder ==
  ASSUME NEW n \in Nat, NEW boxes \in [1 .. n -> Boxes], NEW K \in SUBSET (1 .. n)
  PROVE  /\ StrictOrder(K, BestFirst(boxes))
         /\ \A i, j \in 1 .. n : <<i, j>> \in BestFirst(boxes) =>
              boxes[i].score >= boxes[j].score
<1>1. DOMAIN boxes = 1 .. n /\ \A i \in 1 .. n : boxes[i].score \in Int
  BY DEF Boxes
<1>2. \A i, j \in 1 .. n : <<i, j>> \in BestFirst(boxes) <=>
        \/ boxes[i].score > boxes[j].score
        \/ boxes[i].score = boxes[j].score /\ i < j
  BY <1>1 DEF BestFirst
<1>3. \A i, j \in 1 .. n : <<i, j>> \in BestFirst(boxes) =>
        boxes[i].score >= boxes[j].score
  BY <1>1, <1>2
<1>4. ASSUME NEW x \in K PROVE <<x, x>> \notin BestFirst(boxes)
  BY <1>1, <1>2
<1>5. ASSUME NEW x \in K, NEW y \in K, NEW z \in K,
             <<x, y>> \in BestFirst(boxes), <<y, z>> \in BestFirst(boxes)
      PROVE  <<x, z>> \in BestFirst(boxes)
  <2>1. /\ boxes[x].score > boxes[y].score \/ (boxes[x].score = boxes[y].score /\ x < y)
        /\ boxes[y].score > boxes[z].score \/ (boxes[y].score = boxes[z].score /\ y < z)
    BY <1>2, <1>5
  <2>2. x \in Int /\ y \in Int /\ z \in Int /\ boxes[x].score \in Int
        /\ boxes[y].score \in Int /\ boxes[z].score \in Int
    BY <1>1
  <2>3. boxes[x].score > boxes[z].score \/ (boxes[x].score = boxes[z].score /\ x < z)
    BY <2>1, <2>2
  <2> QED
    BY <2>3, <1>2
<1>6. ASSUME NEW x \in K, NEW y \in K, x # y
      PROVE  <<x, y>> \in BestFirst(boxes) \/ <<y, x>> \in BestFirst(boxes)
  BY <1>1, <1>2, <1>6
<1>7. StrictOrder(K, BestFirst(boxes))
  BY <1>4, <1>5, <1>6 DEF StrictOrder
<1> QED
  BY <1>3, <1>7

\* What the fold has kept after the first i candidates, best first.
Keeping(f, boxes, q, n) ==
  /\ f \in [0 .. n -> SUBSET (1 .. n)]
  /\ f[0] = {}
  /\ \A i \in 1 .. n :
       f[i] = IF \E k \in f[i - 1] : Suppresses(boxes[k], boxes[q[i]])
              THEN f[i - 1] ELSE f[i - 1] \cup {q[i]}

\* Kept goes from box to box, best first, as the loop of nms_per_class does.
LEMMA KeptIsFold ==
  ASSUME NEW n \in Nat, NEW boxes \in [1 .. n -> Boxes]
  PROVE  LET q == Ranked(1 .. n, BestFirst(boxes))
         IN  /\ q \in Bijection(1 .. n, 1 .. n)
             /\ \A i, j \in 1 .. n : i < j <=> <<q[i], q[j]>> \in BestFirst(boxes)
             /\ \E f : Keeping(f, boxes, q, n) /\ f[n] = Kept(boxes)
<1> DEFINE q == Ranked(1 .. n, BestFirst(boxes))
           A == SUBSET (1 .. n)
           E(keep, i) == IF \E k \in keep : Suppresses(boxes[k], boxes[i])
                         THEN keep ELSE keep \cup {i}
           step == [p \in A \X (1 .. n) |-> E(p[1], q[p[2]])]
<1>1. IsFiniteSet(1 .. n) /\ Cardinality(1 .. n) = n /\ DOMAIN boxes = 1 .. n
  BY FiniteDomain
<1>2. StrictOrder(1 .. n, BestFirst(boxes))
  BY BestFirstIsOrder
<1>3. q \in Bijection(1 .. n, 1 .. n)
      /\ \A i, j \in 1 .. n : i < j <=> <<q[i], q[j]>> \in BestFirst(boxes)
  BY <1>1, <1>2, RankedInOrder
<1>4. q \in [1 .. n -> 1 .. n] /\ DOMAIN q = 1 .. n
  BY <1>3 DEF Bijection, Injection
<1>5. Kept(boxes) = (CHOOSE iter : iter = [s \in SUBSET (DOMAIN q) |->
                       IF s = {} THEN {}
                       ELSE E(iter[s \ {Max(s)}], q[Max(s)])])[DOMAIN q]
  BY <1>1 DEF Kept, FoldLeft, MapThenFoldSet
<1>6. \E f : f = [s \in SUBSET (DOMAIN q) |->
               IF s = {} THEN {} ELSE E(f[s \ {Max(s)}], q[Max(s)])]
  <2>1. step \in [A \X (1 .. n) -> A]
    BY <1>4
  <2>2. ASSUME NEW a \in A, NEW i \in 1 .. n PROVE step[<<a, i>>] = E(a, q[i])
    OBVIOUS
  <2> HIDE DEF step
  <2>3. PICK f \in [SUBSET (1 .. n) -> A] : \A s \in SUBSET (1 .. n) :
          f[s] = IF s = {} THEN {} ELSE step[<<f[s \ {Max(s)}], Max(s)>>]
    <3>1. {} \in A
      OBVIOUS
    <3> HIDE DEF A, E, q
    <3>2. \E f : IsFold(f, n, A, {}, step)
      BY <2>1, <3>1, FoldExists
    <3> QED
      BY <3>2 DEF IsFold
  <2>4. ASSUME NEW s \in SUBSET (1 .. n), s # {}
        PROVE f[s] = E(f[s \ {Max(s)}], q[Max(s)])
    <3>1. Max(s) \in 1 .. n
      BY <2>4, MaxIsMember
    <3>2. f[s \ {Max(s)}] \in A
      OBVIOUS
    <3> QED
      BY <2>2, <2>3, <2>4, <3>1, <3>2
  <2>5. \A s \in SUBSET (1 .. n) : f[s] = IF s = {} THEN {} ELSE E(f[s \ {Max(s)}], q[Max(s)])
    BY <2>3, <2>4
  <2> HIDE DEF E
  <2>6. f = [s \in SUBSET (1 .. n) |-> f[s]]
    OBVIOUS
  <2>7. f = [s \in SUBSET (DOMAIN q) |->
               IF s = {} THEN {} ELSE E(f[s \ {Max(s)}], q[Max(s)])]
    BY <2>5, <2>6, <1>4
  <2> QED
    BY <2>7
<1> DEFINE iter == CHOOSE f : f = [s \in SUBSET (DOMAIN q) |->
               IF s = {} THEN {} ELSE E(f[s \ {Max(s)}], q[Max(s)])]
           g == [i \in 0 .. n |-> iter[1 .. i]]
<1> HIDE DEF E, q
<1>7. iter = [s \in SUBSET (DOMAIN q) |->
               IF s = {} THEN {} ELSE E(iter[s \ {Max(s)}], q[Max(s)])]
  BY <1>6
<1>8. Kept(boxes) = iter[1 .. n]
  BY <1>4, <1>5
<1> HIDE DEF iter
<1>9. g[0] = {} /\ g[n] = Kept(boxes)
  <2>1. 1 .. 0 = {} /\ 1 .. 0 \in SUBSET (1 .. n)
    OBVIOUS
  <2>2. iter[1 .. 0] = {}
    BY <1>4, <1>7, <2>1
  <2> QED
    BY <2>2, <1>8
<1>10. ASSUME NEW i \in 1 .. n PROVE g[i] = E(g[i - 1], q[i])
  <2>1. /\ 1 .. i \in SUBSET (1 .. n)
        /\ 1 .. i # {}
        /\ i \in 1 .. i
    <3>1. i \in 1 .. i /\ \A j \in 1 .. i : j \in 1 .. n
      OBVIOUS
    <3> QED
      BY <3>1
  <2>2. Max(1 .. i) = i
    <3>1. 1 .. i \in SUBSET Int /\ \A y \in 1 .. i : y <= i
      OBVIOUS
    <3> QED
      BY <2>1, <3>1, MaxIs
  <2>3. (1 .. i) \ {i} = 1 .. i - 1
    OBVIOUS
  <2>4. iter[1 .. i] = E(iter[1 .. i - 1], q[i])
    BY <1>4, <1>7, <2>1, <2>2, <2>3
  <2> QED
    BY <2>4
<1> HIDE DEF g
<1> USE DEF E
<1>11. g \in [0 .. n -> A]
  <2> DEFINE T == {i \in Nat : i <= n => g[i] \in A}
  <2>1. 0 \in T
    BY <1>9
  <2>2. ASSUME NEW i \in T, i \in Nat PROVE i + 1 \in T
    <3>1. CASE i + 1 <= n
      <4>1. i + 1 \in 1 .. n /\ (i + 1) - 1 = i /\ g[i] \in A
        BY <3>1, <2>2
      <4>2. g[i + 1] = E(g[i], q[i + 1]) /\ q[i + 1] \in 1 .. n
        BY <4>1, <1>4, <1>10
      <4> QED
        BY <4>1, <4>2
    <3>2. CASE ~(i + 1 <= n)
      BY <3>2
    <3> QED
      BY <3>1, <3>2
  <2> HIDE DEF T
  <2>3. Nat \subseteq T
    BY <2>1, <2>2, SetInduction
  <2> USE DEF T
  <2>4. \A i \in 0 .. n : g[i] \in A
    BY <2>3
  <2> QED
    BY <2>4 DEF g
<1>12. Keeping(g, boxes, q, n)
  BY <1>9, <1>10, <1>11 DEF Keeping
<1> QED
  BY <1>3, <1>9, <1>12 DEF q

\* After the first i: only they are kept, none of the kept is suppressed by an
\* earlier one, and whatever was dropped has an earlier kept one to blame.
Pruned(f, boxes, q, i) ==
  /\ f[i] \subseteq {q[j] : j \in 1 .. i}
  /\ \A j, l \in 1 .. i : l < j /\ q[l] \in f[i] /\ q[j] \in f[i] =>
       ~Suppresses(boxes[q[l]], boxes[q[j]])
  /\ \A j \in 1 .. i : q[j] \notin f[i] =>
       \E l \in 1 .. j - 1 : q[l] \in f[i] /\ Suppresses(boxes[q[l]], boxes[q[j]])

\* One more box, kept or dropped, leaves what was looked at pruned.
LEMMA PrunedStep ==
  ASSUME NEW n \in Nat, NEW boxes, NEW f, NEW q \in Bijection(1 .. n, 1 .. n),
         Keeping(f, boxes, q, n), NEW i \in 1 .. n, Pruned(f, boxes, q, i - 1)
  PROVE  Pruned(f, boxes, q, i)
<1>1. q \in [1 .. n -> 1 .. n] /\ \A j, l \in 1 .. n : q[j] = q[l] => j = l
  BY DEF Bijection, Injection, IsInjective
<1>2. \A k \in f[i - 1] : \E j \in 1 .. i - 1 : k = q[j]
  BY DEF Pruned
<1>3. q[i] \notin f[i - 1]
  <2>1. SUFFICES ASSUME NEW j \in 1 .. i - 1, q[i] = q[j] PROVE FALSE
    BY <1>2
  <2>2. j \in 1 .. n /\ j # i
    OBVIOUS
  <2> QED
    BY <2>1, <2>2, <1>1
<1>4. CASE \E k \in f[i - 1] : Suppresses(boxes[k], boxes[q[i]])
  <2>1. f[i] = f[i - 1]
    BY <1>4 DEF Keeping
  <2>2. f[i] \subseteq {q[j] : j \in 1 .. i}
    BY <2>1, <1>2
  <2>3. ASSUME NEW j \in 1 .. i, NEW l \in 1 .. i, l < j, q[l] \in f[i], q[j] \in f[i]
        PROVE  ~Suppresses(boxes[q[l]], boxes[q[j]])
    <3>1. j # i
      BY <2>1, <2>3, <1>3
    <3>2. j \in 1 .. i - 1 /\ l \in 1 .. i - 1
      BY <3>1, <2>3
    <3> QED
      BY <3>2, <2>1, <2>3 DEF Pruned
  <2>4. ASSUME NEW j \in 1 .. i, q[j] \notin f[i]
        PROVE  \E l \in 1 .. j - 1 : q[l] \in f[i] /\ Suppresses(boxes[q[l]], boxes[q[j]])
    <3>1. CASE j = i
      BY <3>1, <2>1, <1>2, <1>4
    <3>2. CASE j # i
      <4>1. j \in 1 .. i - 1
        BY <3>2
      <4> QED
        BY <4>1, <2>1, <2>4 DEF Pruned
    <3> QED
      BY <3>1, <3>2
  <2> QED
    BY <2>2, <2>3, <2>4 DEF Pruned
<1>5. CASE ~\E k \in f[i - 1] : Suppresses(boxes[k], boxes[q[i]])
  <2>1. f[i] = f[i - 1] \cup {q[i]}
    BY <1>5 DEF Keeping
  <2>2. f[i] \subseteq {q[j] : j \in 1 .. i}
    <3>1. i \in 1 .. i /\ \A j \in 1 .. i - 1 : j \in 1 .. i
      OBVIOUS
    <3> QED
      BY <2>1, <1>2, <3>1
  <2>3. ASSUME NEW j \in 1 .. i, NEW l \in 1 .. i, l < j, q[l] \in f[i], q[j] \in f[i]
        PROVE  ~Suppresses(boxes[q[l]], boxes[q[j]])
    <3>1. l \in 1 .. i - 1 /\ l \in 1 .. n /\ l # i /\ j \in 1 .. n /\ i \in 1 .. n
      BY <2>3
    <3>2. q[l] \in f[i - 1]
      BY <3>1, <2>1, <2>3, <1>1
    <3>3. CASE j = i
      BY <3>2, <3>3, <1>5
    <3>4. CASE j # i
      <4>1. q[j] # q[i]
        BY <3>1, <3>4, <1>1
      <4>2. q[j] \in f[i - 1]
        BY <4>1, <2>1, <2>3
      <4>3. j \in 1 .. i - 1
        BY <3>4
      <4> QED
        BY <4>2, <4>3, <3>1, <3>2, <2>3 DEF Pruned
    <3> QED
      BY <3>3, <3>4
  <2>4. ASSUME NEW j \in 1 .. i, q[j] \notin f[i]
        PROVE  \E l \in 1 .. j - 1 : q[l] \in f[i] /\ Suppresses(boxes[q[l]], boxes[q[j]])
    <3>1. j # i
      BY <2>1, <2>4
    <3>2. j \in 1 .. i - 1 /\ q[j] \notin f[i - 1]
      BY <3>1, <2>1, <2>4
    <3> QED
      BY <3>2, <2>1 DEF Pruned
  <2> QED
    BY <2>2, <2>3, <2>4 DEF Pruned
<1> QED
  BY <1>4, <1>5

\* So all are pruned in the end.
LEMMA KeptIsPruned ==
  ASSUME NEW n \in Nat, NEW boxes, NEW f, NEW q \in Bijection(1 .. n, 1 .. n),
         Keeping(f, boxes, q, n)
  PROVE  Pruned(f, boxes, q, n)
<1> DEFINE T == {i \in Nat : i <= n => Pruned(f, boxes, q, i)}
<1>1. 0 \in T
  <2>1. f[0] = {} /\ 1 .. 0 = {}
    BY DEF Keeping
  <2>2. Pruned(f, boxes, q, 0)
    BY <2>1 DEF Pruned
  <2> QED
    BY <2>2
<1>2. ASSUME NEW i \in T, i \in Nat PROVE i + 1 \in T
  <2>1. CASE i + 1 <= n
    <3>1. i <= n /\ i + 1 \in 1 .. n /\ (i + 1) - 1 = i
      BY <2>1, <1>2
    <3>2. Pruned(f, boxes, q, i)
      BY <3>1, <1>2, Zenon
    <3>3. Pruned(f, boxes, q, i + 1)
      BY <3>1, <3>2, PrunedStep
    <3> QED
      BY <3>3, <1>2
  <2>2. CASE ~(i + 1 <= n)
    BY <2>2, <1>2
  <2> QED
    BY <2>1, <2>2
<1> HIDE DEF T
<1>3. n \in T /\ n <= n
  BY <1>1, <1>2, SetInduction
<1> USE DEF T
<1> QED
  BY <1>3, Zenon

\* Non-maximum suppression: what is kept does not overlap within a class, and
\* what is dropped overlaps a kept one of its class that is no less sure.
LEMMA SuppressionIsSound ==
  ASSUME NEW n \in Nat, NEW boxes \in [1 .. n -> Boxes]
  PROVE  /\ Kept(boxes) \in SUBSET (1 .. n)
         /\ \A i, j \in Kept(boxes) : i # j /\ boxes[i].cls = boxes[j].cls =>
              ~Overlap(boxes[i], boxes[j])
         /\ \A i \in (1 .. n) \ Kept(boxes) : \E k \in Kept(boxes) :
              /\ boxes[k].cls = boxes[i].cls /\ boxes[k].score >= boxes[i].score
              /\ Overlap(boxes[k], boxes[i])
<1> DEFINE q == Ranked(1 .. n, BestFirst(boxes))
           K == Kept(boxes)
<1>1. /\ q \in Bijection(1 .. n, 1 .. n)
      /\ \A i, j \in 1 .. n : i < j <=> <<q[i], q[j]>> \in BestFirst(boxes)
      /\ \E f : Keeping(f, boxes, q, n) /\ f[n] = K
  BY KeptIsFold
<1> HIDE DEF q, K
<1>2. PICK f : Keeping(f, boxes, q, n) /\ f[n] = K
  BY <1>1
<1>3. Pruned(f, boxes, q, n)
  BY <1>1, <1>2, KeptIsPruned
<1>4. K \in SUBSET (1 .. n)
  BY <1>2 DEF Keeping
<1>5. q \in [1 .. n -> 1 .. n] /\ \A x \in 1 .. n : \E j \in 1 .. n : q[j] = x
  BY <1>1 DEF Bijection, Injection, Surjection
<1>6. ASSUME NEW i \in K, NEW j \in K, i # j, boxes[i].cls = boxes[j].cls
      PROVE  ~Overlap(boxes[i], boxes[j])
  <2>1. i \in 1 .. n /\ j \in 1 .. n
    BY <1>4
  <2>2. PICK a \in 1 .. n, b \in 1 .. n : q[a] = i /\ q[b] = j
    BY <2>1, <1>5
  <2>3. a < b \/ b < a
    BY <2>2, <1>6
  <2>4. ~Suppresses(boxes[i], boxes[j]) \/ ~Suppresses(boxes[j], boxes[i])
    BY <2>2, <2>3, <1>2, <1>3 DEF Pruned
  <2>5. Overlap(boxes[i], boxes[j]) <=> Overlap(boxes[j], boxes[i])
    BY <2>1, OverlapSymmetric
  <2> QED
    BY <2>4, <2>5, <1>6 DEF Suppresses
<1>7. ASSUME NEW i \in (1 .. n) \ K
      PROVE  \E k \in K : /\ boxes[k].cls = boxes[i].cls /\ boxes[k].score >= boxes[i].score
                          /\ Overlap(boxes[k], boxes[i])
  <2>1. PICK b \in 1 .. n : q[b] = i
    BY <1>5
  <2>2. PICK a \in 1 .. b - 1 : q[a] \in K /\ Suppresses(boxes[q[a]], boxes[q[b]])
    BY <2>1, <1>2, <1>3, <1>7 DEF Pruned
  <2>3. a \in 1 .. n /\ a < b
    OBVIOUS
  <2>4. <<q[a], q[b]>> \in BestFirst(boxes) /\ q[a] \in 1 .. n /\ q[b] \in 1 .. n
    BY <2>3, <1>1, <1>5
  <2>5. boxes[q[a]].score >= boxes[q[b]].score
    BY <2>4, BestFirstIsOrder
  <2> QED
    BY <2>1, <2>2, <2>5 DEF Suppresses
<1> QED
  BY <1>4, <1>6, <1>7 DEF K

\* What the detector tells: the surest first, and every box in its image.
LEMMA DetectIsSound ==
  ASSUME NEW answer \in Seq(Candidates), NEW image \in ImageSizes, NEW labels
  PROVE  LET found == Detect(answer, image, labels)
         IN  /\ \A i, j \in DOMAIN found : i < j => found[i].conf >= found[j].conf
             /\ \A i \in DOMAIN found :
                  LET b == found[i].bbox IN
                    /\ {b[1], b[3]} \subseteq 0 .. image.w
                    /\ {b[2], b[4]} \subseteq 0 .. image.h
                    /\ Turned(answer) => b[1] <= b[3] /\ b[2] <= b[4]
<1> DEFINE boxes == Decode(answer)
           K == Kept(boxes)
           kept == Ranked(K, BestFirst(boxes))
           m == Cardinality(K)
           found == Detect(answer, image, labels)
<1>1. PICK n \in Nat : /\ boxes \in [1 .. n -> Boxes]
                       /\ Turned(answer) => \A i \in 1 .. n : CornersInOrder(boxes[i])
  BY DecodeIsBoxes
<1>2. K \in SUBSET (1 .. n) /\ IsFiniteSet(K)
  <2> HIDE DEF boxes
  <2>1. K \in SUBSET (1 .. n)
    BY <1>1, SuppressionIsSound
  <2> QED
    BY <2>1, FiniteDomain
<1>3. /\ m \in Nat /\ kept \in Bijection(1 .. m, K)
      /\ \A i, j \in 1 .. m : i < j <=> <<kept[i], kept[j]>> \in BestFirst(boxes)
  <2> HIDE DEF boxes, K
  <2>1. StrictOrder(K, BestFirst(boxes))
    BY <1>1, <1>2, BestFirstIsOrder
  <2> QED
    BY <2>1, <1>2, RankedInOrder
<1>4. found = [i \in DOMAIN kept |-> Detection(boxes[kept[i]], image, labels)]
  BY DEF Detect
<1> HIDE DEF boxes, K, kept, m, found
<1>5. kept \in [1 .. m -> K] /\ DOMAIN kept = 1 .. m
  BY <1>3 DEF Bijection, Injection
<1>6. ASSUME NEW i \in DOMAIN found
      PROVE  /\ i \in 1 .. m /\ kept[i] \in 1 .. n /\ boxes[kept[i]] \in Boxes
             /\ found[i] = Detection(boxes[kept[i]], image, labels)
  BY <1>1, <1>2, <1>4, <1>5
<1>7. ASSUME NEW i \in DOMAIN found, NEW j \in DOMAIN found, i < j
      PROVE  found[i].conf >= found[j].conf
  <2>1. boxes[kept[i]].score >= boxes[kept[j]].score
    BY <1>1, <1>3, <1>6, <1>7, BestFirstIsOrder
  <2>2. found[i].conf = boxes[kept[i]].score /\ found[j].conf = boxes[kept[j]].score
    BY <1>6 DEF Detection
  <2> QED
    BY <2>1, <2>2
<1>8. ASSUME NEW i \in DOMAIN found
      PROVE  LET b == found[i].bbox IN
               /\ {b[1], b[3]} \subseteq 0 .. image.w
               /\ {b[2], b[4]} \subseteq 0 .. image.h
               /\ Turned(answer) => b[1] <= b[3] /\ b[2] <= b[4]
  <2> DEFINE c == boxes[kept[i]]
             left == Letterbox(image).left
             top == Letterbox(image).top
  <2>1. c \in Boxes /\ (Turned(answer) => c.x1 <= c.x2 /\ c.y1 <= c.y2)
    BY <1>1, <1>6 DEF CornersInOrder
  <2>2. left \in Int /\ top \in Int /\ image.w \in Nat /\ image.h \in Nat
    BY PadFits DEF Letterbox, ImageSizes
  <2>3. found[i].bbox = <<ToPixel(c.x1, left, image, image.w), ToPixel(c.y1, top, image, image.h),
                          ToPixel(c.x2, left, image, image.w), ToPixel(c.y2, top, image, image.h)>>
    BY <1>6 DEF Detection
  <2>4. c.x1 \in Int /\ c.x2 \in Int /\ c.y1 \in Int /\ c.y2 \in Int
    BY <2>1 DEF Boxes
  <2> HIDE DEF c, left, top
  <2>5. /\ ToPixel(c.x1, left, image, image.w) \in 0 .. image.w
        /\ ToPixel(c.x2, left, image, image.w) \in 0 .. image.w
        /\ ToPixel(c.y1, top, image, image.h) \in 0 .. image.h
        /\ ToPixel(c.y2, top, image, image.h) \in 0 .. image.h
    BY <2>2, <2>4, ToPixelWithin
  <2>6. ASSUME Turned(answer)
        PROVE
        /\ ToPixel(c.x1, left, image, image.w) <= ToPixel(c.x2, left, image, image.w)
        /\ ToPixel(c.y1, top, image, image.h) <= ToPixel(c.y2, top, image, image.h)
    BY <2>1, <2>2, <2>4, <2>6, ToPixelMonotone
  <2> QED
    BY <2>2, <2>3, <2>5, <2>6
<1> QED
  BY <1>7, <1>8 DEF found

\* The image, padded, lies in the square of the model.
LEMMA LetterboxFits ==
  ASSUME NEW image \in ImageSizes
  PROVE  LET frame == Letterbox(image)
         IN  /\ 0 <= frame.left /\ frame.left + frame.width <= ImgSize
             /\ 0 <= frame.top /\ frame.top + frame.height <= ImgSize
  BY PadFits DEF Letterbox

=============================================================================
