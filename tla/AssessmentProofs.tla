-------------------------- MODULE AssessmentProofs --------------------------
(***************************************************************************)
(* Proofs about Assessment, for every size of the model's square,          *)
(* thresholds, classes, samples and replies of the model: first the lemmas *)
(* about what is told to the model and about SpeechText, then what each    *)
(* stage knows of the ones before it and the properties of the results.    *)
(***************************************************************************)
EXTENDS Assessment, DetectionProofs

\* A sequence without one place has the others, in order.
LEMMA WithoutOne ==
  ASSUME NEW S, NEW s \in Seq(S), NEW i \in DOMAIN s
  PROVE  LET n == Len(s)
             w == [j \in 1 .. n - 1 |-> IF j < i THEN j ELSE j + 1]
         IN  /\ n \in Nat \ {0} /\ Without(s, i) \in [1 .. n - 1 -> S]
             /\ w \in Injection(1 .. n - 1, 1 .. n)
             /\ \A j \in 1 .. n - 1 : Without(s, i)[j] = s[w[j]]
<1> DEFINE n == Len(s)
           w == [j \in 1 .. n - 1 |-> IF j < i THEN j ELSE j + 1]
           a == SubSeq(s, 1, i - 1)
           b == SubSeq(s, i + 1, n)
<1>1. n \in Nat \ {0} /\ i \in 1 .. n /\ \A j \in 1 .. n : s[j] \in S
  OBVIOUS
<1> HIDE DEF n
<1>2. a \in Seq(S) /\ Len(a) = i - 1 /\ \A j \in 1 .. i - 1 : a[j] = s[j]
  BY <1>1, SubSeqProperties
<1>3. b \in Seq(S) /\ Len(b) = n - i /\ \A j \in 1 .. n - i : b[j] = s[j + i]
  <2> DEFINE p == i + 1
  <2>1. p \in Int /\ n \in Int /\ b = SubSeq(s, p, n) /\ \A j \in p .. n : s[j] \in S
    BY <1>1
  <2> HIDE DEF p, b
  <2>2. /\ SubSeq(s, p, n) \in Seq(S) /\ Len(SubSeq(s, p, n)) = IF p <= n THEN n - p + 1 ELSE 0
        /\ \A j \in 1 .. n - p + 1 : SubSeq(s, p, n)[j] = s[p + j - 1]
    BY <2>1, SubSeqProperties
  <2>3. n - p + 1 = n - i /\ (p <= n <=> i + 1 <= n) /\ \A j \in 1 .. n - i : p + j - 1 = j + i
    BY <1>1 DEF p
  <2>4. Len(b) = n - i
    BY <2>1, <2>2, <2>3, <1>1
  <2>5. \A j \in 1 .. n - i : b[j] = s[j + i]
    BY <2>1, <2>2, <2>3
  <2> QED
    BY <2>1, <2>2, <2>4, <2>5
<1> HIDE DEF a, b
<1>4. /\ a \o b \in Seq(S) /\ Len(a \o b) = n - 1
      /\ \A j \in 1 .. n - 1 : (a \o b)[j] = IF j <= i - 1 THEN a[j] ELSE b[j - (i - 1)]
  <2>1. /\ a \o b \in Seq(S) /\ Len(a \o b) = Len(a) + Len(b)
        /\ \A j \in 1 .. Len(a) + Len(b) :
             (a \o b)[j] = IF j <= Len(a) THEN a[j] ELSE b[j - Len(a)]
    BY <1>2, <1>3, ConcatProperties
  <2>2. Len(a) + Len(b) = n - 1
    BY <1>1, <1>2, <1>3
  <2>3. Len(a) = i - 1
    BY <1>2
  <2> QED
    BY <2>1, <2>2, <2>3
<1>5. \A j \in 1 .. n - 1 : w[j] \in 1 .. n
  BY <1>1
<1>6. w \in Injection(1 .. n - 1, 1 .. n)
  <2>1. w \in [1 .. n - 1 -> 1 .. n]
    BY <1>5
  <2>2. \A j, k \in 1 .. n - 1 : w[j] = w[k] => j = k
    BY <1>1
  <2> QED
    BY <2>1, <2>2 DEF Injection, IsInjective
<1>7. ASSUME NEW j \in 1 .. n - 1 PROVE (a \o b)[j] = s[w[j]]
  <2>1. CASE j < i
    <3>1. j \in 1 .. i - 1 /\ j <= i - 1 /\ w[j] = j
      BY <2>1, <1>1
    <3> QED
      BY <3>1, <1>2, <1>4
  <2>2. CASE ~(j < i)
    <3>1. j - (i - 1) \in 1 .. n - i /\ (j - (i - 1)) + i = j + 1 /\ ~(j <= i - 1)
          /\ w[j] = j + 1
      BY <2>2, <1>1
    <3>2. b[j - (i - 1)] = s[j + 1]
      BY <3>1, <1>3
    <3> QED
      BY <3>1, <3>2, <1>4
  <2> QED
    BY <2>1, <2>2
<1>8. Without(s, i) = a \o b
  BY DEF Without, a, b, n
<1>9. a \o b \in [1 .. n - 1 -> S]
  <2> DEFINE c == a \o b
  <2>1. c \in Seq(S) /\ Len(c) = n - 1
    BY <1>4
  <2> HIDE DEF c
  <2>2. c \in [1 .. n - 1 -> S]
    BY <2>1
  <2> QED
    BY <2>2 DEF c
<1> HIDE DEF w
<1>10. /\ Without(s, i) \in [1 .. n - 1 -> S]
       /\ \A j \in 1 .. n - 1 : Without(s, i)[j] = s[w[j]]
  BY <1>7, <1>8, <1>9
<1> QED
  BY <1>1, <1>6, <1>10 DEF n, w

-----------------------------------------------------------------------------
\* s is a sequence of what it says.
IsSequence(s) == s \in Seq(ToSet(s))

\* A function on the first numbers is a sequence of its values.
LEMMA Listed ==
  ASSUME NEW n \in Nat, NEW s, s = [i \in 1 .. n |-> s[i]]
  PROVE  IsSequence(s) /\ ToSet(s) = {s[i] : i \in 1 .. n}
  BY DEF IsSequence, ToSet

\* What two sequences say one after the other.
LEMMA Joined ==
  ASSUME NEW s, NEW t, IsSequence(s), IsSequence(t)
  PROVE  IsSequence(s \o t) /\ ToSet(s \o t) = ToSet(s) \cup ToSet(t)
<1> DEFINE S == ToSet(s) \cup ToSet(t)
<1>1. s \in Seq(S) /\ t \in Seq(S)
  <2>1. s \in Seq(ToSet(s)) /\ t \in Seq(ToSet(t))
    BY DEF IsSequence
  <2> QED
    BY <2>1 
<1>2. ToSet(s) = {s[i] : i \in 1 .. Len(s)} /\ ToSet(t) = {t[i] : i \in 1 .. Len(t)}
      /\ Len(s) \in Nat /\ Len(t) \in Nat
  BY <1>1 DEF ToSet
<1> HIDE DEF S
<1>3. /\ s \o t \in Seq(S) /\ Len(s \o t) = Len(s) + Len(t)
      /\ \A i \in 1 .. Len(s) + Len(t) :
           (s \o t)[i] = IF i <= Len(s) THEN s[i] ELSE t[i - Len(s)]
  BY <1>1, ConcatProperties
<1>4. ToSet(s \o t) = {(s \o t)[i] : i \in 1 .. Len(s) + Len(t)}
  BY <1>3 DEF ToSet
<1>5. ASSUME NEW x \in ToSet(s) PROVE x \in ToSet(s \o t)
  <2>1. PICK i \in 1 .. Len(s) : x = s[i]
    BY <1>2
  <2>2. i \in 1 .. Len(s) + Len(t) /\ (s \o t)[i] = x
    BY <2>1, <1>2, <1>3
  <2> QED
    BY <2>2, <1>4
<1>6. ASSUME NEW x \in ToSet(t) PROVE x \in ToSet(s \o t)
  <2>1. PICK i \in 1 .. Len(t) : x = t[i]
    BY <1>2
  <2>2. i + Len(s) \in 1 .. Len(s) + Len(t) /\ (s \o t)[i + Len(s)] = x
    BY <2>1, <1>2, <1>3
  <2> QED
    BY <2>2, <1>4
<1>7. ASSUME NEW x \in ToSet(s \o t) PROVE x \in S
  <2>1. PICK i \in 1 .. Len(s) + Len(t) : x = (s \o t)[i]
    BY <1>4
  <2>2. CASE i <= Len(s)
    BY <2>1, <2>2, <1>2, <1>3 DEF S
  <2>3. CASE ~(i <= Len(s))
    <3>1. i - Len(s) \in 1 .. Len(t) /\ x = t[i - Len(s)]
      BY <2>1, <2>3, <1>2, <1>3
    <3> QED
      BY <3>1, <1>2 DEF S
  <2> QED
    BY <2>2, <2>3
<1>8. ToSet(s \o t) = S
  BY <1>5, <1>6, <1>7 DEF S
<1> QED
  BY <1>3, <1>8 DEF S, IsSequence

\* What a sequence of one says, and one of none.
LEMMA Alone ==
  ASSUME NEW x
  PROVE  /\ IsSequence(<<x>>) /\ ToSet(<<x>>) = {x}
         /\ IsSequence(<<>>) /\ ToSet(<<>>) = {}
  BY DEF IsSequence, ToSet

\* t has, one after the other, members that s has at places of I.
IsPicked(t, s, I) ==
  /\ DOMAIN t = 1 .. Cardinality(I) /\ Cardinality(I) \in Nat
  /\ \A k \in DOMAIN t : \E i \in I : t[k] = s[i]

\* What was picked was there.
LEMMA PickedTold ==
  ASSUME NEW n \in Nat, NEW s, NEW I \in SUBSET (1 .. n)
  PROVE  IsPicked(Picked(s, I), s, I)
<1>1. IsFiniteSet(I) /\ I \in SUBSET Int
  BY FiniteDomain
<1>2. /\ DOMAIN Picked(s, I) = 1 .. Cardinality(I) /\ Cardinality(I) \in Nat
      /\ \A k \in 1 .. Cardinality(I) :
           Ascending(I)[k] \in I /\ Picked(s, I)[k] = s[Ascending(I)[k]]
  BY <1>1, PickedFrom
<1> QED
  BY <1>2 DEF IsPicked

\* The prompt holds the score and nothing that was not seen or said.
Grounded(facts, seen, heard, r) ==
  /\ <<"risk", r.level, r.score>> \in facts
  /\ \A f \in facts :
       /\ f[1] \in {"driver", "ignored", "object"} => f[2] \in {seen[i].cls : i \in DOMAIN seen}
       /\ f[1] = "said" => heard.available /\ f[2] = heard.text

\* A prompt says the score, and nothing else that was not seen or said
\* (build_facts in synthesis.py).
LEMMA FactsAreGrounded ==
  ASSUME NEW n \in Nat, NEW seen \in [1 .. n -> RawDetections],
         NEW cfg, MergeConfig(cfg) = cfg, NEW heard, NEW note
  PROVE  Grounded(ToSet(Facts(seen, heard, note, ComputeRisk(seen, cfg))),
                  seen, heard, ComputeRisk(seen, cfg))
<1> DEFINE r == ComputeRisk(seen, cfg)
           F == r.factors
           D == Drivers(r)
           G == Ignored(r)
           classes == {seen[i].cls : i \in DOMAIN seen}
<1>1. /\ Len(F) \in Nat /\ DOMAIN F = 1 .. Len(F)
      /\ \A i \in 1 .. Len(F) : F[i] = NotCleared \/ F[i].cls \in classes
  <2>1. /\ Len(F) \in Nat /\ DOMAIN F = 1 .. Len(F)
        /\ \A i \in 1 .. Len(F) :
             F[i] = NotCleared \/ \E j \in {k \in 1 .. n : seen[k].usable} : F[i].cls = seen[j].cls
    BY RiskAdvice
  <2> HIDE DEF F
  <2>2. \A j \in 1 .. n : seen[j].cls \in classes
    OBVIOUS
  <2> QED
    BY <2>1, <2>2
<1> HIDE DEF F
<1>2. /\ DOMAIN D = 1 .. Len(D) /\ Len(D) \in Nat
      /\ \A i \in DOMAIN D : D[i].cls \in classes
  <2> DEFINE I == {i \in DOMAIN F : F[i].contribution > 0}
  <2>1. D = Picked(F, I)
    BY DEF Drivers, F
  <2>2. I \in SUBSET (1 .. Len(F)) /\ \A i \in I : F[i].cls \in classes
    BY <1>1 DEF NotCleared
  <2> DEFINE l == Len(F)
  <2>a. l \in Nat /\ I \in SUBSET (1 .. l)
    BY <2>2, <1>1
  <2> HIDE DEF I, D, l
  <2>b. IsPicked(Picked(F, I), F, I)
    BY <2>a, PickedTold
  <2>3. /\ DOMAIN D = 1 .. Cardinality(I) /\ Cardinality(I) \in Nat
        /\ \A k \in DOMAIN D : \E i \in I : D[k] = F[i]
    BY <2>1, <2>b DEF IsPicked
  <2>4. Len(D) = Cardinality(I)
    BY <2>3
  <2> QED
    BY <2>2, <2>3, <2>4
<1>3. /\ DOMAIN G = 1 .. Len(G) /\ Len(G) \in Nat
      /\ \A i \in DOMAIN G : G[i].cls \in classes
  <2> DEFINE I == {i \in DOMAIN F : F[i].rule = "below_confidence_floor"}
  <2>1. G = Picked(F, I)
    BY DEF Ignored, F
  <2>2. I \in SUBSET (1 .. Len(F)) /\ \A i \in I : F[i].cls \in classes
    BY <1>1 DEF NotCleared
  <2> DEFINE l == Len(F)
  <2>a. l \in Nat /\ I \in SUBSET (1 .. l)
    BY <2>2, <1>1
  <2> HIDE DEF I, G, l
  <2>b. IsPicked(Picked(F, I), F, I)
    BY <2>a, PickedTold
  <2>3. /\ DOMAIN G = 1 .. Cardinality(I) /\ Cardinality(I) \in Nat
        /\ \A k \in DOMAIN G : \E i \in I : G[k] = F[i]
    BY <2>1, <2>b DEF IsPicked
  <2>4. Len(G) = Cardinality(I)
    BY <2>3
  <2> QED
    BY <2>2, <2>3, <2>4
<1> DEFINE one == << <<"risk", r.level, r.score>> >>
           drivers == [i \in DOMAIN D |-> <<"driver", D[i].cls, ConfidenceWord(D[i].conf)>>]
           two == OrElse(drivers, <<"no drivers">>)
           three == [i \in DOMAIN G |-> <<"ignored", G[i].cls>>]
           objects == [i \in DOMAIN seen |-> <<"object", seen[i].cls, seen[i].conf>>]
           four == OrElse(objects, <<"no objects">>)
           five == IF Said(heard) # <<>> THEN << <<"said", Said(heard)>> >>
                   ELSE << <<"nothing said">> >>
           six == IF note # "" THEN << <<"notes", note>> >> ELSE <<>>
           Fine(f) == /\ f[1] \in {"driver", "ignored", "object"} => f[2] \in classes
                      /\ f[1] = "said" => heard.available /\ f[2] = heard.text
<1>4. Facts(seen, heard, note, r) = ((((one \o two) \o three) \o four) \o five) \o six
  BY DEF Facts
<1>5. IsSequence(one) /\ ToSet(one) = {<<"risk", r.level, r.score>>}
      /\ \A f \in ToSet(one) : Fine(f)
  BY Alone
<1> HIDE DEF D, G
<1>6. IsSequence(two) /\ \A f \in ToSet(two) : Fine(f)
  <2>1. IsSequence(drivers) /\ ToSet(drivers) = {drivers[i] : i \in 1 .. Len(D)}
    <3> DEFINE l == Len(D)
    <3>1. l \in Nat /\ drivers = [i \in 1 .. l |-> drivers[i]]
      BY <1>2
    <3> HIDE DEF drivers, l
    <3>2. IsSequence(drivers) /\ ToSet(drivers) = {drivers[i] : i \in 1 .. l}
      BY <3>1, Listed
    <3> QED
      BY <3>2 DEF l
  <2>2. \A f \in ToSet(drivers) : Fine(f)
    BY <2>1, <1>2
  <2>3. IsSequence(<< <<"no drivers">> >>) /\ ToSet(<< <<"no drivers">> >>) = {<<"no drivers">>}
    BY Alone
  <2>4. Fine(<<"no drivers">>)
    OBVIOUS
  <2> HIDE DEF drivers, Fine
  <2> QED
    BY <2>1, <2>2, <2>3, <2>4 DEF OrElse
<1>7. IsSequence(three) /\ \A f \in ToSet(three) : Fine(f)
  <2>1. IsSequence(three) /\ ToSet(three) = {three[i] : i \in 1 .. Len(G)}
    <3> DEFINE l == Len(G)
    <3>1. l \in Nat /\ three = [i \in 1 .. l |-> three[i]]
      BY <1>3
    <3> HIDE DEF three, l
    <3>2. IsSequence(three) /\ ToSet(three) = {three[i] : i \in 1 .. l}
      BY <3>1, Listed
    <3> QED
      BY <3>2 DEF l
  <2>2. \A i \in 1 .. Len(G) : Fine(three[i])
    BY <1>3
  <2> QED
    BY <2>1, <2>2
<1>8. IsSequence(four) /\ \A f \in ToSet(four) : Fine(f)
  <2>1. IsSequence(objects) /\ ToSet(objects) = {objects[i] : i \in 1 .. n}
    BY Listed
  <2>2. \A f \in ToSet(objects) : Fine(f)
    BY <2>1
  <2>3. IsSequence(<< <<"no objects">> >>) /\ ToSet(<< <<"no objects">> >>) = {<<"no objects">>}
    BY Alone
  <2>4. Fine(<<"no objects">>)
    OBVIOUS
  <2> HIDE DEF objects, Fine
  <2> QED
    BY <2>1, <2>2, <2>3, <2>4 DEF OrElse
<1>9. IsSequence(five) /\ \A f \in ToSet(five) : Fine(f)
  <2>1. CASE Said(heard) # <<>>
    <3>1. heard.available /\ Said(heard) = heard.text
      BY <2>1 DEF Said
    <3>2. five = << <<"said", Said(heard)>> >>
      BY <2>1
    <3>3. IsSequence(five) /\ ToSet(five) = {<<"said", Said(heard)>>}
      BY <3>2, Alone
    <3>4. Fine(<<"said", Said(heard)>>)
      BY <3>1
    <3> HIDE DEF five, Fine
    <3> QED
      BY <3>3, <3>4
  <2>2. CASE ~(Said(heard) # <<>>)
    <3>1. five = << <<"nothing said">> >>
      BY <2>2
    <3>2. IsSequence(five) /\ ToSet(five) = {<<"nothing said">>}
      BY <3>1, Alone
    <3>3. Fine(<<"nothing said">>)
      OBVIOUS
    <3> HIDE DEF five, Fine
    <3> QED
      BY <3>2, <3>3
  <2> QED
    BY <2>1, <2>2
<1>10. IsSequence(six) /\ \A f \in ToSet(six) : Fine(f)
  <2>1. CASE note # ""
    <3>1. six = << <<"notes", note>> >>
      BY <2>1
    <3>2. IsSequence(six) /\ ToSet(six) = {<<"notes", note>>}
      BY <3>1, Alone
    <3>3. Fine(<<"notes", note>>)
      OBVIOUS
    <3> HIDE DEF six, Fine
    <3> QED
      BY <3>2, <3>3
  <2>2. CASE ~(note # "")
    BY <2>2, Alone
  <2> QED
    BY <2>1, <2>2
<1> HIDE DEF one, two, three, four, five, six, Fine
<1>11. /\ IsSequence(((((one \o two) \o three) \o four) \o five) \o six)
       /\ ToSet(((((one \o two) \o three) \o four) \o five) \o six)
            = ((((ToSet(one) \cup ToSet(two)) \cup ToSet(three)) \cup ToSet(four))
                 \cup ToSet(five)) \cup ToSet(six)
  <2>1. IsSequence(one \o two) /\ ToSet(one \o two) = ToSet(one) \cup ToSet(two)
    BY <1>5, <1>6, Joined
  <2>2. IsSequence((one \o two) \o three)
        /\ ToSet((one \o two) \o three) = ToSet(one \o two) \cup ToSet(three)
    BY <2>1, <1>7, Joined
  <2>3. IsSequence(((one \o two) \o three) \o four)
        /\ ToSet(((one \o two) \o three) \o four) = ToSet((one \o two) \o three) \cup ToSet(four)
    BY <2>2, <1>8, Joined
  <2>4. IsSequence((((one \o two) \o three) \o four) \o five)
        /\ ToSet((((one \o two) \o three) \o four) \o five)
             = ToSet(((one \o two) \o three) \o four) \cup ToSet(five)
    BY <2>3, <1>9, Joined
  <2>5. IsSequence(((((one \o two) \o three) \o four) \o five) \o six)
        /\ ToSet(((((one \o two) \o three) \o four) \o five) \o six)
             = ToSet((((one \o two) \o three) \o four) \o five) \cup ToSet(six)
    BY <2>4, <1>10, Joined
  <2> QED
    BY <2>1, <2>2, <2>3, <2>4, <2>5
<1> DEFINE facts == ToSet(Facts(seen, heard, note, r))
<1>12. <<"risk", r.level, r.score>> \in facts /\ \A f \in facts : Fine(f)
  BY <1>4, <1>5, <1>6, <1>7, <1>8, <1>9, <1>10, <1>11
<1> HIDE DEF facts
<1>13. Grounded(facts, seen, heard, r)
  BY <1>12 DEF Grounded, Fine
<1> QED
  BY <1>13 DEF facts

-----------------------------------------------------------------------------
\* Products keep the order of a factor.
LEMMA TimesMonotone ==
  ASSUME NEW a \in Int, NEW b \in Int, NEW s \in Nat, a <= b
  PROVE  a * s <= b * s
<1>1. (b - a) * s >= 0
  OBVIOUS
<1>2. (b - a) * s = b * s - a * s
  OBVIOUS
<1> QED
  BY <1>1, <1>2

\* A step goes forward, by a chunk at most, whatever overlap is asked for.
LEMMA StepIs ==
  ASSUME NEW chunk \in Nat \ {0}, NEW overlap \in Int
  PROVE  Step(chunk, overlap) \in 1 .. chunk
  BY DEF Step, Overlapping, Most, Least

\* The last chunk reaches the end, the one before it does not.
LEMMA CountIs ==
  ASSUME NEW total \in Nat \ {0}, NEW chunk \in Nat \ {0}, NEW overlap \in Int
  PROVE  LET n == Count(total, chunk, overlap)
             s == Step(chunk, overlap)
         IN  /\ n \in Nat \ {0} /\ total <= (n - 1) * s + chunk
             /\ n > 1 => (n - 2) * s + chunk < total
<1> DEFINE n == Count(total, chunk, overlap)
           s == Step(chunk, overlap)
<1>1. s \in Nat \ {0}
  BY StepIs
<1>2. CASE total <= chunk
  <2>1. n = 1
    BY <1>2 DEF Count
  <2>2. (n - 1) * s = 0
    BY <2>1, <1>1
  <2> QED
    BY <1>2, <2>1, <2>2
<1>3. CASE total > chunk
  <2> DEFINE m == total - chunk + s - 1
             q == m \div s
  <2>1. n = 1 + q
    BY <1>3 DEF Count
  <2> HIDE DEF s
  <2>2. m \in Nat /\ m >= s
    BY <1>1, <1>3
  <2> HIDE DEF m
  <2>3. q \in Int /\ m % s \in 0 .. s - 1 /\ m = (s * q) + (m % s)
    BY <1>1, <2>2, Division
  <2> HIDE DEF q
  <2>4. s * q <= m /\ m < s * q + s /\ s * q = q * s /\ q * s \in Int
    BY <1>1, <2>3
  <2>5. q >= 1
    <3>1. SUFFICES ASSUME q <= 0 PROVE FALSE
      BY <2>3
    <3>2. q * s <= 0 * s
      BY <1>1, <2>3, <3>1, TimesMonotone
    <3> QED
      BY <1>1, <2>2, <2>4, <3>2
  <2>6. (q - 1) * s = q * s - s
    BY <1>1, <2>3
  <2>7. total - chunk <= q * s /\ q * s - s < total - chunk
    BY <1>1, <2>4 DEF m
  <2>8. n - 1 = q /\ n - 2 = q - 1 /\ n \in Nat \ {0}
    BY <2>1, <2>3, <2>5
  <2> HIDE DEF n
  <2>9. /\ total <= (n - 1) * s + chunk
        /\ (n - 2) * s + chunk < total
    BY <2>3, <2>4, <2>6, <2>7, <2>8, <1>1
  <2> QED
    BY <2>8, <2>9 DEF s, n
<1> QED
  BY <1>2, <1>3

Chunks == [from : Int, to : Int]

\* A plan of n chunks for a recording of that length: no gap, always forward,
\* from the beginning to the end.
IsPlan(p, n, total) ==
  /\ n \in Nat \ {0} /\ p \in [1 .. n -> Chunks]
  /\ p[1].from = 0 /\ p[n].to = total
  /\ \A k \in 1 .. n : 0 <= p[k].from /\ p[k].from < p[k].to /\ p[k].to <= total
  /\ \A k \in 1 .. n - 1 : /\ p[k + 1].from <= p[k].to
                           /\ p[k].from < p[k + 1].from /\ p[k].to < p[k + 1].to

\* plan_chunks makes one.
LEMMA ChunksArePlan ==
  ASSUME NEW total \in Nat \ {0}, NEW chunk \in Nat \ {0}, NEW overlap \in Int
  PROVE  LET p == PlanChunks(total, chunk, overlap) IN IsPlan(p, Len(p), total)
<1> DEFINE p == PlanChunks(total, chunk, overlap)
           n == Count(total, chunk, overlap)
           s == Step(chunk, overlap)
<1>1. s \in Nat /\ 1 <= s /\ s <= chunk
  BY StepIs
<1>2. /\ n \in Nat \ {0} /\ total <= (n - 1) * s + chunk
      /\ n > 1 => (n - 2) * s + chunk < total
  BY CountIs
<1>3. p = [k \in 1 .. n |-> [from |-> (k - 1) * s, to |-> Least((k - 1) * s + chunk, total)]]
  BY DEF PlanChunks, Start
<1> HIDE DEF p, n, s
<1>4. DOMAIN p = 1 .. n /\ Len(p) = n
  BY <1>2, <1>3
<1>5. ASSUME NEW k \in 1 .. n - 1
      PROVE  (k - 1) * s \in Int /\ (k - 1) * s + chunk < total
  <2>1. (k - 1) * s <= (n - 2) * s /\ (k - 1) * s \in Int /\ (n - 2) * s \in Int
    BY <1>1, <1>2, TimesMonotone
  <2> QED
    BY <2>1, <1>2
<1>6. ASSUME NEW k \in 1 .. n
      PROVE  /\ p[k].from = (k - 1) * s /\ p[k].to = Least((k - 1) * s + chunk, total)
             /\ (k - 1) * s \in Nat
  BY <1>1, <1>2, <1>3
<1>7. ASSUME NEW k \in 1 .. n - 1
      PROVE  /\ p[k].to = (k - 1) * s + chunk
             /\ p[k + 1].from = (k - 1) * s + s
             /\ p[k + 1].to = Least((k - 1) * s + s + chunk, total)
  <2>1. k \in 1 .. n /\ k + 1 \in 1 .. n /\ (k + 1) - 1 = k
    BY <1>2
  <2>2. k * s = (k - 1) * s + s
    BY <1>1, <2>1
  <2>3. p[k].to = (k - 1) * s + chunk
    BY <1>5, <1>6, <2>1 DEF Least
  <2> QED
    BY <2>1, <2>2, <2>3, <1>6
<1>8. p[1].from = 0
  <2>1. (1 - 1) * s = 0 /\ 1 \in 1 .. n
    BY <1>1, <1>2
  <2> QED
    BY <2>1, <1>6
<1>9. p[n].to = total
  <2>1. n \in 1 .. n /\ (n - 1) * s \in Nat
    BY <1>2, <1>6
  <2> QED
    BY <2>1, <1>2, <1>6 DEF Least
<1>10. ASSUME NEW k \in 1 .. n
       PROVE  /\ p[k] \in Chunks /\ 0 <= p[k].from
              /\ p[k].from < p[k].to /\ p[k].to <= total
  <2>1. p[k].from < total
    <3>1. CASE k \in 1 .. n - 1
      BY <3>1, <1>5, <1>6
    <3>2. CASE k = n
      <4>1. CASE n > 1
        <5>1. (n - 1) * s = (n - 2) * s + s /\ (n - 2) * s \in Int
          BY <1>1, <1>2
        <5> QED
          BY <4>1, <5>1, <3>2, <1>1, <1>2, <1>6
      <4>2. CASE n = 1
        BY <4>2, <3>2, <1>8
      <4> QED
        BY <4>1, <4>2, <1>2
    <3> QED
      BY <3>1, <3>2, <1>2
  <2> HIDE DEF Least
  <2>2. p[k].to = Least(p[k].from + chunk, total) /\ p[k].from \in Nat
    BY <1>6
  <2>3. p[k].from < p[k].to /\ p[k].to <= total /\ p[k].to \in Int
    BY <2>1, <2>2 DEF Least
  <2>4. p[k] \in Chunks
    BY <2>2, <2>3, <1>3 DEF Chunks
  <2> QED
    BY <2>2, <2>3, <2>4
<1>11. ASSUME NEW k \in 1 .. n - 1
       PROVE  /\ p[k + 1].from <= p[k].to
              /\ p[k].from < p[k + 1].from /\ p[k].to < p[k + 1].to
  <2>1. k \in 1 .. n
    BY <1>2
  <2> QED
    BY <2>1, <1>1, <1>5, <1>6, <1>7 DEF Least
<1>12. p \in [1 .. n -> Chunks]
  BY <1>3, <1>10
<1> QED
  BY <1>2, <1>4, <1>8, <1>9, <1>10, <1>11, <1>12 DEF IsPlan, p

\* Whatever is said lies in some chunk of a plan: the first one that ends after
\* it began.
LEMMA PlanCovers ==
  ASSUME NEW p, NEW n, NEW total \in Nat, IsPlan(p, n, total),
         NEW u \in Segments, 0 <= u.start, u.start < u.end, u.end <= total
  PROVE  \E k \in 1 .. n : Audible(u, p[k])
<1> DEFINE T == {k \in 1 .. n : u.start < p[k].to}
<1>1. n \in Nat \ {0} /\ \A k \in 1 .. n : p[k].from \in Int /\ p[k].to \in Int
  BY DEF IsPlan, Chunks
<1>2. u.start \in Int /\ u.end \in Int
  BY DEF Segments
<1>3. n \in T
  BY <1>1, <1>2 DEF IsPlan
<1>4. PICK k \in T : \A l \in T : k <= l
  <2>1. T \subseteq Nat /\ T # {}
    BY <1>1, <1>3
  <2> HIDE DEF T
  <2> QED
    BY <2>1, NatMin
<1>5. p[k].from < u.end
  <2>1. CASE k = 1
    BY <2>1, <1>2 DEF IsPlan
  <2>2. CASE k # 1
    <3>1. k - 1 \in 1 .. n /\ k - 1 \in 1 .. n - 1 /\ (k - 1) + 1 = k /\ k - 1 < k
      BY <2>2, <1>1
    <3>2. k - 1 \notin T
      BY <3>1, <1>4
    <3>3. p[k - 1].to <= u.start
      BY <3>1, <3>2, <1>1, <1>2
    <3>4. p[k].from <= p[k - 1].to
      BY <3>1 DEF IsPlan
    <3> QED
      BY <3>1, <3>3, <3>4, <1>1, <1>2
  <2> QED
    BY <2>1, <2>2
<1> QED
  BY <1>5 DEF Audible

\* A part of an utterance, in time.
IsPiece(s, u) ==
  s.text = u.text /\ u.start <= s.start /\ s.start < s.end /\ s.end <= u.end

\* c is what is heard of the recording in one of these clips, and says all of it.
Gathered(c, rec, clips) ==
  /\ c \in Seq(Segments)
  /\ \A i \in 1 .. Len(c) : \E j \in DOMAIN rec.utterances : \E clip \in clips :
       Audible(rec.utterances[j], clip) /\ IsPiece(c[i], rec.utterances[j])
  /\ \A j \in DOMAIN rec.utterances : \A clip \in clips :
       Audible(rec.utterances[j], clip) =>
         \E i \in 1 .. Len(c) : c[i].text = rec.utterances[j].text

\* What one chunk heard is put where it was said.
LEMMA PlacedGathers ==
  ASSUME NEW rec, IsRecording(rec), NEW clip \in Chunks, clip.from < clip.to
  PROVE  Gathered(Placed(rec, clip), rec, {clip})
<1> DEFINE us == rec.utterances
           n == Len(us)
           I == {j \in DOMAIN us : Audible(us[j], clip)}
           m == Cardinality(I)
           f == Ascending(I)
           inside == Picked(us, I)
           heard == Heard(us, clip)
           c == Placed(rec, clip)
<1>1. n \in Nat /\ DOMAIN us = 1 .. n /\ us \in [1 .. n -> Segments]
  BY DEF IsRecording
<1>2. I \in SUBSET (1 .. n)
  BY <1>1
<1>3. IsFiniteSet(I) /\ I \in SUBSET Int
  BY <1>1, <1>2, FiniteDomain
<1> HIDE DEF I
<1>4. /\ DOMAIN inside = 1 .. m /\ m \in Nat
      /\ \A k \in 1 .. m : f[k] \in I /\ inside[k] = us[f[k]]
      /\ \A i \in I : \E k \in 1 .. m : f[k] = i
  BY <1>3, PickedFrom
<1>5. heard = [i \in DOMAIN inside |->
                 [inside[i] EXCEPT !.start = Most(@, clip.from) - clip.from,
                                   !.end = Least(@, clip.to) - clip.from]]
  BY DEF Heard, I
<1>6. c = [i \in DOMAIN heard |-> ShiftedBy(heard[i], clip.from)]
  BY DEF Placed
<1>7. clip.from \in Int /\ clip.to \in Int
  BY DEF Chunks
<1> HIDE DEF c, heard, inside, f, m
<1> USE DEF I
<1>8. ASSUME NEW i \in 1 .. m
      PROVE  /\ f[i] \in DOMAIN us /\ Audible(us[f[i]], clip)
             /\ c[i] \in Segments /\ IsPiece(c[i], us[f[i]])
  <2> DEFINE u == us[f[i]]
  <2>1. f[i] \in 1 .. n /\ Audible(u, clip) /\ inside[i] = u
    BY <1>1, <1>4
  <2>2. u \in Segments /\ u.start < u.end
    BY <1>1, <2>1 DEF IsRecording
  <2>3. heard[i] = [inside[i] EXCEPT !.start = Most(@, clip.from) - clip.from,
                                     !.end = Least(@, clip.to) - clip.from]
    BY <1>4, <1>5
  <2>4. c[i] = ShiftedBy(heard[i], clip.from)
    BY <1>4, <1>5, <1>6
  <2> HIDE DEF u
  <2> DEFINE from == Most(u.start, clip.from)
             to == Least(u.end, clip.to)
  <2>5. u.start \in Int /\ u.end \in Int /\ u.text \in STRING
    BY <2>2 DEF Segments
  <2>6. from \in Int /\ to \in Int /\ u.start <= from /\ to <= u.end /\ from < to
    BY <1>7, <2>1, <2>2, <2>5 DEF Most, Least, Audible
  <2> HIDE DEF from, to
  <2> DEFINE a == from - clip.from
             b == to - clip.from
  <2>7. heard[i] = [u EXCEPT !.start = a, !.end = b]
    BY <2>1, <2>3, <2>2 DEF from, to, Segments
  <2>11. a \in Int /\ b \in Int /\ a + clip.from = from /\ b + clip.from = to
    BY <2>6, <1>7
  <2> HIDE DEF a, b
  <2>8. c[i] = [heard[i] EXCEPT !.start = @ + clip.from, !.end = @ + clip.from]
    BY <2>4 DEF ShiftedBy
  <2>9. /\ heard[i] \in Segments /\ heard[i].start = a /\ heard[i].end = b
        /\ heard[i].text = u.text
    BY <2>2, <2>7, <2>11 DEF Segments
  <2>10. c[i] \in Segments /\ c[i].start = from /\ c[i].end = to /\ c[i].text = u.text
    BY <2>8, <2>9, <2>6, <2>11 DEF Segments
  <2> QED
    BY <2>1, <2>6, <2>10, <1>1 DEF IsPiece, u
<1>9. DOMAIN c = 1 .. m /\ Len(c) = m /\ c \in Seq(Segments)
  <2>1. DOMAIN c = 1 .. m
    BY <1>4, <1>5, <1>6
  <2>2. c = [i \in 1 .. m |-> c[i]]
    BY <2>1, <1>6
  <2> QED
    BY <2>1, <2>2, <1>4, <1>8
<1>10. ASSUME NEW j \in DOMAIN us, Audible(us[j], clip)
       PROVE  \E i \in 1 .. m : c[i].text = us[j].text
  <2>1. PICK i \in 1 .. m : f[i] = j
    BY <1>4, <1>10
  <2> QED
    BY <2>1, <1>8 DEF IsPiece
<1> QED
  BY <1>8, <1>9, <1>10 DEF Gathered, c

\* transcribe_realtime collects what its chunks heard.
LEMMA CollectedGathers ==
  ASSUME NEW rec, IsRecording(rec), NEW k \in Nat,
         NEW p, \A j \in 1 .. k : p[j] \in Chunks /\ p[j].from < p[j].to
  PROVE  Gathered(Collected(rec, p, k), rec, {p[j] : j \in 1 .. k})
<1> DEFINE A == Seq(Segments)
           c == [j \in 1 .. k |-> p[j]]
           E(got, clip) == got \o Placed(rec, clip)
           step == [q \in A \X (1 .. k) |-> E(q[1], c[q[2]])]
<1>1. DOMAIN c = 1 .. k
  OBVIOUS
<1>2. Collected(rec, p, k) = (CHOOSE iter : iter = [s \in SUBSET (DOMAIN c) |->
                        IF s = {} THEN <<>>
                        ELSE E(iter[s \ {Max(s)}], c[Max(s)])])[DOMAIN c]
  BY DEF Collected, FoldLeft, MapThenFoldSet
<1>3. \A i \in 1 .. k : c[i] = p[i] /\ Gathered(Placed(rec, c[i]), rec, {c[i]})
  BY PlacedGathers
<1>4. step \in [A \X (1 .. k) -> A]
  <2>1. ASSUME NEW a \in A, NEW i \in 1 .. k PROVE E(a, c[i]) \in A
    <3>1. Placed(rec, c[i]) \in Seq(Segments)
      BY <1>3 DEF Gathered
    <3> HIDE DEF c
    <3> QED
      BY <3>1
  <2> HIDE DEF A, E, c
  <2> QED
    BY <2>1
<1>5. \A a \in A, i \in 1 .. k : step[<<a, i>>] = E(a, c[i])
  OBVIOUS
<1>6. <<>> \in A
  OBVIOUS
<1> HIDE DEF A, E, step, c
<1>7. \E f : f = [s \in SUBSET (DOMAIN c) |->
               IF s = {} THEN <<>> ELSE E(f[s \ {Max(s)}], c[Max(s)])]
  <2>1. \E f : IsFold(f, k, A, <<>>, step)
    BY <1>4, <1>6, FoldExists
  <2>2. PICK f \in [SUBSET (1 .. k) -> A] : \A s \in SUBSET (1 .. k) :
          f[s] = IF s = {} THEN <<>> ELSE step[<<f[s \ {Max(s)}], Max(s)>>]
    BY <2>1 DEF IsFold
  <2>3. ASSUME NEW s \in SUBSET (1 .. k), s # {}
        PROVE f[s] = E(f[s \ {Max(s)}], c[Max(s)])
    <3>1. Max(s) \in 1 .. k
      BY <2>3, MaxIsMember
    <3>2. f[s \ {Max(s)}] \in A
      OBVIOUS
    <3> QED
      BY <2>2, <2>3, <3>1, <3>2, <1>5
  <2>4. \A s \in SUBSET (1 .. k) :
          f[s] = IF s = {} THEN <<>> ELSE E(f[s \ {Max(s)}], c[Max(s)])
    BY <2>2, <2>3
  <2>5. f = [s \in SUBSET (1 .. k) |-> f[s]]
    OBVIOUS
  <2>6. f = [s \in SUBSET (DOMAIN c) |->
               IF s = {} THEN <<>> ELSE E(f[s \ {Max(s)}], c[Max(s)])]
    BY <2>4, <2>5, <1>1
  <2> QED
    BY <2>6
<1> DEFINE iter == CHOOSE f : f = [s \in SUBSET (DOMAIN c) |->
               IF s = {} THEN <<>> ELSE E(f[s \ {Max(s)}], c[Max(s)])]
<1>8. iter = [s \in SUBSET (DOMAIN c) |->
               IF s = {} THEN <<>> ELSE E(iter[s \ {Max(s)}], c[Max(s)])]
  BY <1>7
<1>9. Collected(rec, p, k) = iter[1 .. k]
  BY <1>1, <1>2
<1> HIDE DEF iter
<1>10. \A s \in SUBSET (1 .. k) : s # {} /\ iter[s \ {Max(s)}] \in A =>
          iter[s] = step[<<iter[s \ {Max(s)}], Max(s)>>]
  <2>1. ASSUME NEW s \in SUBSET (1 .. k), s # {}, iter[s \ {Max(s)}] \in A
        PROVE  iter[s] = step[<<iter[s \ {Max(s)}], Max(s)>>]
    <3>1. iter[s] = E(iter[s \ {Max(s)}], c[Max(s)])
      BY <1>1, <1>8, <2>1
    <3>2. Max(s) \in 1 .. k
      BY <2>1, MaxIsMember
    <3> QED
      BY <3>1, <3>2, <2>1, <1>5
  <2> QED
    BY <2>1
<1>11. iter[{}] = <<>>
  BY <1>1, <1>8
<1>12. PICK g : IsSteps(g, k, A, <<>>, step) /\ g[k] = iter[1 .. k]
  <2>1. StepsTo(iter[1 .. k], k, A, <<>>, step)
    BY <1>4, <1>6, <1>10, <1>11, FoldSteps
  <2> QED
    BY <2>1 DEF StepsTo
<1> DEFINE clips(i) == {p[j] : j \in 1 .. i}
           T == {i \in Nat : i <= k => Gathered(g[i], rec, clips(i))}
<1>13. 0 \in T
  <2>1. g[0] = <<>> /\ clips(0) = {}
    BY <1>12 DEF IsSteps
  <2>2. Gathered(g[0], rec, clips(0))
    BY <2>1 DEF Gathered
  <2> QED
    BY <2>2
<1>14. ASSUME NEW i \in T, i \in Nat PROVE i + 1 \in T
  <2>1. CASE i + 1 <= k
    <3> DEFINE l == i + 1
               a == g[i]
               b == Placed(rec, c[l])
    <3>1. l \in 1 .. k /\ l - 1 = i /\ Gathered(a, rec, clips(i)) /\ i \in 0 .. k
      BY <2>1, <1>14
    <3>2. a \in A /\ g[l] = step[<<a, l>>]
      BY <3>1, <1>12 DEF IsSteps
    <3>3. g[l] = a \o b
      BY <3>1, <3>2, <1>5 DEF E
    <3>4. Gathered(b, rec, {p[l]})
      BY <3>1, <1>3
    <3>5. clips(l) = clips(i) \cup {p[l]}
      BY <3>1
    <3> HIDE DEF a, b, l, clips
    <3>6. /\ a \in Seq(Segments) /\ b \in Seq(Segments) /\ a \o b \in Seq(Segments)
          /\ Len(a) \in Nat /\ Len(b) \in Nat /\ Len(a \o b) = Len(a) + Len(b)
          /\ \A x \in 1 .. Len(a) + Len(b) :
               (a \o b)[x] = IF x <= Len(a) THEN a[x] ELSE b[x - Len(a)]
      BY <3>1, <3>4, ConcatProperties DEF Gathered
    <3>7. ASSUME NEW x \in 1 .. Len(a \o b)
          PROVE  \E j \in DOMAIN rec.utterances : \E clip \in clips(l) :
                   Audible(rec.utterances[j], clip)
                     /\ IsPiece((a \o b)[x], rec.utterances[j])
      <4>1. CASE x <= Len(a)
        <5>1. x \in 1 .. Len(a) /\ (a \o b)[x] = a[x]
          BY <4>1, <3>6
        <5> QED
          BY <5>1, <3>1, <3>5 DEF Gathered
      <4>2. CASE ~(x <= Len(a))
        <5>1. x - Len(a) \in 1 .. Len(b) /\ (a \o b)[x] = b[x - Len(a)]
          BY <4>2, <3>6
        <5> QED
          BY <5>1, <3>4, <3>5 DEF Gathered
      <4> QED
        BY <4>1, <4>2
    <3>8. ASSUME NEW j \in DOMAIN rec.utterances, NEW clip \in clips(l),
                 Audible(rec.utterances[j], clip)
          PROVE  \E x \in 1 .. Len(a \o b) : (a \o b)[x].text = rec.utterances[j].text
      <4>1. CASE clip \in clips(i)
        <5>1. PICK x \in 1 .. Len(a) : a[x].text = rec.utterances[j].text
          BY <4>1, <3>8, <3>1 DEF Gathered
        <5>2. x \in 1 .. Len(a \o b) /\ (a \o b)[x] = a[x]
          BY <3>6
        <5> QED
          BY <5>1, <5>2
      <4>2. CASE clip \in {p[l]}
        <5>1. PICK x \in 1 .. Len(b) : b[x].text = rec.utterances[j].text
          BY <4>2, <3>8, <3>4 DEF Gathered
        <5>2. /\ Len(a) + x \in 1 .. Len(a \o b) /\ ~(Len(a) + x <= Len(a))
              /\ (Len(a) + x) - Len(a) = x
          BY <3>6
        <5>3. (a \o b)[Len(a) + x] = b[x]
          BY <3>6, <5>2
        <5> QED
          BY <5>1, <5>2, <5>3
      <4> QED
        BY <4>1, <4>2, <3>5
    <3>9. Gathered(a \o b, rec, clips(l))
      BY <3>6, <3>7, <3>8 DEF Gathered
    <3>10. Gathered(g[l], rec, clips(l))
      BY <3>3, <3>9
    <3> QED
      BY <3>10, <2>1 DEF l
  <2>2. CASE ~(i + 1 <= k)
    BY <2>2
  <2> QED
    BY <2>1, <2>2
<1> HIDE DEF T
<1>15. Nat \subseteq T
  BY <1>13, <1>14, SetInduction
<1> USE DEF T
<1>16. Gathered(g[k], rec, clips(k))
  BY <1>15
<1> QED
  BY <1>9, <1>12, <1>16

\* o has the segments of segs, by their starts.
Sorted(o, segs) ==
  /\ o \in Seq(Segments)
  /\ \A i \in 1 .. Len(o) : \E j \in 1 .. Len(segs) : o[i] = segs[j]
  /\ \A j \in 1 .. Len(segs) : \E i \in 1 .. Len(o) : o[i] = segs[j]
  /\ \A i, j \in 1 .. Len(o) : i < j => o[i].start <= o[j].start

\* The sort of join_text and of merge_overlapping_segments.
LEMMA InOrderSorts ==
  ASSUME NEW segs \in Seq(Segments)
  PROVE  Sorted(InOrder(segs), segs)
<1> DEFINE n == Len(segs)
           R == Sooner(segs)
           q == Ranked(1 .. n, R)
           o == InOrder(segs)
           st == [i \in 1 .. n |-> segs[i].start]
           en == [i \in 1 .. n |-> segs[i].end]
<1>1. n \in Nat /\ DOMAIN segs = 1 .. n /\ segs \in [1 .. n -> Segments]
  OBVIOUS
<1>2. \A i \in 1 .. n : segs[i].start \in Int /\ segs[i].end \in Int
  BY <1>1 DEF Segments
<1>3. o = [i \in 1 .. n |-> segs[q[i]]]
  BY <1>1 DEF InOrder
<1>4. \A i, j \in 1 .. n : <<i, j>> \in R <=>
        \/ segs[i].start < segs[j].start
        \/ segs[i].start = segs[j].start /\ segs[i].end < segs[j].end
        \/ segs[i].start = segs[j].start /\ segs[i].end = segs[j].end /\ i < j
  BY <1>1 DEF Sooner
<1>4a. \A i \in 1 .. n : /\ st[i] \in Int /\ en[i] \in Int
                       /\ st[i] = segs[i].start /\ en[i] = segs[i].end
  BY <1>2
<1>4b. \A i, j \in 1 .. n : <<i, j>> \in R <=>
        \/ st[i] < st[j]
        \/ st[i] = st[j] /\ en[i] < en[j]
        \/ st[i] = st[j] /\ en[i] = en[j] /\ i < j
  BY <1>4, <1>4a
<1> HIDE DEF R, n, st, en
<1>5. StrictOrder(1 .. n, R)
  <2>1. \A i \in 1 .. n : <<i, i>> \notin R
    BY <1>1, <1>4a, <1>4b
  <2>2. \A i, j, k \in 1 .. n : <<i, j>> \in R /\ <<j, k>> \in R => <<i, k>> \in R
    BY <1>1, <1>4a, <1>4b
  <2>3. ASSUME NEW i \in 1 .. n, NEW j \in 1 .. n
        PROVE  i = j \/ <<i, j>> \in R \/ <<j, i>> \in R
    <3>1. /\ st[i] < st[j] \/ st[i] = st[j] \/ st[j] < st[i]
          /\ en[i] < en[j] \/ en[i] = en[j] \/ en[j] < en[i]
          /\ i < j \/ i = j \/ j < i
      BY <1>1, <1>4a
    <3> QED
      BY <3>1, <1>4b
  <2> QED
    BY <2>1, <2>2, <2>3 DEF StrictOrder
<1>6. IsFiniteSet(1 .. n) /\ Cardinality(1 .. n) = n
  BY <1>1, FiniteDomain
<1>7. /\ q \in Bijection(1 .. n, 1 .. n)
      /\ \A i, j \in 1 .. n : i < j <=> <<q[i], q[j]>> \in R
  BY <1>5, <1>6, RankedInOrder
<1> HIDE DEF q, o
<1>8. /\ \A i \in 1 .. n : q[i] \in 1 .. n
      /\ \A j \in 1 .. n : \E i \in 1 .. n : q[i] = j
  BY <1>7 DEF Bijection, Injection, Surjection
<1>9. o \in Seq(Segments) /\ Len(o) = n /\ \A i \in 1 .. n : o[i] = segs[q[i]]
  BY <1>1, <1>3, <1>8
<1>10. \A i, j \in 1 .. n : i < j => o[i].start <= o[j].start
  <2>1. ASSUME NEW i \in 1 .. n, NEW j \in 1 .. n, i < j PROVE o[i].start <= o[j].start
    <3>1. <<q[i], q[j]>> \in R /\ q[i] \in 1 .. n /\ q[j] \in 1 .. n
      BY <2>1, <1>7, <1>8
    <3>2. st[q[i]] <= st[q[j]]
      BY <3>1, <1>4a, <1>4b
    <3>3. o[i] = segs[q[i]] /\ o[j] = segs[q[j]]
      BY <1>9
    <3> QED
      BY <3>1, <3>2, <3>3, <1>4a
  <2> QED
    BY <2>1
<1>11. ASSUME NEW j \in 1 .. n PROVE \E i \in 1 .. n : o[i] = segs[j]
  <2>1. PICK i \in 1 .. n : q[i] = j
    BY <1>8
  <2>2. o[i] = segs[j]
    BY <2>1, <1>9
  <2> QED
    BY <2>2
<1>12. ASSUME NEW i \in 1 .. n PROVE \E j \in 1 .. n : o[i] = segs[j]
  BY <1>8, <1>9
<1> QED
  BY <1>9, <1>10, <1>11, <1>12 DEF Sorted, n, o

\* What was kept of the first i is some of them, and says all they said.
Keeps(kept, o, i) ==
  /\ kept \in Seq(Segments)
  /\ \A x \in 1 .. Len(kept) : \E j \in 1 .. i : kept[x] = o[j]
  /\ \A j \in 1 .. i : \E x \in 1 .. Len(kept) : kept[x].text = o[j].text

\* merge_overlapping_segments leaves out nothing that is not said by what it keeps.
LEMMA MergeKeeps ==
  ASSUME NEW segs \in Seq(Segments)
  PROVE  Keeps(Merge(segs), segs, Len(segs))
<1> DEFINE A == Seq(Segments)
           c == InOrder(segs)
           k == Len(c)
           E(kept, s) == IF kept # <<>> /\ s.text = Last(kept).text
                              /\ s.start < Last(kept).end - Tolerance
                         THEN kept ELSE Append(kept, s)
           step == [q \in A \X (1 .. k) |-> E(q[1], c[q[2]])]
<1>1. Merge(segs) = (CHOOSE iter : iter = [s \in SUBSET (DOMAIN c) |->
                        IF s = {} THEN <<>>
                        ELSE E(iter[s \ {Max(s)}], c[Max(s)])])[DOMAIN c]
  BY DEF Merge, FoldLeft, MapThenFoldSet
<1>2. Sorted(c, segs)
  BY InOrderSorts
<1> HIDE DEF c
<1>3. k \in Nat /\ c \in [1 .. k -> Segments] /\ DOMAIN c = 1 .. k
  BY <1>2 DEF Sorted
<1> HIDE DEF k
<1>4. step \in [A \X (1 .. k) -> A]
  <2>1. ASSUME NEW a \in A, NEW i \in 1 .. k PROVE E(a, c[i]) \in A
    <3>1. c[i] \in Segments
      BY <1>3
    <3>2. Append(a, c[i]) \in A
      BY <3>1
    <3> QED
      BY <3>2
  <2> HIDE DEF A, E
  <2> QED
    BY <2>1
<1>5. \A a \in A, i \in 1 .. k : step[<<a, i>>] = E(a, c[i])
  OBVIOUS
<1>6. <<>> \in A
  OBVIOUS
<1> HIDE DEF A, E, step
<1>7. \E f : f = [s \in SUBSET (DOMAIN c) |->
               IF s = {} THEN <<>> ELSE E(f[s \ {Max(s)}], c[Max(s)])]
  <2>1. \E f : IsFold(f, k, A, <<>>, step)
    BY <1>3, <1>4, <1>6, FoldExists
  <2>2. PICK f \in [SUBSET (1 .. k) -> A] : \A s \in SUBSET (1 .. k) :
          f[s] = IF s = {} THEN <<>> ELSE step[<<f[s \ {Max(s)}], Max(s)>>]
    BY <2>1 DEF IsFold
  <2>3. ASSUME NEW s \in SUBSET (1 .. k), s # {}
        PROVE f[s] = E(f[s \ {Max(s)}], c[Max(s)])
    <3>1. Max(s) \in 1 .. k
      BY <1>3, <2>3, MaxIsMember
    <3>2. f[s \ {Max(s)}] \in A
      OBVIOUS
    <3> QED
      BY <2>2, <2>3, <3>1, <3>2, <1>5
  <2>4. \A s \in SUBSET (1 .. k) :
          f[s] = IF s = {} THEN <<>> ELSE E(f[s \ {Max(s)}], c[Max(s)])
    BY <2>2, <2>3
  <2>5. f = [s \in SUBSET (1 .. k) |-> f[s]]
    OBVIOUS
  <2>6. f = [s \in SUBSET (DOMAIN c) |->
               IF s = {} THEN <<>> ELSE E(f[s \ {Max(s)}], c[Max(s)])]
    BY <2>4, <2>5, <1>3
  <2> QED
    BY <2>6
<1> DEFINE iter == CHOOSE f : f = [s \in SUBSET (DOMAIN c) |->
               IF s = {} THEN <<>> ELSE E(f[s \ {Max(s)}], c[Max(s)])]
<1>8. iter = [s \in SUBSET (DOMAIN c) |->
               IF s = {} THEN <<>> ELSE E(iter[s \ {Max(s)}], c[Max(s)])]
  BY <1>7
<1>9. Merge(segs) = iter[1 .. k]
  BY <1>1, <1>3
<1> HIDE DEF iter
<1>10. \A s \in SUBSET (1 .. k) : s # {} /\ iter[s \ {Max(s)}] \in A =>
          iter[s] = step[<<iter[s \ {Max(s)}], Max(s)>>]
  <2>1. ASSUME NEW s \in SUBSET (1 .. k), s # {}, iter[s \ {Max(s)}] \in A
        PROVE  iter[s] = step[<<iter[s \ {Max(s)}], Max(s)>>]
    <3>1. iter[s] = E(iter[s \ {Max(s)}], c[Max(s)])
      BY <1>3, <1>8, <2>1
    <3>2. Max(s) \in 1 .. k
      BY <1>3, <2>1, MaxIsMember
    <3> QED
      BY <3>1, <3>2, <2>1, <1>5
  <2> QED
    BY <2>1
<1>11. iter[{}] = <<>>
  BY <1>3, <1>8
<1>12. PICK g : IsSteps(g, k, A, <<>>, step) /\ g[k] = iter[1 .. k]
  <2>1. StepsTo(iter[1 .. k], k, A, <<>>, step)
    BY <1>3, <1>4, <1>6, <1>10, <1>11, FoldSteps
  <2> QED
    BY <2>1 DEF StepsTo
<1> DEFINE T == {i \in Nat : i <= k => Keeps(g[i], c, i)}
<1>13. 0 \in T
  <2>1. g[0] = <<>>
    BY <1>12 DEF IsSteps
  <2>2. Keeps(g[0], c, 0)
    BY <2>1 DEF Keeps
  <2> QED
    BY <2>2
<1>14. ASSUME NEW i \in T, i \in Nat PROVE i + 1 \in T
  <2>1. CASE i + 1 <= k
    <3> DEFINE l == i + 1
               a == g[i]
               s == c[l]
    <3>1. l \in 1 .. k /\ l - 1 = i /\ Keeps(a, c, i) /\ i \in 0 .. k
      BY <2>1, <1>3, <1>14
    <3>2. a \in A /\ g[l] = step[<<a, l>>]
      BY <3>1, <1>12 DEF IsSteps
    <3>3. g[l] = E(a, s)
      BY <3>1, <3>2, <1>5
    <3>4. \A j \in 1 .. l : j \in 1 .. i \/ j = l
      BY <3>1
    <3>5. \A j \in 1 .. i : j \in 1 .. l
      BY <3>1
    <3>6. s \in Segments
      BY <3>1, <1>3
    <3> HIDE DEF a, l
    <3>7. /\ a \in Seq(Segments) /\ Len(a) \in Nat
          /\ \A x \in 1 .. Len(a) : \E j \in 1 .. i : a[x] = c[j]
          /\ \A j \in 1 .. i : \E x \in 1 .. Len(a) : a[x].text = c[j].text
      BY <3>1 DEF Keeps
    <3>8. CASE a # <<>> /\ s.text = Last(a).text /\ s.start < Last(a).end - Tolerance
      <4>1. g[l] = a
        BY <3>3, <3>8 DEF E
      <4>2. Len(a) \in 1 .. Len(a) /\ a[Len(a)].text = s.text
        BY <3>7, <3>8 DEF Last
      <4>3. Keeps(a, c, l)
        BY <3>1, <3>4, <3>5, <3>7, <4>2 DEF Keeps
      <4> QED
        BY <4>1, <4>3, <2>1 DEF l
    <3>9. CASE ~(a # <<>> /\ s.text = Last(a).text /\ s.start < Last(a).end - Tolerance)
      <4> DEFINE b == Append(a, s)
      <4>1. g[l] = b
        BY <3>3, <3>9 DEF E
      <4>2. /\ b \in Seq(Segments) /\ Len(b) = Len(a) + 1 /\ b[Len(a) + 1] = s
            /\ \A x \in 1 .. Len(a) : b[x] = a[x]
        BY <3>6, <3>7
      <4>3. /\ Len(a) + 1 \in 1 .. Len(b) /\ \A x \in 1 .. Len(a) : x \in 1 .. Len(b)
            /\ \A x \in 1 .. Len(b) : x \in 1 .. Len(a) \/ x = Len(a) + 1
        BY <3>7, <4>2
      <4> HIDE DEF b
      <4>4. \A x \in 1 .. Len(b) : \E j \in 1 .. l : b[x] = c[j]
        <5>1. ASSUME NEW x \in 1 .. Len(a) PROVE \E j \in 1 .. l : b[x] = c[j]
          <6>1. PICK j \in 1 .. i : a[x] = c[j]
            BY <3>7
          <6>2. j \in 1 .. l /\ b[x] = c[j]
            BY <6>1, <3>5, <4>2
          <6> QED
            BY <6>2
        <5>2. b[Len(a) + 1] = c[l] /\ l \in 1 .. l
          BY <4>2, <3>1
        <5> QED
          BY <5>1, <5>2, <4>3
      <4>5. \A j \in 1 .. l : \E x \in 1 .. Len(b) : b[x].text = c[j].text
        <5>1. ASSUME NEW j \in 1 .. i PROVE \E x \in 1 .. Len(b) : b[x].text = c[j].text
          BY <3>7, <4>2, <4>3
        <5>2. \E x \in 1 .. Len(b) : b[x].text = c[l].text
          BY <4>2, <4>3
        <5> QED
          BY <5>1, <5>2, <3>4
      <4>6. Keeps(b, c, l)
        BY <4>2, <4>4, <4>5 DEF Keeps
      <4> QED
        BY <4>1, <4>6, <2>1 DEF l
    <3> QED
      BY <3>8, <3>9
  <2>2. CASE ~(i + 1 <= k)
    BY <2>2
  <2> QED
    BY <2>1, <2>2
<1> HIDE DEF T
<1>15. Nat \subseteq T
  BY <1>13, <1>14, SetInduction
<1> USE DEF T
<1>16. Keeps(Merge(segs), c, k)
  BY <1>3, <1>9, <1>12, <1>15
<1> DEFINE kept == Merge(segs)
<1> HIDE DEF kept
<1>17. /\ kept \in Seq(Segments)
       /\ \A x \in 1 .. Len(kept) : \E j \in 1 .. k : kept[x] = c[j]
       /\ \A j \in 1 .. k : \E x \in 1 .. Len(kept) : kept[x].text = c[j].text
  BY <1>16 DEF Keeps, kept
<1>18. /\ \A j \in 1 .. k : \E y \in 1 .. Len(segs) : c[j] = segs[y]
       /\ \A y \in 1 .. Len(segs) : \E j \in 1 .. k : c[j] = segs[y]
  BY <1>2 DEF Sorted, k
<1>19. ASSUME NEW x \in 1 .. Len(kept) PROVE \E y \in 1 .. Len(segs) : kept[x] = segs[y]
  <2>1. PICK j \in 1 .. k : kept[x] = c[j]
    BY <1>17
  <2>2. PICK y \in 1 .. Len(segs) : c[j] = segs[y]
    BY <1>18
  <2> QED
    BY <2>1, <2>2
<1>20. ASSUME NEW y \in 1 .. Len(segs)
       PROVE  \E x \in 1 .. Len(kept) : kept[x].text = segs[y].text
  <2>1. PICK j \in 1 .. k : c[j] = segs[y]
    BY <1>18
  <2>2. PICK x \in 1 .. Len(kept) : kept[x].text = c[j].text
    BY <1>17
  <2> QED
    BY <2>1, <2>2
<1>21. Keeps(kept, segs, Len(segs))
  BY <1>17, <1>19, <1>20 DEF Keeps
<1> QED
  BY <1>21 DEF kept

\* A text says what was heard, the blank left out, in the order of starts.
Tells(text, segs) ==
  /\ \E m \in Nat : DOMAIN text = 1 .. m
  /\ ToSet(text) = {segs[i].text : i \in 1 .. Len(segs)} \ {""}
  /\ \A p, q \in DOMAIN text : \E i, j \in 1 .. Len(segs) :
       /\ segs[i].text = text[p] /\ segs[j].text = text[q]
       /\ p < q => segs[i].start <= segs[j].start

\* join_text.
LEMMA JoinedTells ==
  ASSUME NEW segs \in Seq(Segments)
  PROVE  Tells(JoinText(segs), segs)
<1> DEFINE o == InOrder(segs)
           n == Len(o)
           I == {i \in DOMAIN o : o[i].text # ""}
           m == Cardinality(I)
           f == Ascending(I)
           saying == Picked(o, I)
           text == JoinText(segs)
<1>1. Sorted(o, segs)
  BY InOrderSorts
<1>2. text = [i \in DOMAIN saying |-> saying[i].text]
  BY DEF JoinText
<1> HIDE DEF o
<1>3. n \in Nat /\ DOMAIN o = 1 .. n
  BY <1>1 DEF Sorted
<1>4. I \in SUBSET (1 .. n)
  BY <1>3
<1> HIDE DEF I
<1>5. IsFiniteSet(I) /\ I \in SUBSET Int
  BY <1>3, <1>4, FiniteDomain
<1>6. /\ DOMAIN saying = 1 .. m /\ m \in Nat
      /\ \A k \in 1 .. m : f[k] \in I /\ saying[k] = o[f[k]]
      /\ \A i \in I : \E k \in 1 .. m : f[k] = i
  BY <1>5, PickedFrom
<1>7. \A k, l \in 1 .. m : k < l <=> f[k] < f[l]
  BY <1>5, AscendingInOrder
<1> HIDE DEF f, saying, text, m
<1>8. DOMAIN text = 1 .. m /\ \A k \in 1 .. m : text[k] = o[f[k]].text
  BY <1>2, <1>6
<1>9. ToSet(text) = {segs[i].text : i \in 1 .. Len(segs)} \ {""}
  <2>1. ToSet(text) = {text[k] : k \in 1 .. m}
    BY <1>8 DEF ToSet
  <2>2. ASSUME NEW k \in 1 .. m
        PROVE  text[k] \in {segs[i].text : i \in 1 .. Len(segs)} \ {""}
    <3>1. f[k] \in 1 .. n /\ o[f[k]].text # ""
      BY <1>4, <1>6 DEF I
    <3>2. PICK i \in 1 .. Len(segs) : o[f[k]] = segs[i]
      BY <3>1, <1>1 DEF Sorted
    <3> QED
      BY <3>1, <3>2, <1>8
  <2>3. ASSUME NEW i \in 1 .. Len(segs), segs[i].text # ""
        PROVE  \E k \in 1 .. m : text[k] = segs[i].text
    <3>1. PICK j \in 1 .. n : o[j] = segs[i]
      BY <1>1 DEF Sorted
    <3>2. j \in I
      BY <3>1, <2>3, <1>3 DEF I
    <3>3. PICK k \in 1 .. m : f[k] = j
      BY <3>2, <1>6
    <3> QED
      BY <3>1, <3>3, <1>8
  <2> DEFINE said == {segs[i].text : i \in 1 .. Len(segs)}
  <2>4. ASSUME NEW w \in ToSet(text) PROVE w \in said \ {""}
    BY <2>1, <2>2, <2>4
  <2>5. ASSUME NEW w \in said \ {""} PROVE w \in ToSet(text)
    <3>1. PICK i \in 1 .. Len(segs) : w = segs[i].text
      OBVIOUS
    <3>2. PICK k \in 1 .. m : text[k] = segs[i].text
      BY <3>1, <2>3
    <3> QED
      BY <3>1, <3>2, <2>1
  <2> HIDE DEF said
  <2>6. ToSet(text) = said \ {""}
    BY <2>4, <2>5
  <2> QED
    BY <2>6 DEF said
<1>10. ASSUME NEW p \in 1 .. m, NEW q \in 1 .. m
       PROVE  \E i, j \in 1 .. Len(segs) :
                /\ segs[i].text = text[p] /\ segs[j].text = text[q]
                /\ p < q => segs[i].start <= segs[j].start
  <2>1. f[p] \in 1 .. n /\ f[q] \in 1 .. n
    BY <1>4, <1>6
  <2>2. PICK i \in 1 .. Len(segs) : o[f[p]] = segs[i]
    BY <2>1, <1>1 DEF Sorted
  <2>3. PICK j \in 1 .. Len(segs) : o[f[q]] = segs[j]
    BY <2>1, <1>1 DEF Sorted
  <2>4. p < q => o[f[p]].start <= o[f[q]].start
    BY <2>1, <1>1, <1>7 DEF Sorted
  <2>5. text[p] = o[f[p]].text /\ text[q] = o[f[q]].text
    BY <1>8
  <2> QED
    BY <2>2, <2>3, <2>4, <2>5
<1>11. \A p, q \in DOMAIN text : \E i, j \in 1 .. Len(segs) :
         /\ segs[i].text = text[p] /\ segs[j].text = text[q]
         /\ p < q => segs[i].start <= segs[j].start
  <2>1. DOMAIN text = 1 .. m
    BY <1>8
  <2> QED
    BY <2>1, <1>10
<1>12. Tells(text, segs)
  BY <1>6, <1>8, <1>9, <1>11, Zenon DEF Tells
<1> QED
  BY <1>12 DEF text

\* The utterances some of these clips let hear.
HeardIn(rec, clips) ==
  {j \in DOMAIN rec.utterances : \E clip \in clips : Audible(rec.utterances[j], clip)}

WordsOf(rec, clips) == {rec.utterances[j].text : j \in HeardIn(rec, clips)} \ {""}

First(p, k) == {p[j] : j \in 1 .. k}

\* What is told of them: every word of theirs and no other, and of two utterances
\* that nothing else sounds like, the earlier one first.
Transcribes(text, rec, clips) ==
  /\ ToSet(text) = WordsOf(rec, clips)
  /\ \A i, j \in DOMAIN rec.utterances :
       LET u == rec.utterances[i]
           v == rec.utterances[j]
       IN SaidOnce(u, rec) /\ SaidOnce(v, rec) /\ u.end <= v.start =>
            \A a, b \in DOMAIN text : text[a] = u.text /\ text[b] = v.text => a < b

\* A text that is said once is said by one utterance.
LEMMA OnceIsOne ==
  ASSUME NEW rec, IsRecording(rec), NEW i \in DOMAIN rec.utterances,
         SaidOnce(rec.utterances[i], rec), NEW j \in DOMAIN rec.utterances,
         rec.utterances[j].text = rec.utterances[i].text
  PROVE  i = j
<1> DEFINE us == rec.utterances
           S == {k \in DOMAIN us : us[k].text = us[i].text}
<1>1. DOMAIN us = 1 .. Len(us) /\ Len(us) \in Nat
  BY DEF IsRecording
<1>2. S \in SUBSET (1 .. Len(us))
  BY <1>1
<1>3. IsFiniteSet(S)
  BY <1>1, <1>2, FiniteDomain
<1>4. Cardinality(S) = 1 /\ i \in S /\ j \in S
  BY DEF SaidOnce
<1> HIDE DEF S
<1>5. PICK x : S = {x}
  BY <1>3, <1>4, FS_Singleton
<1> QED
  BY <1>4, <1>5

\* What transcribe_realtime tells after its first k chunks.
LEMMA ToldOfChunks ==
  ASSUME NEW rec, IsRecording(rec), NEW k \in Nat,
         NEW p, \A j \in 1 .. k : p[j] \in Chunks /\ p[j].from < p[j].to
  PROVE  Transcribes(JoinText(Merge(Collected(rec, p, k))), rec, First(p, k))
<1> DEFINE us == rec.utterances
           clips == First(p, k)
           c == Collected(rec, p, k)
           kept == Merge(c)
           text == JoinText(kept)
<1>1. Gathered(c, rec, clips)
  BY CollectedGathers DEF First
<1> HIDE DEF c, clips
<1>2. c \in Seq(Segments)
  BY <1>1 DEF Gathered
<1>3. Keeps(kept, c, Len(c))
  BY <1>2, MergeKeeps
<1> HIDE DEF kept
<1>4. kept \in Seq(Segments)
  BY <1>3 DEF Keeps
<1>5. Tells(text, kept)
  BY <1>4, JoinedTells
<1> HIDE DEF text
<1>6. \A x \in 1 .. Len(kept) : \E i \in 1 .. Len(c) : kept[x] = c[i]
  BY <1>3 DEF Keeps
<1>7. ASSUME NEW x \in 1 .. Len(kept)
      PROVE  \E j \in HeardIn(rec, clips) : IsPiece(kept[x], us[j])
  <2>1. PICK i \in 1 .. Len(c) : kept[x] = c[i]
    BY <1>6
  <2>2. PICK j \in DOMAIN us : \E clip \in clips : Audible(us[j], clip) /\ IsPiece(c[i], us[j])
    BY <1>1 DEF Gathered
  <2>3. j \in HeardIn(rec, clips) /\ IsPiece(kept[x], us[j])
    BY <2>1, <2>2 DEF HeardIn
  <2> QED
    BY <2>3
<1>8. ASSUME NEW j \in HeardIn(rec, clips)
      PROVE  \E x \in 1 .. Len(kept) : kept[x].text = us[j].text
  <2>1. PICK i \in 1 .. Len(c) : c[i].text = us[j].text
    BY <1>1 DEF Gathered, HeardIn
  <2>2. PICK x \in 1 .. Len(kept) : kept[x].text = c[i].text
    BY <1>3 DEF Keeps
  <2> QED
    BY <2>1, <2>2
<1>9. ToSet(text) = {us[j].text : j \in HeardIn(rec, clips)} \ {""}
  <2> DEFINE said == {kept[x].text : x \in 1 .. Len(kept)}
             words == {us[j].text : j \in HeardIn(rec, clips)}
  <2>1. ToSet(text) = said \ {""}
    BY <1>5 DEF Tells
  <2>2. ASSUME NEW w \in said PROVE w \in words
    <3>1. PICK x \in 1 .. Len(kept) : w = kept[x].text
      OBVIOUS
    <3>2. PICK j \in HeardIn(rec, clips) : IsPiece(kept[x], us[j])
      BY <1>7
    <3> QED
      BY <3>1, <3>2 DEF IsPiece
  <2>3. ASSUME NEW w \in words PROVE w \in said
    <3>1. PICK j \in HeardIn(rec, clips) : w = us[j].text
      OBVIOUS
    <3>2. PICK x \in 1 .. Len(kept) : kept[x].text = us[j].text
      BY <1>8
    <3> QED
      BY <3>1, <3>2
  <2> HIDE DEF said, words
  <2>4. said = words
    BY <2>2, <2>3
  <2> QED
    BY <2>1, <2>4 DEF words
<1>10. ASSUME NEW i \in DOMAIN us, NEW j \in DOMAIN us,
              SaidOnce(us[i], rec), SaidOnce(us[j], rec), us[i].end <= us[j].start,
              NEW a \in DOMAIN text, NEW b \in DOMAIN text,
              text[a] = us[i].text, text[b] = us[j].text
       PROVE  a < b
  <2>0. \A p1, q1 \in DOMAIN text : \E y, x \in 1 .. Len(kept) :
          /\ kept[y].text = text[p1] /\ kept[x].text = text[q1]
          /\ p1 < q1 => kept[y].start <= kept[x].start
    BY <1>5, Zenon DEF Tells
  <2>1. PICK y, x \in 1 .. Len(kept) :
          /\ kept[y].text = text[b] /\ kept[x].text = text[a]
          /\ b < a => kept[y].start <= kept[x].start
    BY <2>0
  <2>2. IsPiece(kept[x], us[i])
    <3>1. PICK l \in HeardIn(rec, clips) : IsPiece(kept[x], us[l])
      BY <1>7
    <3>2. l \in DOMAIN us /\ us[l].text = us[i].text
      BY <3>1, <2>1, <1>10 DEF IsPiece, HeardIn
    <3>3. i = l
      BY <3>2, <1>10, OnceIsOne
    <3> QED
      BY <3>1, <3>3
  <2>3. IsPiece(kept[y], us[j])
    <3>1. PICK l \in HeardIn(rec, clips) : IsPiece(kept[y], us[l])
      BY <1>7
    <3>2. l \in DOMAIN us /\ us[l].text = us[j].text
      BY <3>1, <2>1, <1>10 DEF IsPiece, HeardIn
    <3>3. j = l
      BY <3>2, <1>10, OnceIsOne
    <3> QED
      BY <3>1, <3>3
  <2>4. /\ kept[x].start \in Int /\ kept[x].end \in Int /\ kept[y].start \in Int
        /\ us[i].end \in Int /\ us[j].start \in Int /\ us[i].start \in Int
    <3>1. kept[x] \in Segments /\ kept[y] \in Segments
      BY <1>4
    <3>2. us[i] \in Segments /\ us[j] \in Segments
      BY DEF IsRecording
    <3> QED
      BY <3>1, <3>2 DEF Segments
  <2>5. kept[x].start < kept[y].start
    BY <2>2, <2>3, <2>4, <1>10 DEF IsPiece
  <2>6. ~(b < a)
    BY <2>1, <2>4, <2>5
  <2>7. a # b
    <3>1. SUFFICES ASSUME a = b PROVE FALSE
      OBVIOUS
    <3>2. us[j].text = us[i].text
      BY <3>1, <1>10
    <3>3. i = j
      BY <3>2, <1>10, OnceIsOne
    <3>4. us[i].start < us[i].end
      BY DEF IsRecording
    <3> QED
      BY <3>3, <3>4, <2>4, <1>10
  <2>8. a \in Int /\ b \in Int
    <3>1. PICK m \in Nat : DOMAIN text = 1 .. m
      BY <1>5 DEF Tells
    <3> QED
      BY <3>1
  <2> QED
    BY <2>6, <2>7, <2>8
<1> QED
  BY <1>9, <1>10 DEF Transcribes, WordsOf, text, kept, c, clips

\* With one more chunk, nothing that was heard is lost.
LEMMA LaterHearsMore ==
  ASSUME NEW rec, NEW p, NEW k \in Nat
  PROVE  WordsOf(rec, First(p, k)) \subseteq WordsOf(rec, First(p, k + 1))
<1>1. First(p, k) \subseteq First(p, k + 1)
  BY DEF First
<1>2. HeardIn(rec, First(p, k)) \subseteq HeardIn(rec, First(p, k + 1))
  BY <1>1 DEF HeardIn
<1> QED
  BY <1>2 DEF WordsOf

\* All the chunks together hear all there is.
LEMMA AllHearAll ==
  ASSUME NEW rec, IsRecording(rec), NEW p, NEW n, IsPlan(p, n, rec.total)
  PROVE  WordsOf(rec, First(p, n)) = Spoken(rec.utterances)
<1>1. ASSUME NEW i \in DOMAIN rec.utterances
      PROVE  i \in HeardIn(rec, First(p, n))
  <2> DEFINE u == rec.utterances[i]
  <2>1. u \in Segments /\ 0 <= u.start /\ u.start < u.end /\ u.end <= rec.total
    BY DEF IsRecording
  <2>2. rec.total \in Nat
    BY DEF IsRecording
  <2> HIDE DEF u
  <2>3. PICK k \in 1 .. n : Audible(u, p[k])
    BY <2>1, <2>2, PlanCovers
  <2> QED
    BY <2>3 DEF HeardIn, First, u
<1>2. HeardIn(rec, First(p, n)) = DOMAIN rec.utterances
  BY <1>1 DEF HeardIn
<1> QED
  BY <1>2 DEF WordsOf, Spoken

\* The results r of a plan: one for each chunk, partial but the last.
TellsOfPlan(r, p, rec) ==
  /\ IsPlan(p, Len(p), rec.total)
  /\ DOMAIN r = 1 .. Len(p) /\ Len(r) = Len(p)
  /\ \A k \in 1 .. Len(p) :
       /\ Transcribes(r[k].text, rec, First(p, k))
       /\ r[k].partial <=> k < Len(p)
       /\ r[k].progress = (1000 * p[k].to) \div rec.total

TellsNothing(r) ==
  Len(r) = 1 /\ DOMAIN r = {1} /\ DOMAIN r[1].text = {} /\ ~r[1].partial

\* What transcribe_realtime yields of a recording that lasts.
LEMMA YieldsTell ==
  ASSUME NEW rec, IsRecording(rec), rec.total > 0,
         NEW chunk \in Nat \ {0}, NEW overlap \in Int
  PROVE  TellsOfPlan(Yields(rec, chunk, overlap, "none"),
                     PlanChunks(rec.total, chunk, overlap), rec)
<1> DEFINE p == PlanChunks(rec.total, chunk, overlap)
           n == Len(p)
           r == Yields(rec, chunk, overlap, "none")
           merged(k) == Merge(Collected(rec, p, k))
<1>1. rec.total \in Nat \ {0}
  BY DEF IsRecording
<1>2. IsPlan(p, n, rec.total)
  <2> DEFINE t == rec.total
  <2>1. t \in Nat \ {0}
    BY <1>1
  <2> HIDE DEF t
  <2>2. IsPlan(PlanChunks(t, chunk, overlap), Len(PlanChunks(t, chunk, overlap)), t)
    BY <2>1, ChunksArePlan
  <2> QED
    BY <2>2 DEF t
<1>3. r = IF p = <<>>
     THEN <<[text |-> <<>>, language |-> "none", confidence |-> 0, partial |-> FALSE,
             progress |-> 0]>>
     ELSE [k \in DOMAIN p |->
             [text |-> JoinText(merged(k)),
              language |-> NormalizeLanguage(rec.language, "none"),
              confidence |-> AggregateConfidence(merged(k)),
              partial |-> k < Len(p),
              progress |-> (1000 * p[k].to) \div rec.total]]
  BY DEF Yields
<1> HIDE DEF p, r
<1>4. n \in Nat \ {0} /\ DOMAIN p = 1 .. n /\ p # <<>>
  BY <1>2 DEF IsPlan
<1>5. DOMAIN r = 1 .. n /\ Len(r) = n
  BY <1>3, <1>4
<1> HIDE DEF n, merged
<1>6. \A k \in 1 .. n : /\ r[k].text = JoinText(merged(k))
                        /\ r[k].partial <=> k < Len(p)
                        /\ r[k].progress = (1000 * p[k].to) \div rec.total
  BY <1>3, <1>4
<1>7. ASSUME NEW k \in 1 .. n
      PROVE  Transcribes(r[k].text, rec, First(p, k))
  <2>1. k \in Nat /\ \A j \in 1 .. k : j \in 1 .. n
    BY <1>4
  <2>2. \A j \in 1 .. k : p[j] \in Chunks /\ p[j].from < p[j].to
    BY <2>1, <1>2 DEF IsPlan
  <2>3. Transcribes(JoinText(Merge(Collected(rec, p, k))), rec, First(p, k))
    BY <2>1, <2>2, ToldOfChunks
  <2> QED
    BY <2>3, <1>6 DEF merged
<1> QED
  <2>1. TellsOfPlan(r, p, rec)
    BY <1>2, <1>5, <1>6, <1>7 DEF TellsOfPlan, n
  <2> QED
    BY <2>1 DEF p, r

\* A recording of no length: one result, with nothing in it.
LEMMA YieldsNothing ==
  ASSUME NEW rec, rec.total = 0, NEW chunk, NEW overlap
  PROVE  /\ Len(PlanChunks(rec.total, chunk, overlap)) = 0
         /\ TellsNothing(Yields(rec, chunk, overlap, "none"))
<1>1. Count(rec.total, chunk, overlap) = 0
  BY DEF Count
<1>2. PlanChunks(rec.total, chunk, overlap) = <<>>
  BY <1>1 DEF PlanChunks
<1> QED
  BY <1>2 DEF Yields, TellsNothing

-----------------------------------------------------------------------------
(***************************************************************************)
(* Word error rate: the distance is the least number of edits.             *)
(***************************************************************************)

\* The distances of all pairs of prefixes.
IsDistance(d, ref, hyp) ==
  /\ d \in [(0 .. Len(ref)) \X (0 .. Len(hyp)) -> Nat]
  /\ \A p \in (0 .. Len(ref)) \X (0 .. Len(hyp)) : d[p] = Edits(d, ref, hyp, p)

PrefixPairs(n, m) == (0 .. n) \X (0 .. m)

\* Edits looks at shorter prefixes only.
LEMMA EditsOfShorter ==
  ASSUME NEW n \in Nat, NEW m \in Nat, NEW ref, NEW hyp, NEW k \in Nat, NEW d, NEW e,
         \A p \in PrefixPairs(n, m) : p[1] + p[2] <= k => d[p] = e[p] /\ d[p] \in Nat,
         NEW p \in PrefixPairs(n, m), p[1] + p[2] <= k + 1
  PROVE  Edits(d, ref, hyp, p) = Edits(e, ref, hyp, p) /\ Edits(d, ref, hyp, p) \in Nat
<1> DEFINE i == p[1]
           j == p[2]
<1>1. i \in 0 .. n /\ j \in 0 .. m
  BY DEF PrefixPairs
<1>2. CASE i = 0 \/ j = 0
  BY <1>1, <1>2 DEF Edits
<1>3. CASE i # 0 /\ j # 0
  <2> DEFINE a == <<i - 1, j>>
             b == <<i, j - 1>>
             c == <<i - 1, j - 1>>
  <2>1. /\ a \in PrefixPairs(n, m) /\ a[1] + a[2] <= k
        /\ b \in PrefixPairs(n, m) /\ b[1] + b[2] <= k
        /\ c \in PrefixPairs(n, m) /\ c[1] + c[2] <= k
    BY <1>1, <1>3 DEF PrefixPairs
  <2>2. /\ d[a] = e[a] /\ d[b] = e[b] /\ d[c] = e[c]
        /\ d[a] \in Nat /\ d[b] \in Nat /\ d[c] \in Nat
    BY <2>1
  <2> DEFINE cost == IF ref[i] = hyp[j] THEN 0 ELSE 1
  <2>3. /\ Edits(d, ref, hyp, p) = Smallest(Smallest(d[a] + 1, d[b] + 1), d[c] + cost)
        /\ Edits(e, ref, hyp, p) = Smallest(Smallest(e[a] + 1, e[b] + 1), e[c] + cost)
    BY <1>3 DEF Edits
  <2>4. cost \in Nat
    OBVIOUS
  <2> HIDE DEF a, b, c, cost
  <2> QED
    BY <2>2, <2>3, <2>4 DEF Smallest
<1> QED
  BY <1>2, <1>3

IsTable(d, n, m, ref, hyp) == d = [p \in PrefixPairs(n, m) |-> Edits(d, ref, hyp, p)]

\* What _levenshtein_words fills in, row by row, exists and is the distance.
LEMMA DistanceExists ==
  ASSUME NEW n \in Nat, NEW m \in Nat, NEW ref, NEW hyp
  PROVE  \E d : IsTable(d, n, m, ref, hyp)
<1> DEFINE S == PrefixPairs(n, m)
           Upto(f, k) == \A p \in S : p[1] + p[2] <= k => f[p] = Edits(f, ref, hyp, p)
           T == {k \in Nat : \E f \in [S -> Nat] : Upto(f, k)}
<1>0. \A p \in S : p[1] \in 0 .. n /\ p[2] \in 0 .. m
  BY DEF PrefixPairs
<1>1. 0 \in T
  <2> DEFINE f == [p \in S |-> 0]
  <2>1. f \in [S -> Nat]
    OBVIOUS
  <2>2. ASSUME NEW p \in S, p[1] + p[2] <= 0 PROVE f[p] = Edits(f, ref, hyp, p)
    <3>1. p[1] = 0 /\ p[2] = 0
      BY <1>0, <2>2
    <3> QED
      BY <3>1 DEF Edits
  <2> HIDE DEF f
  <2> QED
    BY <2>1, <2>2
<1>2. ASSUME NEW k \in T, k \in Nat PROVE k + 1 \in T
  <2>1. PICK f \in [S -> Nat] : Upto(f, k)
    OBVIOUS
  <2> DEFINE g == [p \in S |-> IF p[1] + p[2] <= k + 1 THEN Edits(f, ref, hyp, p) ELSE 0]
  <2> HIDE DEF S
  <2>2. \A p \in S : p[1] + p[2] <= k => g[p] = f[p]
    BY <1>0, <1>2, <2>1
  <2>3. \A p \in S : p[1] + p[2] <= k => f[p] = g[p] /\ f[p] \in Nat
    BY <2>2
  <2>4. ASSUME NEW p \in S, p[1] + p[2] <= k + 1
        PROVE  /\ Edits(f, ref, hyp, p) = Edits(g, ref, hyp, p)
               /\ Edits(f, ref, hyp, p) \in Nat
    <3> HIDE DEF g
    <3> QED
      BY <2>3, <2>4, <1>2, EditsOfShorter DEF S
  <2>5. g \in [S -> Nat]
    BY <2>4
  <2>6. \A p \in S : p[1] + p[2] <= k + 1 => g[p] = Edits(g, ref, hyp, p)
    <3> SUFFICES ASSUME NEW p \in S, p[1] + p[2] <= k + 1 PROVE g[p] = Edits(g, ref, hyp, p)
      OBVIOUS
    <3>1. g[p] = Edits(f, ref, hyp, p)
      OBVIOUS
    <3> HIDE DEF g
    <3> QED
      BY <3>1, <2>4
  <2> HIDE DEF g
  <2> QED
    BY <2>5, <2>6, <1>2
<1> HIDE DEF T
<1>3. n + m \in T
  BY <1>1, <1>2, SetInduction
<1>4. PICK f \in [S -> Nat] : Upto(f, n + m)
  BY <1>3 DEF T
<1> HIDE DEF S
<1>5. \A p \in S : f[p] = Edits(f, ref, hyp, p)
  BY <1>0, <1>4
<1>6. f = [p \in S |-> Edits(f, ref, hyp, p)]
  BY <1>5
<1> QED
  BY <1>6 DEF S, IsTable

\* EditDistance is the last of the distances.
LEMMA EditDistanceIs ==
  ASSUME NEW ref \in Seq(STRING), NEW hyp \in Seq(STRING)
  PROVE  \E d : IsDistance(d, ref, hyp) /\ EditDistance(ref, hyp) = d[<<Len(ref), Len(hyp)>>]
<1> DEFINE n == Len(ref)
           m == Len(hyp)
           S == PrefixPairs(n, m)
           d == CHOOSE d : d = [p \in S |-> Edits(d, ref, hyp, p)]
<1>0. n \in Nat /\ m \in Nat
  OBVIOUS
<1>1. EditDistance(ref, hyp) = d[<<n, m>>]
  BY DEF EditDistance, PrefixPairs
<1> HIDE DEF n, m
<1>2. d = [p \in S |-> Edits(d, ref, hyp, p)]
  <2>1. PICK e : IsTable(e, n, m, ref, hyp)
    BY <1>0, DistanceExists
  <2>2. e = [p \in S |-> Edits(e, ref, hyp, p)]
    BY <2>1 DEF IsTable
  <2> HIDE DEF S
  <2> QED
    BY <2>2
<1> HIDE DEF d
<1>3. \A p \in S : d[p] = Edits(d, ref, hyp, p)
  <2> HIDE DEF S
  <2> QED
    BY <1>2
<1>4. \A p \in S : p[1] \in 0 .. n /\ p[2] \in 0 .. m
  BY DEF PrefixPairs
<1> DEFINE T == {k \in Nat : \A p \in S : p[1] + p[2] <= k => d[p] \in Nat}
<1>5. 0 \in T
  <2>1. ASSUME NEW p \in S, p[1] + p[2] <= 0 PROVE d[p] \in Nat
    <3>1. p[1] = 0 /\ p[2] = 0
      BY <1>0, <1>4, <2>1
    <3>2. Edits(d, ref, hyp, p) = 0
      BY <3>1 DEF Edits
    <3> QED
      BY <3>2, <1>3
  <2> QED
    BY <2>1
<1>6. ASSUME NEW k \in T, k \in Nat PROVE k + 1 \in T
  <2>1. \A p \in S : p[1] + p[2] <= k => d[p] = d[p] /\ d[p] \in Nat
    OBVIOUS
  <2>2. ASSUME NEW p \in S, p[1] + p[2] <= k + 1 PROVE Edits(d, ref, hyp, p) \in Nat
    BY <2>1, <2>2, <1>0, <1>6, EditsOfShorter
  <2> QED
    BY <2>2, <1>3, <1>6
<1> HIDE DEF T
<1>7. n + m \in T
  BY <1>0, <1>5, <1>6, SetInduction
<1>8. \A p \in S : d[p] \in Nat
  BY <1>0, <1>4, <1>7 DEF T
<1>9. d \in [S -> Nat]
  <2> HIDE DEF S
  <2> QED
    BY <1>2, <1>3, <1>8
<1> QED
  BY <1>1, <1>3, <1>9 DEF IsDistance, PrefixPairs, n, m

\* The pairs of an alignment that differ, and the cost of one pair.
Missed(a, ref, hyp) == {p \in a : ref[p[1]] # hyp[p[2]]}

Miss(ref, hyp, i, j) == IF ref[i] = hyp[j] THEN 0 ELSE 1

\* The cost of an alignment of the first i and the first j words.
CostTo(a, ref, hyp, i, j) ==
  i + j - 2 * Cardinality(a) + Cardinality(Missed(a, ref, hyp))

\* Alignments are finite.
LEMMA AlignmentIsFinite ==
  ASSUME NEW i \in Nat, NEW j \in Nat, NEW a \in Alignments(i, j), NEW ref, NEW hyp
  PROVE  /\ IsFiniteSet(a) /\ Cardinality(a) \in Nat
         /\ IsFiniteSet(Missed(a, ref, hyp)) /\ Cardinality(Missed(a, ref, hyp)) \in Nat
         /\ CostTo(a, ref, hyp, i, j) \in Int
<1> DEFINE b == Missed(a, ref, hyp)
<1>1. IsFiniteSet((1 .. i) \X (1 .. j))
  <2>1. IsFiniteSet(1 .. i) /\ IsFiniteSet(1 .. j)
    BY FiniteDomain
  <2> QED
    BY <2>1, FS_Product
<1>2. a \subseteq (1 .. i) \X (1 .. j) /\ b \subseteq a
  BY DEF Alignments, Missed
<1>3. IsFiniteSet(a)
  BY <1>1, <1>2, FS_Subset
<1>4. IsFiniteSet(b)
  BY <1>2, <1>3, FS_Subset
<1>5. Cardinality(a) \in Nat /\ Cardinality(b) \in Nat
  BY <1>3, <1>4, FS_CardinalityType
<1> HIDE DEF b
<1>6. CostTo(a, ref, hyp, i, j) = i + j - 2 * Cardinality(a) + Cardinality(b)
  BY DEF CostTo, b
<1>7. CostTo(a, ref, hyp, i, j) \in Int
  BY <1>5, <1>6
<1> QED
  BY <1>3, <1>4, <1>5, <1>7 DEF b

\* A pair more, at the end of both.
LEMMA PairAdded ==
  ASSUME NEW i \in Nat \ {0}, NEW j \in Nat \ {0}, NEW b \in Alignments(i - 1, j - 1),
         NEW ref, NEW hyp
  PROVE  /\ b \cup {<<i, j>>} \in Alignments(i, j)
         /\ CostTo(b \cup {<<i, j>>}, ref, hyp, i, j) =
              CostTo(b, ref, hyp, i - 1, j - 1) + Miss(ref, hyp, i, j)
<1> DEFINE a == b \cup {<<i, j>>}
           x == <<i, j>>
           ma == Missed(a, ref, hyp)
           mb == Missed(b, ref, hyp)
<1>0. i - 1 \in Nat /\ j - 1 \in Nat
  OBVIOUS
<1>1. \A p \in b : p[1] \in 1 .. i - 1 /\ p[2] \in 1 .. j - 1 /\ p \in (1 .. i) \X (1 .. j)
  BY DEF Alignments
<1>2. x \notin b /\ x[1] = i /\ x[2] = j /\ x \in (1 .. i) \X (1 .. j)
  BY <1>1
<1>3. a \in Alignments(i, j)
  <2>1. a \subseteq (1 .. i) \X (1 .. j)
    BY <1>1, <1>2
  <2>2. ASSUME NEW p \in a, NEW q \in a
        PROVE  (p[1] < q[1] <=> p[2] < q[2]) /\ (p[1] = q[1] <=> p[2] = q[2])
    <3>1. CASE p \in b /\ q \in b
      BY <3>1 DEF Alignments
    <3>2. CASE p \in b /\ q = x
      BY <3>2, <1>1, <1>2
    <3>3. CASE p = x /\ q \in b
      BY <3>3, <1>1, <1>2
    <3>4. CASE p = x /\ q = x
      BY <3>4, <1>2
    <3> QED
      BY <3>1, <3>2, <3>3, <3>4
  <2> HIDE DEF a
  <2> QED
    BY <2>1, <2>2 DEF Alignments
<1>4. /\ IsFiniteSet(b) /\ Cardinality(b) \in Nat /\ IsFiniteSet(mb) /\ Cardinality(mb) \in Nat
  BY <1>0, AlignmentIsFinite
<1>5. Cardinality(a) = Cardinality(b) + 1
  BY <1>2, <1>4, FS_AddElement
<1>6. ASSUME ref[i] = hyp[j]
      PROVE  CostTo(a, ref, hyp, i, j) = CostTo(b, ref, hyp, i - 1, j - 1) + Miss(ref, hyp, i, j)
  <2>1. ma = mb
    BY <1>2, <1>6 DEF Missed
  <2> HIDE DEF a
  <2> QED
    BY <1>3, <1>4, <1>5, <1>6, <2>1 DEF CostTo, Miss
<1>7. ASSUME ref[i] # hyp[j]
      PROVE  CostTo(a, ref, hyp, i, j) = CostTo(b, ref, hyp, i - 1, j - 1) + Miss(ref, hyp, i, j)
  <2>1. ma = mb \cup {x} /\ x \notin mb
    BY <1>2, <1>7 DEF Missed
  <2>2. Cardinality(ma) = Cardinality(mb) + 1
    BY <2>1, <1>4, FS_AddElement
  <2> HIDE DEF a
  <2> QED
    BY <1>3, <1>4, <1>5, <1>7, <2>2 DEF CostTo, Miss
<1>8. CostTo(a, ref, hyp, i, j) = CostTo(b, ref, hyp, i - 1, j - 1) + Miss(ref, hyp, i, j)
  BY <1>6, <1>7
<1> QED
  BY <1>3, <1>8

\* An alignment is of the pair before the last words, or leaves one of them out.
LEMMA AlignmentSplits ==
  ASSUME NEW i \in Nat \ {0}, NEW j \in Nat \ {0}, NEW a \in Alignments(i, j)
  PROVE  \/ a \in Alignments(i - 1, j)
         \/ a \in Alignments(i, j - 1)
         \/ <<i, j>> \in a /\ a \ {<<i, j>>} \in Alignments(i - 1, j - 1)
<1>1. \A p \in a : p[1] \in 1 .. i /\ p[2] \in 1 .. j /\ p = <<p[1], p[2]>>
  BY DEF Alignments
<1>2. \A p, q \in a : (p[1] < q[1] <=> p[2] < q[2]) /\ (p[1] = q[1] <=> p[2] = q[2])
  BY DEF Alignments
<1>3. CASE \A p \in a : p[1] # i
  <2>1. \A p \in a : p[1] \in 1 .. i - 1 /\ p[2] \in 1 .. j /\ p = <<p[1], p[2]>>
    BY <1>1, <1>3
  <2>2. a \subseteq (1 .. i - 1) \X (1 .. j)
    BY <2>1
  <2> QED
    BY <1>2, <2>2 DEF Alignments
<1>4. CASE \A p \in a : p[2] # j
  <2>1. \A p \in a : p[1] \in 1 .. i /\ p[2] \in 1 .. j - 1 /\ p = <<p[1], p[2]>>
    BY <1>1, <1>4
  <2>2. a \subseteq (1 .. i) \X (1 .. j - 1)
    BY <2>1
  <2> QED
    BY <1>2, <2>2 DEF Alignments
<1>5. CASE (\E p \in a : p[1] = i) /\ (\E p \in a : p[2] = j)
  <2>1. PICK q \in a : q[1] = i
    BY <1>5
  <2>2. PICK r \in a : r[2] = j
    BY <1>5
  <2>3. q[2] = j
    BY <2>1, <2>2, <1>1, <1>2
  <2>4. <<i, j>> \in a
    BY <2>1, <2>3, <1>1
  <2> DEFINE b == a \ {<<i, j>>}
  <2>5. \A p \in b : p[1] # i /\ p[2] # j
    <3>1. ASSUME NEW p \in b, p[1] = i \/ p[2] = j PROVE FALSE
      <4>1. p[1] = i /\ p[2] = j
        BY <3>1, <2>1, <2>3, <1>2
      <4> QED
        BY <4>1, <1>1
    <3> QED
      BY <3>1
  <2>6. \A p \in b : p[1] \in 1 .. i - 1 /\ p[2] \in 1 .. j - 1 /\ p = <<p[1], p[2]>>
    BY <2>5, <1>1
  <2>7. b \subseteq (1 .. i - 1) \X (1 .. j - 1)
    BY <2>6
  <2>8. \A p, q1 \in b : (p[1] < q1[1] <=> p[2] < q1[2]) /\ (p[1] = q1[1] <=> p[2] = q1[2])
    BY <1>2
  <2> HIDE DEF b
  <2>9. b \in Alignments(i - 1, j - 1)
    BY <2>7, <2>8 DEF Alignments
  <2> QED
    BY <2>4, <2>9 DEF b
<1> QED
  BY <1>3, <1>4, <1>5

\* An alignment of fewer words is one of more, and leaves those out.
LEMMA AlignmentGrows ==
  ASSUME NEW i \in Nat, NEW j \in Nat, NEW k \in Nat, NEW l \in Nat, i <= k, j <= l,
         NEW a \in Alignments(i, j), NEW ref, NEW hyp
  PROVE  /\ a \in Alignments(k, l)
         /\ CostTo(a, ref, hyp, k, l) = CostTo(a, ref, hyp, i, j) + (k - i) + (l - j)
<1>1. a \in Alignments(k, l)
  <2>1. (1 .. i) \X (1 .. j) \subseteq (1 .. k) \X (1 .. l)
    OBVIOUS
  <2> QED
    BY <2>1 DEF Alignments
<1>2. Cardinality(a) \in Nat /\ Cardinality(Missed(a, ref, hyp)) \in Nat
  BY AlignmentIsFinite
<1> QED
  BY <1>1, <1>2 DEF CostTo

\* d[<<i, j>>] is the cost of the cheapest alignment.
Cheapest(d, ref, hyp, i, j) ==
  /\ \A a \in Alignments(i, j) : d[<<i, j>>] <= CostTo(a, ref, hyp, i, j)
  /\ \E a \in Alignments(i, j) : d[<<i, j>>] = CostTo(a, ref, hyp, i, j)

\* One cell of the table from its three neighbours.
LEMMA CheapestStep ==
  ASSUME NEW ref \in Seq(STRING), NEW hyp \in Seq(STRING), NEW d, IsDistance(d, ref, hyp),
         NEW i \in 1 .. Len(ref), NEW j \in 1 .. Len(hyp),
         Cheapest(d, ref, hyp, i - 1, j), Cheapest(d, ref, hyp, i, j - 1),
         Cheapest(d, ref, hyp, i - 1, j - 1)
  PROVE  Cheapest(d, ref, hyp, i, j)
<1> DEFINE x == <<i, j>>
           cost == Miss(ref, hyp, i, j)
           da == d[<<i - 1, j>>]
           db == d[<<i, j - 1>>]
           dc == d[<<i - 1, j - 1>>]
<1>1. i \in Nat \ {0} /\ j \in Nat \ {0} /\ i - 1 \in Nat /\ j - 1 \in Nat
  OBVIOUS
<1>2. da \in Nat /\ db \in Nat /\ dc \in Nat
  BY <1>1 DEF IsDistance
<1>3. d[x] = Smallest(Smallest(da + 1, db + 1), dc + cost)
  <2>1. x \in (0 .. Len(ref)) \X (0 .. Len(hyp)) /\ x[1] = i /\ x[2] = j
    BY <1>1
  <2>2. d[x] = Edits(d, ref, hyp, x)
    BY <2>1 DEF IsDistance
  <2> QED
    BY <1>1, <2>1, <2>2 DEF Edits, Miss
<1>4. cost \in Nat
  BY DEF Miss
<1> HIDE DEF da, db, dc, cost, x
<1>5. /\ d[x] \in Nat /\ d[x] <= da + 1 /\ d[x] <= db + 1 /\ d[x] <= dc + cost
      /\ d[x] = da + 1 \/ d[x] = db + 1 \/ d[x] = dc + cost
  BY <1>2, <1>3, <1>4 DEF Smallest
<1>6. ASSUME NEW a \in Alignments(i, j)
      PROVE  d[x] <= CostTo(a, ref, hyp, i, j)
  <2>1. CASE a \in Alignments(i - 1, j)
    <3>1. CostTo(a, ref, hyp, i, j) = CostTo(a, ref, hyp, i - 1, j) + (i - (i - 1)) + (j - j)
      BY <1>1, <2>1, AlignmentGrows
    <3>2. da <= CostTo(a, ref, hyp, i - 1, j) /\ CostTo(a, ref, hyp, i - 1, j) \in Int
      BY <1>1, <2>1, AlignmentIsFinite DEF Cheapest, da
    <3> QED
      BY <3>1, <3>2, <1>1, <1>2, <1>5
  <2>2. CASE a \in Alignments(i, j - 1)
    <3>1. CostTo(a, ref, hyp, i, j) = CostTo(a, ref, hyp, i, j - 1) + (i - i) + (j - (j - 1))
      BY <1>1, <2>2, AlignmentGrows
    <3>2. db <= CostTo(a, ref, hyp, i, j - 1) /\ CostTo(a, ref, hyp, i, j - 1) \in Int
      BY <1>1, <2>2, AlignmentIsFinite DEF Cheapest, db
    <3> QED
      BY <3>1, <3>2, <1>1, <1>2, <1>5
  <2>3. CASE x \in a /\ a \ {x} \in Alignments(i - 1, j - 1)
    <3> DEFINE b == a \ {x}
    <3>1. a = b \cup {x}
      BY <2>3
    <3>2. b \in Alignments(i - 1, j - 1)
      BY <2>3
    <3> HIDE DEF b
    <3>3. CostTo(b \cup {<<i, j>>}, ref, hyp, i, j) = CostTo(b, ref, hyp, i - 1, j - 1) + cost
      BY <1>1, <3>2, PairAdded DEF cost
    <3>4. dc <= CostTo(b, ref, hyp, i - 1, j - 1) /\ CostTo(b, ref, hyp, i - 1, j - 1) \in Int
      BY <1>1, <3>2, AlignmentIsFinite DEF Cheapest, dc
    <3> QED
      BY <3>1, <3>3, <3>4, <1>2, <1>4, <1>5 DEF x
  <2> QED
    BY <1>1, <2>1, <2>2, <2>3, AlignmentSplits DEF x
<1>7. \E a \in Alignments(i, j) : d[x] = CostTo(a, ref, hyp, i, j)
  <2>1. CASE d[x] = da + 1
    <3>1. PICK a \in Alignments(i - 1, j) : da = CostTo(a, ref, hyp, i - 1, j)
      BY DEF Cheapest, da
    <3>2. /\ a \in Alignments(i, j)
          /\ CostTo(a, ref, hyp, i, j) = CostTo(a, ref, hyp, i - 1, j) + (i - (i - 1)) + (j - j)
      BY <1>1, AlignmentGrows
    <3> QED
      BY <3>1, <3>2, <2>1, <1>1, <1>2
  <2>2. CASE d[x] = db + 1
    <3>1. PICK a \in Alignments(i, j - 1) : db = CostTo(a, ref, hyp, i, j - 1)
      BY DEF Cheapest, db
    <3>2. /\ a \in Alignments(i, j)
          /\ CostTo(a, ref, hyp, i, j) = CostTo(a, ref, hyp, i, j - 1) + (i - i) + (j - (j - 1))
      BY <1>1, AlignmentGrows
    <3> QED
      BY <3>1, <3>2, <2>2, <1>1, <1>2
  <2>3. CASE d[x] = dc + cost
    <3>1. PICK b \in Alignments(i - 1, j - 1) : dc = CostTo(b, ref, hyp, i - 1, j - 1)
      BY DEF Cheapest, dc
    <3> DEFINE a == b \cup {<<i, j>>}
    <3>2. /\ a \in Alignments(i, j)
          /\ CostTo(a, ref, hyp, i, j) = CostTo(b, ref, hyp, i - 1, j - 1) + cost
      BY <1>1, PairAdded DEF cost
    <3> QED
      BY <3>1, <3>2, <2>3
  <2> QED
    BY <1>5, <2>1, <2>2, <2>3
<1> QED
  BY <1>6, <1>7 DEF Cheapest, x

\* Of no words there is one alignment.
LEMMA CheapestOfNone ==
  ASSUME NEW ref \in Seq(STRING), NEW hyp \in Seq(STRING), NEW d, IsDistance(d, ref, hyp),
         NEW i \in 0 .. Len(ref), NEW j \in 0 .. Len(hyp), i = 0 \/ j = 0
  PROVE  Cheapest(d, ref, hyp, i, j)
<1>1. Alignments(i, j) = {{}}
  <2>1. (1 .. i) \X (1 .. j) = {}
    OBVIOUS
  <2>2. {} \in Alignments(i, j)
    BY DEF Alignments
  <2>3. \A a \in Alignments(i, j) : a = {}
    BY <2>1 DEF Alignments
  <2> QED
    BY <2>2, <2>3
<1>2. CostTo({}, ref, hyp, i, j) = i + j
  <2>1. Missed({}, ref, hyp) = {}
    BY DEF Missed
  <2>2. Cardinality({}) = 0
    BY FS_EmptySet
  <2>3. Cardinality(Missed({}, ref, hyp)) = 0
    BY <2>1, <2>2, Zenon
  <2>4. CostTo({}, ref, hyp, i, j) = i + j - 2 * Cardinality({}) + Cardinality(Missed({}, ref, hyp))
    BY DEF CostTo
  <2> QED
    BY <2>2, <2>3, <2>4
<1>3. d[<<i, j>>] = i + j
  <2>1. d[<<i, j>>] = Edits(d, ref, hyp, <<i, j>>)
    BY DEF IsDistance
  <2> DEFINE p == <<i, j>>
  <2>2. p[1] = i /\ p[2] = j
    OBVIOUS
  <2> HIDE DEF p
  <2>3. Edits(d, ref, hyp, p) = i + j
    BY <2>2 DEF Edits
  <2> QED
    BY <2>1, <2>3 DEF p
<1> QED
  BY <1>1, <1>2, <1>3 DEF Cheapest

\* The edit distance is the least cost of an alignment.
LEMMA EditDistanceIsLeast ==
  ASSUME NEW ref \in Seq(STRING), NEW hyp \in Seq(STRING)
  PROVE  EditDistance(ref, hyp) = Min(Costs(ref, hyp)) /\ EditDistance(ref, hyp) \in Nat
<1> DEFINE n == Len(ref)
           m == Len(hyp)
           costs == {Cost(a, ref, hyp) : a \in Alignments(n, m)}
           S == PrefixPairs(n, m)
<1>0. n \in Nat /\ m \in Nat
  OBVIOUS
<1>1. PICK d : IsDistance(d, ref, hyp) /\ EditDistance(ref, hyp) = d[<<n, m>>]
  BY EditDistanceIs
<1> DEFINE T == {k \in Nat : \A i \in 0 .. n, j \in 0 .. m :
                   i + j <= k => Cheapest(d, ref, hyp, i, j)}
<1>2. 0 \in T
  <2>1. ASSUME NEW i \in 0 .. n, NEW j \in 0 .. m, i + j <= 0
        PROVE  Cheapest(d, ref, hyp, i, j)
    <3>1. i = 0
      BY <2>1, <1>0
    <3> QED
      BY <3>1, <1>1, CheapestOfNone
  <2> QED
    BY <2>1
<1>3. ASSUME NEW k \in T, k \in Nat PROVE k + 1 \in T
  <2>1. ASSUME NEW i \in 0 .. n, NEW j \in 0 .. m, i + j <= k + 1
        PROVE  Cheapest(d, ref, hyp, i, j)
    <3>1. CASE i = 0 \/ j = 0
      BY <3>1, <1>1, CheapestOfNone
    <3>2. CASE i # 0 /\ j # 0
      <4>1. /\ i \in 1 .. n /\ j \in 1 .. m /\ i - 1 \in 0 .. n /\ j - 1 \in 0 .. m
            /\ (i - 1) + j <= k /\ i + (j - 1) <= k /\ (i - 1) + (j - 1) <= k
        BY <3>2, <2>1, <1>0, <1>3
      <4>2. /\ Cheapest(d, ref, hyp, i - 1, j) /\ Cheapest(d, ref, hyp, i, j - 1)
            /\ Cheapest(d, ref, hyp, i - 1, j - 1)
        BY <4>1, <1>3
      <4> QED
        BY <4>1, <4>2, <1>1, CheapestStep
    <3> QED
      BY <3>1, <3>2
  <2> QED
    BY <2>1, <1>3
<1> HIDE DEF T
<1>4. n + m \in T
  BY <1>0, <1>2, <1>3, SetInduction
<1>5. Cheapest(d, ref, hyp, n, m)
  BY <1>0, <1>4 DEF T
<1>6. d[<<n, m>>] \in Nat
  BY <1>0, <1>1 DEF IsDistance
<1>7. \A a \in Alignments(n, m) : Cost(a, ref, hyp) = CostTo(a, ref, hyp, n, m)
  BY DEF Cost, CostTo, Missed
<1> HIDE DEF n, m
<1>8. d[<<n, m>>] \in costs /\ \A c \in costs : d[<<n, m>>] <= c
  BY <1>5, <1>7 DEF Cheapest
<1>9. costs \in SUBSET Int
  <2>1. ASSUME NEW a \in Alignments(n, m) PROVE Cost(a, ref, hyp) \in Int
    BY <1>0, <1>7, AlignmentIsFinite
  <2> QED
    BY <2>1
<1> HIDE DEF costs
<1>10. Min(costs) = d[<<n, m>>]
  BY <1>6, <1>8, <1>9, MinIs
<1> QED
  BY <1>1, <1>6, <1>10 DEF Costs, costs, n, m

\* A rate of more is no lower.
LEMMA RateMonotone ==
  ASSUME NEW m \in Nat, NEW c \in Nat \ {0}, NEW n \in Nat, NEW d \in Nat \ {0}, m * d <= n * c
  PROVE  Rate(m, c) <= Rate(n, d) /\ Rate(m, c) \in Int /\ Rate(n, d) \in Int
<1> DEFINE a == 10000 * m
           b == 10000 * n
           x == a * d
           y == b * c
           e == c * d
<1>1. a \in Nat /\ b \in Nat /\ x \in Nat /\ y \in Nat /\ e \in Nat \ {0}
  BY SMT
<1>2. x <= y
  <2>1. x = 10000 * (m * d) /\ y = 10000 * (n * c) /\ m * d \in Nat /\ n * c \in Nat
    BY SMT
  <2> QED
    BY <2>1, SMT
<1>3. Rate(m, c) = Round(a, c) /\ Rate(n, d) = Round(b, d)
  BY DEF Rate
<1> HIDE DEF a, b
<1>4. Round(a * d, c * d) = Round(a, c)
  <2>1. a \in Int
    BY <1>1
  <2> HIDE DEF x, y, e
  <2> QED
    BY <2>1, RoundExpanded
<1>5. Round(b * c, d * c) = Round(b, d)
  <2>1. b \in Int
    BY <1>1
  <2> HIDE DEF x, y, e
  <2> QED
    BY <2>1, RoundExpanded
<1>6. d * c = e
  OBVIOUS
<1>7. Round(x, e) = Round(a, c) /\ Round(y, e) = Round(b, d)
  BY <1>4, <1>5, <1>6
<1> HIDE DEF x, y, e
<1>8. Round(x, e) <= Round(y, e)
  BY <1>1, <1>2, RoundMonotone
<1>9. Round(x, e) \in Int /\ Round(y, e) \in Int
  BY <1>1, RoundBounds
<1> QED
  BY <1>3, <1>7, <1>8, <1>9

\* A rate of two samples together lies between theirs.
LEMMA RateBetween ==
  ASSUME NEW m \in Nat, NEW c \in Nat \ {0}, NEW n \in Nat, NEW d \in Nat \ {0}
  PROVE  LET rates == {Rate(m, c), Rate(n, d)}
         IN  Rate(m + n, c + d) \in Min(rates) .. Max(rates)
<1> DEFINE r == Rate(m, c)
           s == Rate(n, d)
           t == Rate(m + n, c + d)
<1>1. /\ (m + n) * d = m * d + n * d /\ n * (c + d) = n * c + n * d
      /\ m * (c + d) = m * c + m * d /\ (m + n) * c = m * c + n * c
      /\ m * d \in Nat /\ n * d \in Nat /\ m * c \in Nat /\ n * c \in Nat
      /\ m + n \in Nat /\ c + d \in Nat \ {0}
  OBVIOUS
<1>2. CASE m * d <= n * c
  <2>1. m * (c + d) <= (m + n) * c /\ (m + n) * d <= n * (c + d)
    BY <1>1, <1>2
  <2>2. r <= t /\ t <= s /\ r \in Int /\ s \in Int /\ t \in Int
    BY <1>1, <2>1, RateMonotone
  <2> HIDE DEF r, s, t
  <2>3. Min({r, s}) = r /\ Max({r, s}) = s
    BY <2>2, MinIs, MaxIs
  <2>4. t \in Min({r, s}) .. Max({r, s})
    BY <2>2, <2>3
  <2> QED
    BY <2>4 DEF r, s, t
<1>3. CASE n * c <= m * d
  <2>1. n * (c + d) <= (m + n) * d /\ (m + n) * c <= m * (c + d)
    BY <1>1, <1>3
  <2>2. s <= t /\ t <= r /\ r \in Int /\ s \in Int /\ t \in Int
    BY <1>1, <2>1, RateMonotone
  <2> HIDE DEF r, s, t
  <2>3. Min({r, s}) = s /\ Max({r, s}) = r
    BY <2>2, MinIs, MaxIs
  <2>4. t \in Min({r, s}) .. Max({r, s})
    BY <2>2, <2>3
  <2> QED
    BY <2>4 DEF r, s, t
<1> QED
  BY <1>1, <1>2, <1>3

\* The sum of two numbers.
LEMMA TotalOfTwo ==
  ASSUME NEW f \in [1 .. 2 -> Nat]
  PROVE  Total(f) = f[1] + f[2]
<1> DEFINE E(sum, x) == sum + x
           step == [q \in Nat \X (1 .. 2) |-> E(q[1], f[q[2]])]
<1>1. DOMAIN f = 1 .. 2
  OBVIOUS
<1>2. Total(f) = (CHOOSE iter : iter = [s \in SUBSET (DOMAIN f) |->
                     IF s = {} THEN 0 ELSE E(iter[s \ {Max(s)}], f[Max(s)])])[DOMAIN f]
  BY DEF Total, FoldLeft, MapThenFoldSet
<1>3. step \in [Nat \X (1 .. 2) -> Nat]
  OBVIOUS
<1>4. \A a \in Nat, i \in 1 .. 2 : step[<<a, i>>] = E(a, f[i])
  OBVIOUS
<1> HIDE DEF E, step
<1>5. \E g : g = [s \in SUBSET (DOMAIN f) |->
               IF s = {} THEN 0 ELSE E(g[s \ {Max(s)}], f[Max(s)])]
  <2>1. \E g : IsFold(g, 2, Nat, 0, step)
    BY <1>3, FoldExists
  <2>2. PICK g \in [SUBSET (1 .. 2) -> Nat] : \A s \in SUBSET (1 .. 2) :
          g[s] = IF s = {} THEN 0 ELSE step[<<g[s \ {Max(s)}], Max(s)>>]
    BY <2>1 DEF IsFold
  <2>3. ASSUME NEW s \in SUBSET (1 .. 2), s # {}
        PROVE g[s] = E(g[s \ {Max(s)}], f[Max(s)])
    <3>1. Max(s) \in 1 .. 2
      BY <2>3, MaxIsMember
    <3>2. g[s \ {Max(s)}] \in Nat
      OBVIOUS
    <3> QED
      BY <2>2, <2>3, <3>1, <3>2, <1>4
  <2>4. \A s \in SUBSET (1 .. 2) :
          g[s] = IF s = {} THEN 0 ELSE E(g[s \ {Max(s)}], f[Max(s)])
    BY <2>2, <2>3
  <2>5. g = [s \in SUBSET (1 .. 2) |-> g[s]]
    OBVIOUS
  <2>6. g = [s \in SUBSET (DOMAIN f) |->
               IF s = {} THEN 0 ELSE E(g[s \ {Max(s)}], f[Max(s)])]
    BY <2>4, <2>5, <1>1
  <2> QED
    BY <2>6
<1> DEFINE iter == CHOOSE g : g = [s \in SUBSET (DOMAIN f) |->
               IF s = {} THEN 0 ELSE E(g[s \ {Max(s)}], f[Max(s)])]
<1>6. iter = [s \in SUBSET (DOMAIN f) |->
               IF s = {} THEN 0 ELSE E(iter[s \ {Max(s)}], f[Max(s)])]
  BY <1>5
<1>7. Total(f) = iter[1 .. 2]
  BY <1>1, <1>2
<1> HIDE DEF iter
<1>8. /\ iter[{}] = 0
      /\ \A s \in SUBSET (1 .. 2) : s # {} => iter[s] = E(iter[s \ {Max(s)}], f[Max(s)])
  BY <1>1, <1>6
<1>9. Max({1}) = 1 /\ Max(1 .. 2) = 2
  BY MaxIs
<1>10. iter[{1}] = f[1]
  <2>1. {1} \in SUBSET (1 .. 2) /\ {1} \ {1} = {} /\ {1} # {}
    OBVIOUS
  <2>2. iter[{1}] = E(iter[{1} \ {Max({1})}], f[Max({1})])
    BY <1>8, <2>1
  <2>3. iter[{1}] = E(0, f[1])
    BY <1>8, <1>9, <2>1, <2>2
  <2> QED
    BY <2>3 DEF E
<1>11. iter[1 .. 2] = f[1] + f[2]
  <2>1. (1 .. 2) \ {2} = {1} /\ 1 .. 2 # {} /\ 1 .. 2 \in SUBSET (1 .. 2)
    OBVIOUS
  <2>2. iter[1 .. 2] = E(iter[(1 .. 2) \ {Max(1 .. 2)}], f[Max(1 .. 2)])
    BY <1>8, <2>1
  <2>3. iter[1 .. 2] = E(f[1], f[2])
    BY <1>9, <1>10, <2>1, <2>2
  <2> QED
    BY <2>3 DEF E
<1> QED
  BY <1>7, <1>11

\* corpus_wer of two texts that are not empty lies between their rates.
LEMMA CorpusBetween ==
  ASSUME NEW ref \in Seq(STRING), NEW hyp \in Seq(STRING), ref # <<>>, hyp # <<>>
  PROVE  LET rates == {Wer(ref, hyp), Wer(hyp, ref)}
         IN  CorpusWer(<<ref, hyp>>, <<hyp, ref>>) \in Min(rates) .. Max(rates)
<1> DEFINE a == EditDistance(ref, hyp)
           b == EditDistance(hyp, ref)
           n == Len(ref)
           m == Len(hyp)
           refs == <<ref, hyp>>
           hyps == <<hyp, ref>>
           lens == [i \in DOMAIN refs |-> Len(refs[i])]
           edits == [i \in DOMAIN refs |-> EditDistance(refs[i], hyps[i])]
<1>1. a \in Nat /\ b \in Nat /\ n \in Nat \ {0} /\ m \in Nat \ {0}
  BY EditDistanceIsLeast
<1>2. Wer(ref, hyp) = Rate(a, n) /\ Wer(hyp, ref) = Rate(b, m)
  BY DEF Wer
<1>3. /\ DOMAIN refs = 1 .. 2 /\ refs[1] = ref /\ refs[2] = hyp
      /\ hyps[1] = hyp /\ hyps[2] = ref
  OBVIOUS
<1>4. CorpusWer(refs, hyps) = IF Total(lens) = 0 THEN 0 ELSE Rate(Total(edits), Total(lens))
  BY DEF CorpusWer
<1> HIDE DEF refs, hyps
<1>5. lens \in [1 .. 2 -> Nat] /\ lens[1] = n /\ lens[2] = m
  <2>1. \A i \in 1 .. 2 : i = 1 \/ i = 2
    OBVIOUS
  <2> QED
    BY <1>1, <1>3, <2>1
<1>6. edits \in [1 .. 2 -> Nat] /\ edits[1] = a /\ edits[2] = b
  <2>1. \A i \in 1 .. 2 : i = 1 \/ i = 2
    OBVIOUS
  <2> QED
    BY <1>1, <1>3, <2>1
<1> HIDE DEF a, b, n, m, lens, edits
<1>7. Total(lens) = n + m /\ Total(edits) = a + b
  BY <1>5, <1>6, TotalOfTwo
<1>8. CorpusWer(refs, hyps) = Rate(a + b, n + m)
  BY <1>1, <1>4, <1>7
<1>9. Rate(a + b, n + m) \in Min({Rate(a, n), Rate(b, m)}) .. Max({Rate(a, n), Rate(b, m)})
  BY <1>1, RateBetween
<1> QED
  BY <1>2, <1>8, <1>9 DEF refs, hyps

-----------------------------------------------------------------------------
(***************************************************************************)
(* Recall: no pairing finds more than twice what is found best first.      *)
(***************************************************************************)

\* The last of the greatest.
IsBest(i, I, v) == i \in I /\ \A j \in I : v[i] > v[j] \/ (v[i] = v[j] /\ j <= i)

LEMMA BestExists ==
  ASSUME NEW n \in Nat, NEW I \in SUBSET (1 .. n), I # {}, NEW v, \A i \in I : v[i] \in Int
  PROVE  \E i : IsBest(i, I, v)
<1> DEFINE T == {m \in Nat : \A J \in SUBSET (1 .. m) :
                   J # {} /\ (\A i \in J : v[i] \in Int) => \E i : IsBest(i, J, v)}
<1>1. 0 \in T
  <2>1. \A J \in SUBSET (1 .. 0) : J = {}
    OBVIOUS
  <2> QED
    BY <2>1
<1>2. ASSUME NEW m \in T, m \in Nat PROVE m + 1 \in T
  <2>1. ASSUME NEW J \in SUBSET (1 .. m + 1), J # {}, \A i \in J : v[i] \in Int
        PROVE  \E i : IsBest(i, J, v)
    <3> DEFINE K == J \ {m + 1}
    <3>1. K \in SUBSET (1 .. m)
      OBVIOUS
    <3>2. CASE K = {}
      <4>1. J = {m + 1}
        BY <3>2, <2>1
      <4>2. IsBest(m + 1, J, v)
        BY <4>1 DEF IsBest
      <4> QED
        BY <4>2
    <3>3. CASE K # {}
      <4>1. PICK i : IsBest(i, K, v)
        BY <3>1, <3>3, <2>1, <1>2
      <4>2. i \in J /\ i <= m /\ v[i] \in Int /\ i \in Nat
        BY <4>1, <3>1, <2>1 DEF IsBest
      <4>3. CASE m + 1 \notin J \/ v[i] > v[m + 1]
        <5>1. IsBest(i, J, v)
          BY <4>1, <4>2, <4>3 DEF IsBest
        <5> QED
          BY <5>1
      <4>4. CASE m + 1 \in J /\ ~(v[i] > v[m + 1])
        <5>1. v[m + 1] \in Int /\ v[m + 1] >= v[i]
          BY <4>4, <4>2, <2>1
        <5>2. ASSUME NEW j \in J
              PROVE  v[m + 1] > v[j] \/ (v[m + 1] = v[j] /\ j <= m + 1)
          <6>1. j \in 1 .. m + 1 /\ v[j] \in Int
            BY <2>1
          <6>2. j # m + 1 => v[i] >= v[j]
            BY <4>1, <4>2, <6>1 DEF IsBest
          <6> QED
            BY <5>1, <6>1, <6>2, <4>2
        <5>3. IsBest(m + 1, J, v)
          BY <4>4, <5>2 DEF IsBest
        <5> QED
          BY <5>3
      <4> QED
        BY <4>3, <4>4
    <3> QED
      BY <3>2, <3>3
  <2> QED
    BY <2>1
<1> HIDE DEF T
<1>3. n \in T
  BY <1>1, <1>2, SetInduction
<1> QED
  BY <1>3 DEF T

Box == Int \X Int \X Int \X Int

\* Overlaps are numbers.
LEMMA IouIsInt ==
  ASSUME NEW a \in Box, NEW b \in Box
  PROVE  IouPercent(a, b) \in Int
<1> DEFINE area(c) == Extent(c[1], c[3]) * Extent(c[2], c[4])
           w == Extent(-Smallest(-a[1], -b[1]), Smallest(a[3], b[3]))
           h == Extent(-Smallest(-a[2], -b[2]), Smallest(a[4], b[4]))
           inter == w * h
           union == area(a) + area(b) - inter
<1>1. \A x, y \in Int : Extent(x, y) \in Int /\ Smallest(x, y) \in Int /\ -x \in Int
  BY DEF Extent, Smallest
<1>2. /\ a[1] \in Int /\ a[2] \in Int /\ a[3] \in Int /\ a[4] \in Int
      /\ b[1] \in Int /\ b[2] \in Int /\ b[3] \in Int /\ b[4] \in Int
  BY DEF Box
<1>3. w \in Int /\ h \in Int
  BY <1>1, <1>2
<1>4. area(a) \in Int /\ area(b) \in Int
  <2>1. \A i, j \in Int : i * j \in Int
    OBVIOUS
  <2> HIDE DEF w, h
  <2>2. Extent(a[1], a[3]) \in Int /\ Extent(a[2], a[4]) \in Int
    BY <1>1, <1>2
  <2>3. Extent(b[1], b[3]) \in Int /\ Extent(b[2], b[4]) \in Int
    BY <1>1, <1>2
  <2> QED
    BY <2>1, <2>2, <2>3
<1>5. inter \in Int
  <2> HIDE DEF w, h
  <2> QED
    BY <1>3
<1>6. union \in Int
  <2> HIDE DEF inter, area
  <2> QED
    BY <1>4, <1>5
<1>7. IouPercent(a, b) = IF union > 0 THEN (100 * inter) \div union ELSE 0
  BY DEF IouPercent
<1> HIDE DEF inter, union
<1>8. CASE union > 0
  <2>1. 100 * inter \in Int /\ union \in Nat \ {0}
    BY <1>5, <1>6, <1>8
  <2>2. (100 * inter) \div union \in Int
    BY <2>1, Division
  <2> QED
    BY <1>7, <1>8, <2>2
<1>9. CASE ~(union > 0)
  BY <1>7, <1>9
<1> QED
  BY <1>8, <1>9

\* The closest of some is one of them.
LEMMA ClosestIsOne ==
  ASSUME NEW truths \in Seq(Objects(Gated)), NEW p \in Objects(Gated),
         NEW cands \in SUBSET (1 .. Len(truths)), cands # {}
  PROVE  Closest(p, truths, cands) \in cands
<1> DEFINE v == [i \in 1 .. Len(truths) |-> IouPercent(p.bbox, truths[i].bbox)]
<1>1. Len(truths) \in Nat
  OBVIOUS
<1>2. ASSUME NEW i \in 1 .. Len(truths) PROVE v[i] \in Int
  <2>1. truths[i].bbox \in Box /\ p.bbox \in Box
    <3>1. truths[i] \in Objects(Gated) /\ p \in Objects(Gated)
      OBVIOUS
    <3> QED
      BY <3>1 DEF Objects, Box
  <2> QED
    BY <2>1, IouIsInt
<1> HIDE DEF v
<1>3. \A i \in cands : v[i] \in Int
  BY <1>2
<1>4. PICK i : IsBest(i, cands, v)
  BY <1>1, <1>3, BestExists
<1> DEFINE Wins(k) == \A j \in cands :
             LET vi == IouPercent(p.bbox, truths[k].bbox)
                 vj == IouPercent(p.bbox, truths[j].bbox)
             IN vi > vj \/ (vi = vj /\ j <= k)
<1>5. i \in cands /\ Wins(i)
  BY <1>4 DEF IsBest, v
<1>6. Closest(p, truths, cands) = CHOOSE k \in cands : Wins(k)
  BY DEF Closest
<1> HIDE DEF Wins
<1> QED
  BY <1>5, <1>6

\* The ground truths of class c.
TruthsOf(truths, c) == {i \in DOMAIN truths : truths[i].cls = c}

\* What evaluate.py keeps of the predictions so far.
HitStates(truths) == [tp : [Gated -> Nat], used : SUBSET (1 .. Len(truths))]

PairedTruths(a) == {p[2] : p \in a}

\* The pairs a are what hits counts after i predictions, and none of these has
\* a ground truth left that it could be of.
Greedy(a, hits, i, preds, truths) ==
  /\ a \in Pairings(preds, truths)
  /\ \A p \in a : p[1] <= i
  /\ hits.used = PairedTruths(a)
  /\ \A c \in Gated : hits.tp[c] = Cardinality(OfClass(a, preds, c))
  /\ \A k \in 1 .. i : \/ \E p \in a : p[1] = k
                       \/ Matching(preds[k], truths, 50) \subseteq hits.used

\* Pairings are finite, and so are their parts.
LEMMA PairingIsFinite ==
  ASSUME NEW preds \in Seq(Objects(Gated)), NEW truths \in Seq(Objects(Gated)),
         NEW a \in Pairings(preds, truths)
  PROVE  /\ a \subseteq (1 .. Len(preds)) \X (1 .. Len(truths)) /\ IsFiniteSet(a)
         /\ \A p \in a : /\ p[2] \in Matching(preds[p[1]], truths, 50)
                         /\ p[1] \in 1 .. Len(preds) /\ p[2] \in 1 .. Len(truths)
                         /\ p = <<p[1], p[2]>>
         /\ \A p, q \in a : p[1] = q[1] <=> p[2] = q[2]
         /\ \A c : /\ OfClass(a, preds, c) \subseteq a /\ IsFiniteSet(OfClass(a, preds, c))
                   /\ Cardinality(OfClass(a, preds, c)) \in Nat
<1>1. a \subseteq (1 .. Len(preds)) \X (1 .. Len(truths))
  BY DEF Pairings
<1>2. IsFiniteSet((1 .. Len(preds)) \X (1 .. Len(truths)))
  <2>1. IsFiniteSet(1 .. Len(preds)) /\ IsFiniteSet(1 .. Len(truths))
    BY FiniteDomain
  <2> QED
    BY <2>1, FS_Product
<1>3. IsFiniteSet(a)
  BY <1>1, <1>2, FS_Subset
<1>4. ASSUME NEW c
      PROVE  /\ OfClass(a, preds, c) \subseteq a /\ IsFiniteSet(OfClass(a, preds, c))
             /\ Cardinality(OfClass(a, preds, c)) \in Nat
  <2>1. OfClass(a, preds, c) \subseteq a
    BY DEF OfClass
  <2>2. IsFiniteSet(OfClass(a, preds, c))
    BY <1>3, <2>1, FS_Subset
  <2> QED
    BY <2>1, <2>2, FS_CardinalityType
<1>5. \A p \in a : /\ p[2] \in Matching(preds[p[1]], truths, 50)
                   /\ p[1] \in 1 .. Len(preds) /\ p[2] \in 1 .. Len(truths)
                   /\ p = <<p[1], p[2]>>
  BY <1>1 DEF Pairings
<1>6. \A p, q \in a : p[1] = q[1] <=> p[2] = q[2]
  BY DEF Pairings
<1> QED
  BY <1>1, <1>3, <1>4, <1>5, <1>6

\* One prediction more keeps hits what it is.
LEMMA GreedyStep ==
  ASSUME NEW preds \in Seq(Objects(Gated)), NEW truths \in Seq(Objects(Gated)),
         NEW i \in 1 .. Len(preds), NEW hits \in HitStates(truths), NEW a,
         Greedy(a, hits, i - 1, preds, truths)
  PROVE  \E b : Greedy(b, Hit(hits, preds[i], truths, 50), i, preds, truths)
<1> DEFINE p == preds[i]
           found == Matching(p, truths, 50)
           cands == Free(found, hits.used)
           best == Closest(p, truths, cands)
           next == Hit(hits, p, truths, 50)
<1> SUFFICES \E b : Greedy(b, next, i, preds, truths)
  OBVIOUS
<1>1. /\ p \in Objects(Gated) /\ p.cls \in Gated
  <2>1. p \in Objects(Gated)
    OBVIOUS
  <2> QED
    BY <2>1 DEF Objects
<1>2. found \subseteq 1 .. Len(truths) /\ cands \subseteq found /\ cands \subseteq 1 .. Len(truths)
      /\ \A k \in found : truths[k].cls = p.cls /\ (k \in cands <=> k \notin hits.used)
  BY DEF Matching, Free
<1>3. next = IF cands = {} THEN hits
             ELSE [tp |-> [hits.tp EXCEPT ![p.cls] = @ + 1], used |-> hits.used \cup {best}]
  BY DEF Hit
<1>4. /\ \A q \in a : q[2] \in Matching(preds[q[1]], truths, 50) /\ q[1] \in 1 .. Len(preds)
                      /\ q[2] \in 1 .. Len(truths) /\ q = <<q[1], q[2]>> /\ q[1] <= i - 1
      /\ a \in Pairings(preds, truths)
      /\ \A q, r \in a : q[1] = r[1] <=> q[2] = r[2]
  BY PairingIsFinite DEF Greedy
<1>5. CASE cands = {}
  <2>1. next = hits /\ found \subseteq hits.used
    BY <1>2, <1>3, <1>5
  <2>2. \A k \in 1 .. i : k = i \/ k \in 1 .. i - 1
    OBVIOUS
  <2>3. \A q \in a : q[1] <= i
    BY <1>4
  <2> HIDE DEF next
  <2>4. Greedy(a, next, i, preds, truths)
    BY <2>1, <2>2, <2>3 DEF Greedy
  <2> QED
    BY <2>4
<1>6. CASE cands # {}
  <2> DEFINE x == <<i, best>>
             b == a \cup {x}
  <2>1. best \in cands
    BY <1>1, <1>2, <1>6, ClosestIsOne
  <2> HIDE DEF best
  <2>2. best \in found /\ best \in 1 .. Len(truths) /\ best \notin hits.used
    BY <2>1, <1>2
  <2>3. /\ next.used = hits.used \cup {best}
        /\ \A c \in Gated : next.tp[c] = IF c = p.cls THEN hits.tp[c] + 1 ELSE hits.tp[c]
    <3>1. next = [tp |-> [hits.tp EXCEPT ![p.cls] = @ + 1], used |-> hits.used \cup {best}]
      BY <1>3, <1>6
    <3> HIDE DEF next, p
    <3> QED
      BY <1>1, <3>1 DEF HitStates
  <2> HIDE DEF next, cands
  <2>4. x[1] = i /\ x[2] = best /\ x \notin a
    BY <1>4
  <2>5. \A q \in a : q[1] # i /\ q[2] # best
    <3>1. \A q \in a : q[2] \in hits.used
      BY DEF Greedy, PairedTruths
    <3> QED
      BY <1>4, <2>2, <3>1
  <2> HIDE DEF x
  <2>6. b \in Pairings(preds, truths)
    <3>1. x \in (1 .. Len(preds)) \X (1 .. Len(truths)) /\ x[2] \in Matching(preds[x[1]], truths, 50)
      BY <2>2, <2>4 DEF x
    <3>2. b \subseteq (1 .. Len(preds)) \X (1 .. Len(truths))
      BY <1>4, <3>1 DEF Pairings
    <3>3. \A q \in b : q[2] \in Matching(preds[q[1]], truths, 50)
      BY <1>4, <3>1
    <3>4. \A q, r \in b : q[1] = r[1] <=> q[2] = r[2]
      BY <1>4, <2>4, <2>5
    <3> HIDE DEF b, found, p
    <3> QED
      BY <3>2, <3>3, <3>4 DEF Pairings
  <2>7. \A q \in b : q[1] <= i
    BY <1>4, <2>4
  <2>8. next.used = PairedTruths(b)
    <3>1. hits.used = PairedTruths(a)
      BY DEF Greedy
    <3>2. PairedTruths(b) = PairedTruths(a) \cup {x[2]}
      BY DEF PairedTruths
    <3> QED
      BY <3>1, <3>2, <2>3, <2>4
  <2>9. ASSUME NEW c \in Gated
        PROVE  next.tp[c] = Cardinality(OfClass(b, preds, c))
    <3>1. hits.tp[c] = Cardinality(OfClass(a, preds, c)) /\ IsFiniteSet(OfClass(a, preds, c))
      BY <1>4, PairingIsFinite DEF Greedy
    <3>2. x \notin OfClass(a, preds, c)
      BY <2>4 DEF OfClass
    <3>3. CASE c = p.cls
      <4>1. OfClass(b, preds, c) = OfClass(a, preds, c) \cup {x}
        BY <2>4, <3>3 DEF OfClass
      <4>2. Cardinality(OfClass(b, preds, c)) = Cardinality(OfClass(a, preds, c)) + 1
        BY <3>1, <3>2, <4>1, FS_AddElement
      <4> QED
        BY <3>1, <3>3, <4>2, <2>3
    <3>4. CASE c # p.cls
      <4>1. OfClass(b, preds, c) = OfClass(a, preds, c)
        BY <2>4, <3>4 DEF OfClass
      <4> QED
        BY <3>1, <3>4, <4>1, <2>3
    <3> QED
      BY <3>3, <3>4
  <2>10. ASSUME NEW k \in 1 .. i
         PROVE  \/ \E q \in b : q[1] = k
                \/ Matching(preds[k], truths, 50) \subseteq next.used
    <3>1. CASE k = i
      BY <3>1, <2>4
    <3>2. CASE k # i
      <4>1. k \in 1 .. i - 1
        BY <3>2
      <4> HIDE DEF b
      <4>2. a \subseteq b
        BY DEF b
      <4> QED
        BY <4>1, <4>2, <2>3 DEF Greedy
    <3> QED
      BY <3>1, <3>2
  <2> HIDE DEF b
  <2>11. Greedy(b, next, i, preds, truths)
    BY <2>6, <2>7, <2>8, <2>9, <2>10 DEF Greedy
  <2> QED
    BY <2>11
<1> HIDE DEF next, cands
<1> QED
  BY <1>5, <1>6

Recalled(hits, preds, truths) ==
  hits \in HitStates(truths) /\ \E a : Greedy(a, hits, Len(preds), preds, truths)

\* The greedy count ends with pairs none of which can be added to.
LEMMA HitsAreGreedy ==
  ASSUME NEW preds \in Seq(Objects(Gated)), NEW truths \in Seq(Objects(Gated))
  PROVE  Recalled(Hits(preds, truths, Gated, 50), preds, truths)
<1> DEFINE A == HitStates(truths)
           n == Len(preds)
           none == [tp |-> [c \in Gated |-> 0], used |-> {}]
           E(hits, p) == Hit(hits, p, truths, 50)
           step == [q \in A \X (1 .. n) |-> E(q[1], preds[q[2]])]
<1>1. Hits(preds, truths, Gated, 50) = (CHOOSE iter : iter = [s \in SUBSET (DOMAIN preds) |->
                        IF s = {} THEN none
                        ELSE E(iter[s \ {Max(s)}], preds[Max(s)])])[DOMAIN preds]
  BY DEF Hits, FoldLeft, MapThenFoldSet
<1>2. n \in Nat /\ DOMAIN preds = 1 .. n
  OBVIOUS
<1>3. \A a \in A, i \in 1 .. n : E(a, preds[i]) \in A
  <2> SUFFICES ASSUME NEW a \in A, NEW i \in 1 .. n PROVE E(a, preds[i]) \in A
    OBVIOUS
  <2> DEFINE p == preds[i]
             cands == Free(Matching(p, truths, 50), a.used)
             best == Closest(p, truths, cands)
  <2>1. p \in Objects(Gated) /\ p.cls \in Gated
    <3>1. p \in Objects(Gated)
      OBVIOUS
    <3> QED
      BY <3>1 DEF Objects
  <2>2. cands \subseteq 1 .. Len(truths)
    BY DEF Matching, Free
  <2>3. E(a, p) = IF cands = {} THEN a
                  ELSE [tp |-> [a.tp EXCEPT ![p.cls] = @ + 1], used |-> a.used \cup {best}]
    BY DEF Hit
  <2>4. cands # {} => best \in 1 .. Len(truths)
    BY <2>1, <2>2, ClosestIsOne
  <2> DEFINE c == p.cls
             tp == [a.tp EXCEPT ![c] = @ + 1]
             used == a.used \cup {best}
  <2>5. c \in Gated /\ (E(a, p) = a \/ (cands # {} /\ E(a, p) = [tp |-> tp, used |-> used]))
    BY <2>1, <2>3
  <2> HIDE DEF p, cands, best, E, c
  <2>6. tp \in [Gated -> Nat]
    BY <2>5 DEF HitStates
  <2>8. cands # {} => used \in SUBSET (1 .. Len(truths))
    BY <2>4 DEF HitStates
  <2>7. E(a, p) \in A
    <3> HIDE DEF tp, used
    <3> QED
      BY <2>5, <2>6, <2>8 DEF HitStates
  <2> QED
    BY <2>7 DEF p
<1>4. step \in [A \X (1 .. n) -> A]
  <2> HIDE DEF A, E
  <2> QED
    BY <1>3
<1>5. \A a \in A, i \in 1 .. n : step[<<a, i>>] = E(a, preds[i])
  <2> HIDE DEF A, E
  <2> QED
    OBVIOUS
<1>6. none \in A
  BY DEF HitStates
<1> HIDE DEF A, E, step, none, n
<1>7. \E f : f = [s \in SUBSET (DOMAIN preds) |->
               IF s = {} THEN none ELSE E(f[s \ {Max(s)}], preds[Max(s)])]
  <2>1. \E f : IsFold(f, n, A, none, step)
    BY <1>2, <1>4, <1>6, FoldExists
  <2>2. PICK f \in [SUBSET (1 .. n) -> A] : \A s \in SUBSET (1 .. n) :
          f[s] = IF s = {} THEN none ELSE step[<<f[s \ {Max(s)}], Max(s)>>]
    BY <2>1 DEF IsFold
  <2>3. ASSUME NEW s \in SUBSET (1 .. n), s # {}
        PROVE f[s] = E(f[s \ {Max(s)}], preds[Max(s)])
    <3>1. Max(s) \in 1 .. n
      BY <1>2, <2>3, MaxIsMember
    <3>2. f[s \ {Max(s)}] \in A
      OBVIOUS
    <3> QED
      BY <2>2, <2>3, <3>1, <3>2, <1>5
  <2>4. \A s \in SUBSET (1 .. n) :
          f[s] = IF s = {} THEN none ELSE E(f[s \ {Max(s)}], preds[Max(s)])
    BY <2>2, <2>3
  <2>5. f = [s \in SUBSET (1 .. n) |-> f[s]]
    OBVIOUS
  <2>6. f = [s \in SUBSET (DOMAIN preds) |->
               IF s = {} THEN none ELSE E(f[s \ {Max(s)}], preds[Max(s)])]
    BY <2>4, <2>5, <1>2
  <2> QED
    BY <2>6
<1> DEFINE iter == CHOOSE f : f = [s \in SUBSET (DOMAIN preds) |->
               IF s = {} THEN none ELSE E(f[s \ {Max(s)}], preds[Max(s)])]
<1>8. iter = [s \in SUBSET (DOMAIN preds) |->
               IF s = {} THEN none ELSE E(iter[s \ {Max(s)}], preds[Max(s)])]
  BY <1>7
<1>9. Hits(preds, truths, Gated, 50) = iter[1 .. n]
  BY <1>1, <1>2
<1> HIDE DEF iter
<1>10. \A s \in SUBSET (1 .. n) : s # {} /\ iter[s \ {Max(s)}] \in A =>
          iter[s] = step[<<iter[s \ {Max(s)}], Max(s)>>]
  <2>1. ASSUME NEW s \in SUBSET (1 .. n), s # {}, iter[s \ {Max(s)}] \in A
        PROVE  iter[s] = step[<<iter[s \ {Max(s)}], Max(s)>>]
    <3>1. iter[s] = E(iter[s \ {Max(s)}], preds[Max(s)])
      BY <1>2, <1>8, <2>1
    <3>2. Max(s) \in 1 .. n
      BY <1>2, <2>1, MaxIsMember
    <3> QED
      BY <3>1, <3>2, <2>1, <1>5
  <2> QED
    BY <2>1
<1>11. iter[{}] = none
  BY <1>2, <1>8
<1>12. StepsTo(iter[1 .. n], n, A, none, step)
  BY <1>2, <1>4, <1>6, <1>10, <1>11, FoldSteps
<1>13. PICK g : IsSteps(g, n, A, none, step) /\ g[n] = iter[1 .. n]
  BY <1>12 DEF StepsTo
<1>14. g \in [0 .. n -> A] /\ g[0] = none /\ \A i \in 1 .. n : g[i] = E(g[i - 1], preds[i])
  <2>1. \A i \in 1 .. n : g[i - 1] \in A
    BY <1>2, <1>13 DEF IsSteps
  <2> QED
    BY <2>1, <1>5, <1>13 DEF IsSteps
<1> DEFINE T == {i \in Nat : i <= n => \E a : Greedy(a, g[i], i, preds, truths)}
<1>15. 0 \in T
  <2>1. Greedy({}, none, 0, preds, truths)
    <3>1. \A c \in Gated : Cardinality(OfClass({}, preds, c)) = 0
      <4>1. \A c : OfClass({}, preds, c) = {}
        BY DEF OfClass
      <4> QED
        BY <4>1, FS_EmptySet
    <3>2. {} \in Pairings(preds, truths) /\ PairedTruths({}) = {}
      BY DEF Pairings, PairedTruths
    <3> QED
      BY <3>1, <3>2 DEF Greedy, none
  <2> QED
    BY <2>1, <1>14
<1>16. ASSUME NEW i \in T, i \in Nat PROVE i + 1 \in T
  <2>1. ASSUME i + 1 <= n
        PROVE  \E a : Greedy(a, g[i + 1], i + 1, preds, truths)
    <3> DEFINE k == i + 1
    <3>1. i <= n /\ i \in 0 .. n /\ k \in 1 .. n /\ k - 1 = i
      BY <2>1, <1>2, <1>16
    <3>2. PICK a : Greedy(a, g[i], i, preds, truths)
      BY <3>1, <1>16
    <3>3. g[k] = Hit(g[i], preds[k], truths, 50)
      BY <3>1, <1>14 DEF E
    <3>4. g[i] \in HitStates(truths)
      BY <3>1, <1>14 DEF A
    <3>5. Greedy(a, g[i], k - 1, preds, truths) /\ k \in 1 .. Len(preds)
      BY <3>1, <3>2 DEF n
    <3> HIDE DEF k
    <3> DEFINE h == g[i]
    <3>6. h \in HitStates(truths) /\ Greedy(a, h, k - 1, preds, truths)
      BY <3>4, <3>5
    <3> HIDE DEF h
    <3>7. \E b : Greedy(b, Hit(h, preds[k], truths, 50), k, preds, truths)
      BY <3>5, <3>6, GreedyStep
    <3>8. \E b : Greedy(b, g[k], k, preds, truths)
      BY <3>3, <3>7 DEF h
    <3> QED
      BY <3>8 DEF k
  <2> QED
    BY <2>1, <1>16
<1> HIDE DEF T
<1>17. n \in T
  BY <1>2, <1>15, <1>16, SetInduction
<1>18. \E a : Greedy(a, g[n], n, preds, truths)
  BY <1>2, <1>17 DEF T
<1>19. g[n] \in HitStates(truths)
  BY <1>2, <1>14 DEF A
<1> QED
  BY <1>9, <1>13, <1>18, <1>19 DEF Recalled, n

\* Any pairing has no more than twice the pairs of the greedy one, of any class.
LEMMA GreedyIsHalf ==
  ASSUME NEW preds \in Seq(Objects(Gated)), NEW truths \in Seq(Objects(Gated)),
         NEW hits, NEW a, Greedy(a, hits, Len(preds), preds, truths),
         NEW b \in Pairings(preds, truths), NEW c
  PROVE  Cardinality(OfClass(b, preds, c)) <= 2 * Cardinality(OfClass(a, preds, c))
<1> DEFINE A == OfClass(a, preds, c)
           B == OfClass(b, preds, c)
           B1 == {p \in B : \E q \in a : q[1] = p[1]}
           B2 == {p \in B : \E q \in a : q[2] = p[2]}
           R1 == {r \in B1 \X A : r[2][1] = r[1][1]}
           R2 == {r \in B2 \X A : r[2][2] = r[1][2]}
<1>0. a \in Pairings(preds, truths)
  BY DEF Greedy
<1>1. /\ \A p \in a : /\ p[2] \in Matching(preds[p[1]], truths, 50)
                      /\ p[1] \in 1 .. Len(preds) /\ p[2] \in 1 .. Len(truths)
                      /\ p = <<p[1], p[2]>>
      /\ A \subseteq a /\ IsFiniteSet(A) /\ Cardinality(A) \in Nat
  BY <1>0, PairingIsFinite
<1>2. /\ \A p \in b : /\ p[2] \in Matching(preds[p[1]], truths, 50)
                      /\ p[1] \in 1 .. Len(preds) /\ p[2] \in 1 .. Len(truths)
                      /\ p = <<p[1], p[2]>>
      /\ \A p, q \in b : p[1] = q[1] <=> p[2] = q[2]
      /\ B \subseteq b /\ IsFiniteSet(B) /\ Cardinality(B) \in Nat
  BY PairingIsFinite
<1>3. /\ \A p \in a : p \in A <=> preds[p[1]].cls = c
      /\ \A p \in b : p \in B <=> preds[p[1]].cls = c
  BY DEF OfClass
<1>4. B = B1 \cup B2
  <2>1. ASSUME NEW p \in B PROVE p \in B1 \/ p \in B2
    <3>1. p[1] \in 1 .. Len(preds) /\ p[2] \in Matching(preds[p[1]], truths, 50)
      BY <1>2
    <3>2. CASE \E q \in a : q[1] = p[1]
      BY <3>2
    <3>3. CASE Matching(preds[p[1]], truths, 50) \subseteq hits.used
      <4>1. p[2] \in PairedTruths(a)
        BY <3>1, <3>3 DEF Greedy
      <4> QED
        BY <4>1 DEF PairedTruths
    <3> QED
      BY <3>1, <3>2, <3>3 DEF Greedy
  <2> QED
    BY <2>1
<1>5. IsFiniteSet(B1) /\ Cardinality(B1) <= Cardinality(A)
  <2>1. ASSUME NEW p \in B1 PROVE \E q \in A : <<p, q>> \in R1
    <3>1. PICK q \in a : q[1] = p[1]
      BY <2>1
    <3>2. q \in A
      BY <1>2, <1>3, <3>1, <2>1
    <3> HIDE DEF A, B
    <3> QED
      BY <3>1, <3>2, <2>1
  <2>2. ASSUME NEW p \in B1, NEW r \in B1, NEW q \in A, <<p, q>> \in R1, <<r, q>> \in R1
        PROVE  p = r
    <3>1. p[1] = r[1] /\ p \in b /\ r \in b
      BY <2>2, <1>2
    <3> QED
      BY <3>1, <1>2
  <2> HIDE DEF B1, R1, A
  <2> QED
    BY <2>1, <2>2, <1>1, NoMoreThan
<1>6. IsFiniteSet(B2) /\ Cardinality(B2) <= Cardinality(A)
  <2>1. ASSUME NEW p \in B2 PROVE \E q \in A : <<p, q>> \in R2
    <3>1. PICK q \in a : q[2] = p[2]
      BY <2>1
    <3>2. p \in b /\ preds[p[1]].cls = c
      BY <1>2, <1>3, <2>1
    <3>3. truths[p[2]].cls = preds[p[1]].cls /\ truths[q[2]].cls = preds[q[1]].cls
      BY <1>1, <1>2, <3>2 DEF Matching
    <3>4. q \in A
      BY <1>3, <3>1, <3>2, <3>3
    <3> HIDE DEF A, B
    <3> QED
      BY <3>1, <3>4, <2>1
  <2>2. ASSUME NEW p \in B2, NEW r \in B2, NEW q \in A, <<p, q>> \in R2, <<r, q>> \in R2
        PROVE  p = r
    <3>1. p[2] = r[2] /\ p \in b /\ r \in b
      BY <2>2, <1>2
    <3> QED
      BY <3>1, <1>2
  <2> HIDE DEF B2, R2, A
  <2> QED
    BY <2>1, <2>2, <1>1, NoMoreThan
<1> HIDE DEF A, B, B1, B2
<1>7. Cardinality(B) = Cardinality(B1) + Cardinality(B2) - Cardinality(B1 \cap B2)
  BY <1>4, <1>5, <1>6, FS_Union
<1>8. Cardinality(B1) \in Nat /\ Cardinality(B2) \in Nat /\ Cardinality(B1 \cap B2) \in Nat
  BY <1>5, <1>6, FS_Intersection, FS_CardinalityType
<1>9. Cardinality(B) <= 2 * Cardinality(A)
  BY <1>1, <1>5, <1>6, <1>7, <1>8
<1> QED
  BY <1>9 DEF A, B

\* Of a class no more ground truths are found than there are.
LEMMA NoMoreThanThere ==
  ASSUME NEW preds \in Seq(Objects(Gated)), NEW truths \in Seq(Objects(Gated)),
         NEW a \in Pairings(preds, truths), NEW c
  PROVE  /\ Cardinality(TruthsOf(truths, c)) \in 0 .. Len(truths)
         /\ Cardinality(OfClass(a, preds, c)) <= Cardinality(TruthsOf(truths, c))
<1> DEFINE A == OfClass(a, preds, c)
           S == TruthsOf(truths, c)
           R == {r \in A \X S : r[2] = r[1][2]}
<1>1. /\ \A p \in a : /\ p[2] \in Matching(preds[p[1]], truths, 50)
                      /\ p[2] \in 1 .. Len(truths) /\ p = <<p[1], p[2]>>
      /\ \A p, q \in a : p[1] = q[1] <=> p[2] = q[2]
      /\ A \subseteq a
  BY PairingIsFinite
<1>2. S \subseteq 1 .. Len(truths) /\ Len(truths) \in Nat
  BY DEF TruthsOf
<1>3. IsFiniteSet(S) /\ Cardinality(S) \in 0 .. Len(truths)
  <2> HIDE DEF S
  <2> QED
    BY <1>2, FiniteDomain
<1>4. \A p \in A : \E i \in S : <<p, i>> \in R
  <2>1. ASSUME NEW p \in A PROVE p[2] \in S
    BY <1>1 DEF OfClass, TruthsOf, Matching
  <2> HIDE DEF A, S
  <2> QED
    BY <2>1
<1>5. \A p, r \in A, i \in S : <<p, i>> \in R /\ <<r, i>> \in R => p = r
  <2>1. ASSUME NEW p \in A, NEW r \in A, p[2] = r[2] PROVE p = r
    BY <1>1, <2>1
  <2> HIDE DEF A, S
  <2> QED
    BY <2>1
<1>6. Cardinality(A) <= Cardinality(S)
  <2> HIDE DEF A, S, R
  <2> QED
    BY <1>3, <1>4, <1>5, NoMoreThan
<1> QED
  BY <1>3, <1>6

\* A count that lacks one of fewer than 20000 is not rounded up to all of them.
LEMMA NotRoundedUp ==
  ASSUME NEW m \in Int, NEW d \in Nat \ {0}
  PROVE  m <= 10000 * d - 10000 /\ d < 20000 => Round(m, d) < 10000
<1> DEFINE q == m \div d
           r == m % d
<1>1. q \in Int /\ r \in 0 .. d - 1 /\ m = d * q + r
  BY Division
<1>2. Round(m, d) = IF 2 * r < d \/ (2 * r = d /\ q % 2 = 0) THEN q ELSE q + 1
  BY DEF Round
<1> HIDE DEF q, r
<1>3. SUFFICES ASSUME m <= 10000 * d - 10000, d < 20000 PROVE Round(m, d) < 10000
  OBVIOUS
<1>4. q < 10000
  <2>1. SUFFICES ASSUME q >= 10000 PROVE FALSE
    BY <1>1
  <2>2. d * (q - 10000) >= 0
    BY <2>1, <1>1, SMT
  <2>3. d * (q - 10000) = d * q - d * 10000
    BY <1>1, SMT
  <2>4. d * 10000 = 10000 * d /\ d * q \in Int
    BY <1>1, SMT
  <2> QED
    BY <2>2, <2>3, <2>4, <1>1, <1>3, SMT
<1>5. CASE q < 9999
  BY <1>1, <1>2, <1>5, SMT
<1>6. CASE q = 9999
  <2>1. d * q = 9999 * d
    BY <1>6, SMT
  <2>2. 2 * r < d
    BY <2>1, <1>1, <1>3, SMT
  <2> QED
    BY <2>2, <1>2, <1>6, SMT
<1> QED
  BY <1>1, <1>4, <1>5, <1>6, SMT

\* Of fewer than 20000 all are found when the rate says so.
LEMMA FullRate ==
  ASSUME NEW n \in Nat, NEW d \in Nat \ {0}, n <= d, d < 20000, Rate(n, d) >= 10000
  PROVE  n = d
<1> DEFINE m == 10000 * n
<1>1. m \in Int
  BY SMT
<1>2. Rate(n, d) = Round(m, d)
  BY DEF Rate
<1>3. n < d => m <= 10000 * d - 10000
  BY SMT
<1> HIDE DEF m
<1>4. m <= 10000 * d - 10000 /\ d < 20000 => Round(m, d) < 10000
  BY <1>1, NotRoundedUp
<1>5. Round(m, d) \in Int
  BY <1>1, RoundBounds
<1> QED
  BY <1>2, <1>3, <1>4, <1>5, SMT

\* Both classes together are all.
LEMMA TwoClasses ==
  ASSUME NEW preds \in Seq(Objects(Gated)), NEW truths \in Seq(Objects(Gated)),
         NEW a \in Pairings(preds, truths)
  PROVE  /\ Cardinality(a) = Cardinality(OfClass(a, preds, 1)) + Cardinality(OfClass(a, preds, 2))
         /\ Len(truths) = Cardinality(TruthsOf(truths, 1)) + Cardinality(TruthsOf(truths, 2))
<1> DEFINE A(c) == OfClass(a, preds, c)
           S(c) == TruthsOf(truths, c)
           n == Len(truths)
<1>1. n \in Nat /\ DOMAIN truths = 1 .. n
  OBVIOUS
<1>2. ASSUME NEW s \in Seq(Objects(Gated)), NEW i \in 1 .. Len(s) PROVE s[i].cls \in Gated
  <2>1. s[i] \in Objects(Gated)
    OBVIOUS
  <2> QED
    BY <2>1 DEF Objects
<1>3. a = A(1) \cup A(2) /\ A(1) \cap A(2) = {}
  <2>1. \A p \in a : preds[p[1]].cls \in Gated
    BY <1>2, PairingIsFinite
  <2> QED
    BY <2>1 DEF OfClass, Gated
<1>4. 1 .. n = S(1) \cup S(2) /\ S(1) \cap S(2) = {}
  <2>1. \A i \in 1 .. n : truths[i].cls \in Gated
    BY <1>2
  <2> QED
    BY <2>1, <1>1 DEF TruthsOf, Gated
<1>5. IsFiniteSet(A(1)) /\ IsFiniteSet(A(2)) /\ Cardinality(A(1)) \in Nat /\ Cardinality(A(2)) \in Nat
  BY PairingIsFinite
<1>6. IsFiniteSet(S(1)) /\ IsFiniteSet(S(2)) /\ Cardinality(S(1)) \in Nat /\ Cardinality(S(2)) \in Nat
      /\ Cardinality(1 .. n) = n
  <2>1. S(1) \in SUBSET (1 .. n) /\ S(2) \in SUBSET (1 .. n)
    BY <1>4
  <2> HIDE DEF S, n
  <2> QED
    BY <2>1, <1>1, FiniteDomain
<1>7. Cardinality({}) = 0
  BY FS_EmptySet
<1> DEFINE A1 == A(1)
           A2 == A(2)
           S1 == S(1)
           S2 == S(2)
<1>8. Cardinality(A1 \cup A2) = Cardinality(A1) + Cardinality(A2) - Cardinality(A1 \cap A2)
  <2>1. IsFiniteSet(A1) /\ IsFiniteSet(A2)
    BY <1>5
  <2> HIDE DEF A1, A2
  <2> QED
    BY <2>1, FS_Union
<1>9. Cardinality(S1 \cup S2) = Cardinality(S1) + Cardinality(S2) - Cardinality(S1 \cap S2)
  <2>1. IsFiniteSet(S1) /\ IsFiniteSet(S2)
    BY <1>6
  <2> HIDE DEF S1, S2
  <2> QED
    BY <2>1, FS_Union
<1>10. a = A1 \cup A2 /\ A1 \cap A2 = {} /\ 1 .. n = S1 \cup S2 /\ S1 \cap S2 = {}
       /\ Cardinality(A1) \in Nat /\ Cardinality(A2) \in Nat
       /\ Cardinality(S1) \in Nat /\ Cardinality(S2) \in Nat
  BY <1>3, <1>4, <1>5, <1>6
<1> HIDE DEF A1, A2, S1, S2, n
<1>11. Cardinality(a) = Cardinality(A1) + Cardinality(A2) /\ n = Cardinality(S1) + Cardinality(S2)
  <2>1. Cardinality(A1 \cap A2) = 0 /\ Cardinality(S1 \cap S2) = 0
    BY <1>7, <1>10, Zenon
  <2>2. Cardinality(a) = Cardinality(A1 \cup A2) /\ n = Cardinality(S1 \cup S2)
    <3>1. Cardinality(1 .. n) = n
      BY <1>6 DEF n
    <3> QED
      BY <3>1, <1>10, Zenon
  <2> QED
    BY <2>1, <2>2, <1>8, <1>9, <1>10
<1> QED
  BY <1>11 DEF A1, A2, S1, S2, n

\* What is reported for a class.
RecallOf(hits, truths, c) ==
  LET total == Cardinality(TruthsOf(truths, c))
  IN [tp |-> hits.tp[c], fn |-> total - hits.tp[c], total |-> total,
      recall |-> Rate(hits.tp[c], total)]

LEMMA RecallsAreHonest ==
  ASSUME NEW preds \in Seq(Objects(Gated)), NEW truths \in Seq(Objects(Gated))
  PROVE  Honest(Recalls(preds, truths, Gated, 50), preds, truths)
<1> DEFINE recalls == Recalls(preds, truths, Gated, 50)
           hits == Hits(preds, truths, Gated, 50)
           Tested == {k \in Gated : Cardinality(TruthsOf(truths, k)) > 0}
<1>1. recalls = [c \in Tested |-> RecallOf(hits, truths, c)]
  BY DEF Recalls, RecallOf, TruthsOf
<1>2. Recalled(hits, preds, truths)
  BY HitsAreGreedy
<1> HIDE DEF hits, recalls
<1>3. PICK a : Greedy(a, hits, Len(preds), preds, truths)
  BY <1>2 DEF Recalled
<1>4. a \in Pairings(preds, truths) /\ \A c \in Gated : hits.tp[c] = Cardinality(OfClass(a, preds, c))
  BY <1>3 DEF Greedy
<1>5. \A c \in DOMAIN recalls :
        /\ c \in Gated /\ recalls[c].tp = hits.tp[c]
        /\ recalls[c].recall = Rate(hits.tp[c], Cardinality(TruthsOf(truths, c)))
        /\ Cardinality(TruthsOf(truths, c)) > 0
  <2> HIDE DEF Tested
  <2>1. \A c \in Tested : c \in Gated /\ Cardinality(TruthsOf(truths, c)) > 0
    BY DEF Tested
  <2> QED
    BY <1>1, <2>1 DEF RecallOf
<1>6. ASSUME NEW c \in DOMAIN recalls
      PROVE  /\ recalls[c].tp <= Max(Found(preds, truths, c))
             /\ Max(Found(preds, truths, c)) <= 2 * recalls[c].tp
  <2> DEFINE tp == Cardinality(OfClass(a, preds, c))
             F == Found(preds, truths, c)
  <2>1. recalls[c].tp = tp /\ tp \in Nat
    BY <1>4, <1>5, PairingIsFinite
  <2>2. tp \in F
    BY <1>4 DEF Found
  <2>3. ASSUME NEW x \in F PROVE x \in Nat /\ x <= 2 * tp
    <3>1. PICK b \in Pairings(preds, truths) : x = Cardinality(OfClass(b, preds, c))
      BY DEF Found
    <3> QED
      BY <3>1, <1>3, GreedyIsHalf, PairingIsFinite
  <2> HIDE DEF tp, F
  <2>4. F \in SUBSET Nat /\ F # {} /\ 2 * tp \in Nat /\ \A x \in F : x <= 2 * tp
    BY <2>1, <2>2, <2>3
  <2>5. Max(F) \in F /\ \A y \in F : y <= Max(F)
    <3> DEFINE bound == 2 * tp
    <3>1. F \in SUBSET Nat /\ F # {} /\ bound \in Nat /\ \A x \in F : x <= bound
      BY <2>4
    <3> HIDE DEF bound
    <3> QED
      BY <3>1, MaxOfBounded
  <2> QED
    BY <2>1, <2>2, <2>4, <2>5 DEF F
<1>7. ASSUME RecallGate(recalls, 10000, Gated), Len(truths) < 20000
      PROVE  /\ Gated = {truths[i].cls : i \in DOMAIN truths}
             /\ \E b \in Pairings(preds, truths) : Cardinality(b) = Len(truths)
  <2>1. \A c \in Gated : c \in DOMAIN recalls /\ recalls[c].recall >= 10000
    BY <1>7 DEF RecallGate
  <2>2. ASSUME NEW c \in Gated
        PROVE  /\ Cardinality(OfClass(a, preds, c)) = Cardinality(TruthsOf(truths, c))
               /\ \E i \in DOMAIN truths : truths[i].cls = c
    <3> DEFINE n == Cardinality(OfClass(a, preds, c))
               d == Cardinality(TruthsOf(truths, c))
    <3>1. d \in 0 .. Len(truths) /\ n <= d /\ Len(truths) \in Nat /\ n \in Nat
      BY <1>4, NoMoreThanThere, PairingIsFinite
    <3>2. d > 0 /\ Rate(n, d) >= 10000
      BY <2>1, <1>4, <1>5
    <3>3. TruthsOf(truths, c) # {}
      <4>1. Cardinality({}) = 0
        BY FS_EmptySet
      <4>2. ASSUME TruthsOf(truths, c) = {} PROVE d = 0
        BY <4>1, <4>2
      <4> HIDE DEF d
      <4> QED
        BY <3>2, <4>2
    <3> HIDE DEF n, d
    <3>4. d < 20000
      BY <3>1, <1>7, SMT
    <3>5. n = d
      BY <3>1, <3>2, <3>4, FullRate
    <3> QED
      BY <3>3, <3>5 DEF n, d, TruthsOf
  <2>3. \A i \in DOMAIN truths : truths[i].cls \in Gated
    <3>1. \A i \in DOMAIN truths : truths[i] \in Objects(Gated)
      OBVIOUS
    <3> QED
      BY <3>1 DEF Objects
  <2>4. Cardinality(a) = Len(truths)
    <3>1. /\ Cardinality(OfClass(a, preds, 1)) = Cardinality(TruthsOf(truths, 1))
          /\ Cardinality(OfClass(a, preds, 2)) = Cardinality(TruthsOf(truths, 2))
      BY <2>2 DEF Gated
    <3> QED
      BY <3>1, <1>4, TwoClasses
  <2>5. Gated = {truths[i].cls : i \in DOMAIN truths}
    BY <2>2, <2>3
  <2> QED
    BY <2>4, <2>5, <1>4
<1>8. Honest(recalls, preds, truths)
  BY <1>6, <1>7 DEF Honest
<1> QED
  BY <1>8 DEF recalls

-----------------------------------------------------------------------------
(***************************************************************************)
(* Labels: a name keeps its number.                                        *)
(***************************************************************************)

\* A name that stands in a list has the number of its last place, counted from zero.
LEMMA IndexIs ==
  ASSUME NEW names, NEW n \in Nat, DOMAIN names = 1 .. n, NEW name
  PROVE  /\ name \in ToSet(names) =>
              /\ IndexOf(name, names) \in 0 .. n - 1
              /\ names[IndexOf(name, names) + 1] = name
         /\ name \notin ToSet(names) => IndexOf(name, names) = Dropped
<1> DEFINE places == {i \in 1 .. n : names[i] = name}
           IsLast(i) == names[i] = name /\ \A j \in DOMAIN names : names[j] = name => j <= i
<1>1. name \in ToSet(names) <=> \E i \in DOMAIN names : names[i] = name
  BY DEF ToSet
<1>2. IndexOf(name, names) = IF \E i \in DOMAIN names : names[i] = name
                             THEN (CHOOSE i \in DOMAIN names : IsLast(i)) - 1 ELSE Dropped
  BY DEF IndexOf
<1>3. ASSUME name \in ToSet(names) PROVE \E i \in DOMAIN names : IsLast(i)
  <2>1. places \in SUBSET (1 .. n) /\ places # {}
    BY <1>1, <1>3
  <2>2. Max(places) \in places /\ \A y \in places : y <= Max(places)
    <3> HIDE DEF places
    <3> QED
      BY <2>1, MaxIsMember
  <2>3. IsLast(Max(places)) /\ Max(places) \in DOMAIN names
    BY <2>2
  <2> QED
    BY <2>3
<1> DEFINE last == CHOOSE i \in DOMAIN names : IsLast(i)
<1>4. ASSUME name \in ToSet(names) PROVE last \in 1 .. n /\ names[last] = name
  <2>1. last \in DOMAIN names /\ IsLast(last)
    BY <1>3, <1>4
  <2> HIDE DEF last
  <2> QED
    BY <2>1
<1> HIDE DEF last, IsLast
<1>5. name \in ToSet(names) => IndexOf(name, names) = last - 1
  BY <1>1, <1>2 DEF last
<1>6. last \in 1 .. n => last - 1 \in 0 .. n - 1 /\ (last - 1) + 1 = last
  OBVIOUS
<1> QED
  BY <1>1, <1>2, <1>4, <1>5, <1>6

LEMMA RemapKeepsNames ==
  ASSUME NEW boxes \in Seq([id : Int, cls : STRING]), NEW taxonomy, NEW labelMap,
         DOMAIN taxonomy \in SUBSET Int, IsFiniteSet(DOMAIN taxonomy)
  PROVE  \A i \in DOMAIN RemapFile(boxes, Ordered(taxonomy), labelMap) :
           Renamed(RemapFile(boxes, Ordered(taxonomy), labelMap)[i], boxes, taxonomy, labelMap)
<1> DEFINE names == Ordered(taxonomy)
           n == Cardinality(DOMAIN taxonomy)
           renumbered == [i \in DOMAIN boxes |->
                            [boxes[i] EXCEPT !.cls = Remapped(@, names, labelMap)]]
           I == {i \in DOMAIN boxes : renumbered[i].cls # Dropped}
           kept == RemapFile(boxes, names, labelMap)
<1>1. DOMAIN names = 1 .. n /\ n \in Nat
  BY PickedFrom DEF Ordered
<1>2. \A j \in DOMAIN boxes : boxes[j] \in [id : Int, cls : STRING]
  <2> DEFINE Named == [id : Int, cls : STRING]
  <2>1. boxes \in Seq(Named)
    OBVIOUS
  <2> HIDE DEF Named
  <2>2. \A j \in DOMAIN boxes : boxes[j] \in Named
    BY <2>1
  <2> QED
    BY <2>2 DEF Named
<1>3. kept = Picked(renumbered, I)
  BY DEF RemapFile
<1> HIDE DEF names
<1>4. \A j \in DOMAIN boxes : /\ renumbered[j].id = boxes[j].id
                              /\ renumbered[j].cls = Remapped(boxes[j].cls, names, labelMap)
  BY <1>2
<1> HIDE DEF renumbered
<1>5. I \in SUBSET (1 .. Len(boxes)) /\ Len(boxes) \in Nat
  OBVIOUS
<1>6. \A j \in I : j \in DOMAIN boxes /\ renumbered[j].cls # Dropped
  OBVIOUS
<1> HIDE DEF I, n, kept
<1>7. I \in SUBSET Int /\ IsFiniteSet(I)
  BY <1>5, FiniteDomain
<1>8. DOMAIN kept = 1 .. Cardinality(I)
      /\ \A k \in 1 .. Cardinality(I) : \E j \in I : kept[k] = renumbered[j]
  <2>1. DOMAIN Picked(renumbered, I) = 1 .. Cardinality(I)
    BY <1>7, PickedFrom
  <2>2. \A k \in 1 .. Cardinality(I) : /\ Ascending(I)[k] \in I
                                       /\ Picked(renumbered, I)[k] = renumbered[Ascending(I)[k]]
    BY <1>7, PickedFrom
  <2> QED
    BY <2>1, <2>2, <1>3
<1>9. ASSUME NEW k \in DOMAIN kept PROVE Renamed(kept[k], boxes, taxonomy, labelMap)
  <2>1. PICK j \in I : kept[k] = renumbered[j]
    BY <1>8
  <2> DEFINE name == boxes[j].cls
             cls == kept[k].cls
  <2>2. /\ j \in DOMAIN boxes /\ kept[k].id = boxes[j].id
        /\ cls = Remapped(name, names, labelMap) /\ cls # Dropped
    BY <2>1, <1>4, <1>6
  <2>3. LabelOf(cls, taxonomy) = names[cls + 1]
    BY DEF LabelOf, names
  <2> HIDE DEF name, cls
  <2>4. LabelOf(cls, taxonomy) = IF name \in ToSet(names) THEN name ELSE labelMap[name]
    <3>1. CASE name \in ToSet(names)
      <4>1. IndexOf(name, names) \in 0 .. n - 1 /\ names[IndexOf(name, names) + 1] = name
        BY <1>1, <3>1, IndexIs
      <4>2. IndexOf(name, names) # Dropped
        BY <4>1 DEF Dropped
      <4>3. cls = IndexOf(name, names)
        BY <2>2, <4>2 DEF Remapped
      <4> QED
        BY <2>3, <3>1, <4>1, <4>3
    <3>2. CASE name \notin ToSet(names)
      <4>1. IndexOf(name, names) = Dropped
        BY <1>1, <3>2, IndexIs
      <4>2. cls = IndexOf(labelMap[name], names)
        BY <2>2, <4>1 DEF Remapped
      <4>3. labelMap[name] \in ToSet(names)
        BY <1>1, <2>2, <4>2, IndexIs
      <4>4. names[IndexOf(labelMap[name], names) + 1] = labelMap[name]
        BY <1>1, <4>3, IndexIs
      <4> QED
        BY <2>3, <3>2, <4>2, <4>4
    <3> QED
      BY <3>1, <3>2
  <2> QED
    BY <2>2, <2>4 DEF Renamed, name, cls, names
<1> QED
  BY <1>9 DEF kept, names

-----------------------------------------------------------------------------
\* What each stage knows of the ones before it.
DataInv ==
  /\ stage \in {"image", "detected", "scored", "heard", "explaining"} => sample \in CaseSamples
  /\ stage \in {"detected", "scored", "heard", "explaining"} => dets \in Seq(RawDetections)
  /\ stage \in {"scored", "heard", "explaining"} =>
       risk = ComputeRisk(dets, LoadRiskConfig(sample.yaml))

\* What the detector returns is what the rule engine takes.
LEMMA FoundIsRaw ==
  ASSUME NEW answer \in Seq(Candidates), NEW image \in ImageSizes, NEW labels \in Seq(Int)
  PROVE  LET found == Detect(answer, image, labels)
         IN  [i \in DOMAIN found |-> AsRaw(found[i])] \in Seq(RawDetections)
<1> DEFINE boxes == Decode(answer)
           K == Kept(boxes)
           m == Cardinality(K)
           kept == Ranked(K, BestFirst(boxes))
           found == Detect(answer, image, labels)
<1>1. PICK n \in Nat : boxes \in [1 .. n -> Boxes]
  BY DecodeIsBoxes
<1> HIDE DEF boxes
<1>2. K \in SUBSET (1 .. n)
  BY <1>1, SuppressionIsSound
<1> HIDE DEF K
<1>3. IsFiniteSet(K) /\ K \in SUBSET Int /\ m \in 0 .. n
  BY <1>2, FiniteDomain
<1>5. StrictOrder(K, BestFirst(boxes))
  BY <1>1, <1>2, BestFirstIsOrder
<1>6. kept \in Bijection(1 .. m, K)
  BY <1>3, <1>5, RankedInOrder
<1>7. found = [i \in DOMAIN kept |-> Detection(boxes[kept[i]], image, labels)]
  BY DEF Detect, boxes, K
<1> HIDE DEF kept, found, m
<1>8. DOMAIN found = 1 .. m /\ m \in Nat
      /\ \A i \in 1 .. m : kept[i] \in 1 .. n /\ found[i] = Detection(boxes[kept[i]], image, labels)
  <2>1. kept \in [1 .. m -> K]
    BY <1>6 DEF Bijection, Injection
  <2>2. DOMAIN kept = 1 .. m /\ \A i \in 1 .. m : kept[i] \in 1 .. n
    BY <2>1, <1>2
  <2>3. m \in Nat
    BY <1>3
  <2> QED
    BY <2>2, <2>3, <1>7
<1>9. ASSUME NEW i \in 1 .. m PROVE AsRaw(found[i]) \in RawDetections
  <2> DEFINE b == boxes[kept[i]]
  <2>1. b \in Boxes /\ b.cls \in Int /\ b.score \in Int /\ b.x1 \in Int
    BY <1>1, <1>8 DEF Boxes
  <2> HIDE DEF b
  <2> DEFINE c == IF b.cls \in DOMAIN labels THEN labels[b.cls] ELSE Len(labels) + b.cls
             x == ToPixel(b.x1, Letterbox(image).left, image, image.w)
  <2>2. c \in Int
    BY <2>1
  <2>3. x \in Int
    <3>1. Pad(image.w, image) \in Nat
      BY PadFits
    <3>2. Letterbox(image).left \in Int
      BY <3>1 DEF Letterbox
    <3>3. image.w \in Nat
      BY DEF ImageSizes
    <3>4. x \in 0 .. image.w
      BY <2>1, <3>2, <3>3, ToPixelWithin
    <3> HIDE DEF x
    <3> QED
      BY <3>3, <3>4
  <2>4. AsRaw(found[i]) = [usable |-> TRUE, cls |-> c, conf |-> b.score, box |-> x]
    <3>1. found[i] = Detection(b, image, labels)
      BY <1>8 DEF b
    <3>2. /\ Detection(b, image, labels).cls = c /\ Detection(b, image, labels).conf = b.score
          /\ Detection(b, image, labels).bbox[1] = x
      BY DEF Detection
    <3> HIDE DEF c, x
    <3> QED
      BY <3>1, <3>2 DEF AsRaw
  <2> HIDE DEF c, x
  <2> QED
    BY <2>1, <2>2, <2>3, <2>4 DEF RawDetections
<1>10. [i \in DOMAIN found |-> AsRaw(found[i])] \in [1 .. m -> RawDetections]
  BY <1>8, <1>9
<1> QED
  BY <1>8, <1>10 DEF found

\* DataInv is inductive: a case's data stay in the types the next stage takes, and
\* the stored risk is the one computed of the stored detections.
THEOREM DataInvariance == AssessmentSpec => []DataInv
<1>1. AssessmentInit => DataInv
  BY DEF AssessmentInit, DataInv
<1>2. DataInv /\ [AssessmentNext]_assessmentVars => DataInv'
  <2> SUFFICES ASSUME DataInv, [AssessmentNext]_assessmentVars PROVE DataInv'
    OBVIOUS
  <2>1. CASE Look
    <3>1. stage = "image" /\ stage' = "detected" /\ sample' = sample /\ sample \in CaseSamples
      BY <2>1 DEF Look, DataInv
    <3>2. /\ sample.answer \in Seq(Candidates) /\ sample.image \in ImageSizes
          /\ sample.labels \in Seq(Int) /\ sample.given \in Seq(RawDetections)
      BY <3>1, SampleAssumption
    <3>3. MockDetections \in Seq(RawDetections)
      BY DEF MockDetections, RawDetections
    <3>4. dets' \in Seq(RawDetections)
      <4>1. CASE Detector(sample.settings) = "mock"
        BY <4>1, <3>3, <2>1 DEF Look
      <4>2. CASE Detector(sample.settings) = "plugged in"
        BY <4>2, <3>2, <2>1 DEF Look
      <4>3. CASE Detector(sample.settings) = "onnx"
        <5>1. dets' = LET found == Detect(sample.answer, sample.image, sample.labels)
                      IN [i \in DOMAIN found |-> AsRaw(found[i])]
          BY <4>3, <2>1 DEF Look
        <5> QED
          BY <5>1, <3>2, FoundIsRaw
      <4> QED
        BY <4>1, <4>2, <4>3 DEF Detector
    <3> QED
      BY <3>1, <3>4 DEF DataInv
  <2>2. CASE Score
    BY <2>2 DEF Score, DataInv
  <2>3. CASE Listen
    BY <2>3 DEF Listen, DataInv
  <2>4. CASE Explain
    BY <2>4 DEF Explain, DataInv, results
  <2>5. CASE Hear
    BY <2>5 DEF Hear, DataInv, results
  <2>6. CASE Measure
    BY <2>6 DEF Measure, DataInv
  <2>7. CASE UNCHANGED assessmentVars
    BY <2>7 DEF assessmentVars, results, DataInv
  <2> QED
    BY <2>1, <2>2, <2>3, <2>4, <2>5, <2>6, <2>7 DEF AssessmentNext
<1> QED
  BY <1>1, <1>2, PTL DEF AssessmentSpec

\* For every square of the model, threshold, number of classes, image and answer of
\* the network, of many candidates or few, detections are sound
\* (yolo_postprocess.py lines 26-177).
THEOREM DetectionsHold == AssessmentSpec => []DetectionsAreSound
<1>1. DataInv => DetectionsAreSound
  <2> SUFFICES ASSUME DataInv, stage = "detected", Detector(sample.settings) = "onnx"
               PROVE  DetectionsAreSound
    BY DEF DetectionsAreSound
  <2> DEFINE boxes == Decode(sample.answer)
             kept == Kept(boxes)
             found == Detect(sample.answer, sample.image, sample.labels)
             frame == Letterbox(sample.image)
  <2>1. /\ sample.answer \in Seq(Candidates) /\ sample.image \in ImageSizes
    BY SampleAssumption DEF DataInv
  <2>2. PICK n \in Nat : /\ boxes \in [1 .. n -> Boxes]
                         /\ Turned(sample.answer) => AllRead(sample.answer, boxes)
    BY <2>1, DecodeIsBoxes
  <2>3. /\ \A i, j \in DOMAIN found : i < j => found[i].conf >= found[j].conf
        /\ \A i \in DOMAIN found :
             LET b == found[i].bbox IN
               /\ {b[1], b[3]} \subseteq 0 .. sample.image.w
               /\ {b[2], b[4]} \subseteq 0 .. sample.image.h
               /\ Turned(sample.answer) => b[1] <= b[3] /\ b[2] <= b[4]
    BY <2>1, DetectIsSound
  <2>4. /\ 0 <= frame.left /\ frame.left + frame.width <= ImgSize
        /\ 0 <= frame.top /\ frame.top + frame.height <= ImgSize
    BY <2>1, LetterboxFits
  <2> HIDE DEF boxes
  <2>5. /\ kept \in SUBSET (1 .. n)
        /\ \A i, j \in kept : i # j /\ boxes[i].cls = boxes[j].cls =>
             ~Overlap(boxes[i], boxes[j])
        /\ \A i \in (1 .. n) \ kept : \E k \in kept :
             /\ boxes[k].cls = boxes[i].cls /\ boxes[k].score >= boxes[i].score
             /\ Overlap(boxes[k], boxes[i])
    BY <2>2, SuppressionIsSound
  <2> HIDE DEF kept
  <2>6. ASSUME Turned(sample.answer), NEW i \in DOMAIN sample.answer,
               Decoded(sample.answer[i]).score >= Conf
        PROVE  \E k \in kept :
                 /\ boxes[k].cls = Decoded(sample.answer[i]).cls
                 /\ boxes[k].score >= Decoded(sample.answer[i]).score
                 /\ boxes[k] = Decoded(sample.answer[i]) \/ Overlap(boxes[k], Decoded(sample.answer[i]))
    <3>1. PICK l \in 1 .. n : boxes[l] = Decoded(sample.answer[i])
      BY <2>2, <2>6 DEF AllRead
    <3>2. boxes[l].score >= boxes[l].score
      BY <2>2 DEF Boxes
    <3> QED
      BY <2>5, <3>1, <3>2
  <2>7. \A i \in DOMAIN sample.answer :
          LET b == Decoded(sample.answer[i])
          IN Turned(sample.answer) /\ b.score >= Conf => \E k \in kept :
               /\ boxes[k].cls = b.cls /\ boxes[k].score >= b.score
               /\ boxes[k] = b \/ Overlap(boxes[k], b)
    BY <2>6
  <2> HIDE DEF found, frame
  <2> QED
    BY <2>3, <2>4, <2>5, <2>7 DEF DetectionsAreSound, boxes, kept, found, frame
<1> QED
  BY <1>1, DataInvariance, PTL

\* For every configuration and every detections the score is sound (scoring.py
\* lines 1-23 and 114-197).
THEOREM RiskHolds == AssessmentSpec => []RiskIsSound
<1>1. DataInv => RiskIsSound
  <2> SUFFICES ASSUME DataInv, stage = "scored" PROVE RiskIsSound
    BY DEF RiskIsSound
  <2> DEFINE cfg == LoadRiskConfig(sample.yaml)
             n == Len(dets)
             plain == \A i \in 1 .. n :
               /\ dets[i].usable /\ dets[i].conf \in 0 .. 10
               /\ Scored(dets[i], cfg) /\ Weight(dets[i].cls, cfg) * dets[i].conf \in 0 .. 99
  <2>1. /\ dets \in Seq(RawDetections) /\ risk = ComputeRisk(dets, cfg)
        /\ IsConfig(cfg) /\ MergeConfig(cfg) = cfg
    BY SampleAssumption, LoadedIsMerged DEF DataInv
  <2>2. n \in Nat /\ dets \in [1 .. n -> RawDetections] /\ DOMAIN dets = 1 .. n
    BY <2>1
  <2> HIDE DEF cfg, n
  <2>3. risk.score \in Scores
    <3> DEFINE w == [i \in 1 .. n |-> i]
    <3>1. w \in Injection(1 .. n, 1 .. n) /\ \A i \in 1 .. n : dets[i] = dets[w[i]]
      BY DEF Injection, IsInjective
    <3> HIDE DEF w
    <3>2. ComputeRisk(dets, cfg).score \in Scores
      BY <2>1, <2>2, <3>1, RiskOfPart
    <3> QED
      BY <2>1, <3>2
  <2>4. ASSUME NEW p \in Bijection(DOMAIN dets, DOMAIN dets)
        PROVE  ComputeRisk([i \in DOMAIN dets |-> dets[p[i]]], cfg) = risk
    BY <2>1, <2>2, RiskAnyOrder
  <2>5. ASSUME NEW i \in DOMAIN dets
        PROVE  ComputeRisk(Without(dets, i), cfg).score <= risk.score
    <3> DEFINE l == n - 1
               w == [j \in 1 .. l |-> IF j < i THEN j ELSE j + 1]
               part == Without(dets, i)
    <3>1. /\ n \in Nat \ {0} /\ part \in [1 .. l -> RawDetections]
          /\ w \in Injection(1 .. l, 1 .. n) /\ \A j \in 1 .. l : part[j] = dets[w[j]]
      BY <2>1, WithoutOne DEF n
    <3>2. l \in Nat
      BY <3>1
    <3> HIDE DEF l, w, part
    <3>3. ComputeRisk(part, cfg).score <= ComputeRisk(dets, cfg).score
      BY <2>1, <2>2, <3>1, <3>2, RiskOfPart
    <3> QED
      BY <2>1, <3>3 DEF part
  <2>6. LET usable == {i \in DOMAIN dets : dets[i].usable}
            advised == NotCleared = Last(risk.factors)
        IN  /\ Len(risk.factors) = Cardinality(usable) + (IF advised THEN 1 ELSE 0)
            /\ advised <=> \A i \in usable : ~Scored(Coerced(dets[i]), cfg)
    <3>1. LET factors == ComputeRisk(dets, cfg).factors
              usable == {i \in 1 .. n : dets[i].usable}
              advised == NotCleared = Last(factors)
          IN  /\ Len(factors) = Cardinality(usable) + (IF advised THEN 1 ELSE 0)
              /\ advised <=> \A i \in usable : ~Scored(Coerced(dets[i]), cfg)
      BY <2>1, <2>2, RiskAdvice
    <3> QED
      BY <2>1, <2>2, <3>1
  <2>7. ASSUME plain, n <= 3
        PROVE  risk.score - 10 * ReferenceRisk(dets, cfg).score \in -5 .. 5
    <3>1. n \in 0 .. 3
      BY <2>2, <2>7
    <3>2. ComputeRisk(dets, cfg).score - 10 * ReferenceRisk(dets, cfg).score \in -5 .. 5
      BY <2>1, <2>2, <2>7, <3>1, RiskAsReference
    <3> QED
      BY <2>1, <3>2
  <2> QED
    <3>1. plain <=> \A i \in DOMAIN dets :
                     /\ dets[i].usable /\ dets[i].conf \in 0 .. 10
                     /\ Scored(dets[i], cfg) /\ Weight(dets[i].cls, cfg) * dets[i].conf \in 0 .. 99
      BY <2>2
    <3> HIDE DEF plain
    <3>2. n = Len(dets)
      BY DEF n
    <3> QED
      BY <2>3, <2>4, <2>5, <2>6, <2>7, <3>1, <3>2 DEF RiskIsSound, cfg
<1> QED
  BY <1>1, DataInvariance, PTL

-----------------------------------------------------------------------------
\* Messages to and from the model about this case.
Sayings ==
  [role : {"system", "user"}, lang : Languages]
    \cup [role : {"user"}, facts : {Facts(dets, transcript, sample.notes, risk)}]
    \cup [role : {"assistant"}, reply : Replies]

\* The conversation is made of them.
Told == messages \in Seq(Sayings)

\* One pair of messages to begin with, another for each answer that was none,
\* and one more for the answer that was.
TalkInv ==
  /\ stage # "explaining" => messages = <<>> /\ asks = 0 /\ outcome = "none"
  /\ messages = <<>> => outcome # "asked"
  /\ messages # <<>> =>
       /\ Told
       /\ asks \in 0 .. MaxAsks /\ (outcome = "asked" => asks < MaxAsks)
       /\ Len(messages) = 2 + 2 * asks + (IF outcome = "available" THEN 1 ELSE 0)
       /\ messages[1] = [role |-> "system", lang |-> PickLanguage(transcript)]
       /\ messages[2] = [role |-> "user", facts |-> Facts(dets, transcript, sample.notes, risk)]
       /\ \A i \in 3 .. Len(messages) :
            messages[i].role = "user" => messages[i].lang = PickLanguage(transcript)
       /\ outcome = "available" => Usable(Last(messages).reply)

\* TalkInv is inductive, whatever the model replies.
THEOREM TalkInvariance == AssessmentSpec => []TalkInv
<1>1. AssessmentInit => TalkInv
  BY DEF AssessmentInit, SynthesisInit, TalkInv
<1>2. TalkInv /\ [AssessmentNext]_assessmentVars => TalkInv'
  <2> SUFFICES ASSUME TalkInv, [AssessmentNext]_assessmentVars PROVE TalkInv'
    OBVIOUS
  <2>1. CASE Look
    BY <2>1 DEF Look, TalkInv, synthesisVars
  <2>2. CASE Score
    BY <2>2 DEF Score, TalkInv, synthesisVars
  <2>3. CASE Listen
    BY <2>3 DEF Listen, TalkInv, synthesisVars
  <2>4. CASE Explain
    <3>1. messages = <<>> /\ asks = 0 /\ outcome = "none" /\ stage' = "explaining"
      BY <2>4 DEF Explain, TalkInv
    <3>2. CASE Explainer(sample.settings) = "mock"
      BY <3>1, <3>2, <2>4 DEF Explain, TalkInv
    <3>3. CASE Explainer(sample.settings) # "mock"
      <4> DEFINE facts == Facts(dets, transcript, sample.notes, risk)
                 lang == PickLanguage(transcript)
                 m1 == [role |-> "system", lang |-> lang]
                 m2 == [role |-> "user", facts |-> facts]
      <4>1. messages' = <<m1, m2>> /\ outcome' = "asked" /\ asks' = 0
        BY <3>1, <3>3, <2>4 DEF Explain, Begin
      <4>2. UNCHANGED <<sample, dets, transcript, risk>>
        BY <2>4 DEF Explain, results
      <4>3. lang \in Languages
        BY DEF PickLanguage, Languages
      <4>4. Sayings' = Sayings /\ m1 \in Sayings /\ m2 \in Sayings
        BY <4>2, <4>3 DEF Sayings
      <4>5. /\ messages'[1] = m1 /\ messages'[2] = m2 /\ Len(messages') = 2
            /\ messages' # <<>> /\ messages' \in Seq(Sayings)
        BY <4>1, <4>4
      <4>6. lang = PickLanguage(transcript)' /\ facts = Facts(dets, transcript, sample.notes, risk)'
        BY <4>2
      <4> HIDE DEF lang, facts
      <4> QED
        BY <3>1, <4>1, <4>4, <4>5, <4>6 DEF TalkInv, Told, MaxAsks
    <3> QED
      BY <3>2, <3>3
  <2>5. CASE Hear
    <3> DEFINE facts == Facts(dets, transcript, sample.notes, risk)
               lang == PickLanguage(transcript)
    <3>1. PICK reply \in Replies : Reply(reply)
      BY <2>5 DEF Hear
    <3>2. outcome = "asked" /\ messages # <<>> /\ stage = "explaining" /\ stage' = stage
      BY <3>1, <2>5 DEF Reply, TalkInv, Hear
    <3>3. UNCHANGED <<sample, dets, transcript, risk>>
      BY <2>5 DEF Hear, results
    <3>4. Sayings' = Sayings
      BY <3>3 DEF Sayings
    <3>5. /\ messages \in Seq(Sayings) /\ asks \in 0 .. 1 /\ Len(messages) = 2 + 2 * asks
          /\ messages[1] = [role |-> "system", lang |-> lang]
          /\ messages[2] = [role |-> "user", facts |-> facts]
          /\ \A i \in 3 .. Len(messages) : messages[i].role = "user" => messages[i].lang = lang
      BY <3>2 DEF TalkInv, Told, MaxAsks
    <3>6. lang = PickLanguage(transcript)' /\ facts = Facts(dets, transcript, sample.notes, risk)'
      BY <3>3
    <3>7. lang \in Languages
      BY DEF PickLanguage, Languages
    <3> HIDE DEF lang, facts
    <3> DEFINE a == [role |-> "assistant", reply |-> reply]
               u == [role |-> "user", lang |-> lang]
    <3>8. a \in Sayings /\ u \in Sayings /\ a.role = "assistant" /\ a.reply = reply
          /\ u.role = "user" /\ u.lang = lang
      BY <3>7 DEF Sayings
    <3>9. messages[1].lang = lang
      BY <3>5
    <3> HIDE DEF a, u
    <3>10. CASE reply = "error" /\ outcome' = "raised" /\ UNCHANGED <<messages, asks>>
      BY <3>2, <3>4, <3>5, <3>6, <3>10 DEF TalkInv, Told, MaxAsks
    <3>11. CASE /\ Usable(reply) /\ outcome' = "available" /\ messages' = Append(messages, a)
                /\ UNCHANGED asks
      <4>1. /\ messages' \in Seq(Sayings) /\ Len(messages') = 3 + 2 * asks /\ messages' # <<>>
            /\ \A i \in 1 .. Len(messages) : messages'[i] = messages[i]
            /\ messages'[Len(messages')] = a
        BY <3>5, <3>8, <3>11
      <4>2. \A i \in 3 .. Len(messages') : i \in 3 .. Len(messages) \/ i = Len(messages')
        BY <4>1, <3>5
      <4>3. Last(messages') = a
        BY <4>1 DEF Last
      <4>4. messages'[1] = messages[1] /\ messages'[2] = messages[2]
        BY <4>1, <3>5
      <4>5. \A i \in 3 .. Len(messages') : messages'[i].role = "user" => messages'[i].lang = lang
        BY <4>1, <4>2, <3>5, <3>8
      <4>6. outcome' = "available" /\ asks' = asks /\ asks \in Nat /\ Usable(Last(messages').reply)
        BY <3>5, <3>8, <3>11, <4>3
      <4>7. Len(messages') = 2 + 2 * asks' + (IF outcome' = "available" THEN 1 ELSE 0)
        BY <4>1, <4>6
      <4>8. asks' \in 0 .. MaxAsks
        BY <3>5, <4>6 DEF MaxAsks
      <4> QED
        BY <3>2, <3>4, <3>5, <3>6, <4>1, <4>4, <4>5, <4>6, <4>7, <4>8 DEF TalkInv, Told
    <3>12. CASE /\ asks' = asks + 1 /\ messages' = messages \o <<a, u>>
                /\ outcome' = IF asks' = MaxAsks THEN "raised" ELSE "asked"
      <4>0. <<a, u>> \in Seq(Sayings) /\ Len(<<a, u>>) = 2 /\ <<a, u>>[1] = a /\ <<a, u>>[2] = u
        BY <3>8
      <4>1. /\ messages' \in Seq(Sayings) /\ Len(messages') = Len(messages) + 2
            /\ \A i \in 1 .. Len(messages) + 2 :
                 messages'[i] = IF i <= Len(messages) THEN messages[i]
                                ELSE <<a, u>>[i - Len(messages)]
        BY <4>0, <3>5, <3>12, ConcatProperties
      <4>2. /\ \A i \in 1 .. Len(messages) : messages'[i] = messages[i]
            /\ messages'[Len(messages) + 1] = a /\ messages'[Len(messages) + 2] = u
        BY <4>0, <4>1, <3>5
      <4>3. \A i \in 3 .. Len(messages') :
              i \in 3 .. Len(messages) \/ i = Len(messages) + 1 \/ i = Len(messages) + 2
        BY <4>1, <3>5
      <4>4. messages'[1] = messages[1] /\ messages'[2] = messages[2] /\ messages' # <<>>
        BY <4>1, <4>2, <3>5
      <4>5. \A i \in 3 .. Len(messages') : messages'[i].role = "user" => messages'[i].lang = lang
        BY <4>2, <4>3, <3>5, <3>8
      <4>6. /\ asks' \in 0 .. MaxAsks /\ (outcome' = "asked" => asks' < MaxAsks)
            /\ outcome' # "available"
        BY <3>5, <3>12 DEF MaxAsks
      <4>7. Len(messages') = 2 + 2 * asks' + (IF outcome' = "available" THEN 1 ELSE 0)
        <5>1. Len(messages') = 2 + 2 * asks'
          BY <3>5, <3>12, <4>1
        <5> QED
          BY <5>1, <3>5, <3>12, <4>6
      <4> QED
        BY <3>2, <3>4, <3>5, <3>6, <4>1, <4>4, <4>5, <4>6, <4>7 DEF TalkInv, Told
    <3> QED
      BY <3>1, <3>9, <3>10, <3>11, <3>12 DEF Reply, Accepted, a, u
  <2>6. CASE Measure
    BY <2>6 DEF Measure, TalkInv, synthesisVars
  <2>7. CASE UNCHANGED assessmentVars
    <3>1. UNCHANGED <<sample, dets, transcript, risk, stage, messages, asks, outcome>>
      BY <2>7 DEF assessmentVars, results, synthesisVars
    <3>2. Sayings' = Sayings
      BY <3>1 DEF Sayings
    <3> QED
      BY <3>1, <3>2 DEF TalkInv, Told
  <2> QED
    BY <2>1, <2>2, <2>3, <2>4, <2>5, <2>6, <2>7 DEF AssessmentNext
<1> QED
  BY <1>1, <1>2, PTL DEF AssessmentSpec

\* For all detections, transcripts, notes and replies the explanation is grounded
\* (synthesis.py lines 96-175 and 292-347).
THEOREM ExplanationHolds == AssessmentSpec => []ExplanationIsGrounded
<1>1. DataInv /\ TalkInv => ExplanationIsGrounded
  <2> SUFFICES ASSUME DataInv, TalkInv, stage = "explaining", messages # <<>>
               PROVE  ExplanationIsGrounded
    BY DEF ExplanationIsGrounded
  <2> DEFINE lang == PickLanguage(transcript)
             facts == ToSet(messages[2].facts)
  <2>1. /\ asks <= MaxAsks
        /\ Len(messages) = 2 + 2 * asks + (IF outcome = "available" THEN 1 ELSE 0)
        /\ messages[1] = [role |-> "system", lang |-> lang]
        /\ messages[2] = [role |-> "user", facts |-> Facts(dets, transcript, sample.notes, risk)]
        /\ \A i \in 3 .. Len(messages) : messages[i].role = "user" => messages[i].lang = lang
        /\ outcome = "available" => Usable(Last(messages).reply)
        /\ DOMAIN messages = 1 .. Len(messages) /\ Len(messages) \in Nat
    BY DEF TalkInv, Told, MaxAsks
  <2>2. facts = ToSet(Facts(dets, transcript, sample.notes, risk))
    BY <2>1
  <2>3. Grounded(facts, dets, transcript, risk)
    <3> DEFINE n == Len(dets)
               cfg == LoadRiskConfig(sample.yaml)
    <3>1. n \in Nat /\ dets \in [1 .. n -> RawDetections] /\ risk = ComputeRisk(dets, cfg)
      BY DEF DataInv
    <3>2. MergeConfig(cfg) = cfg
      BY LoadedIsMerged
    <3> HIDE DEF n, cfg
    <3> QED
      BY <2>2, <3>1, <3>2, FactsAreGrounded
  <2>4. lang = IF transcript.language = "ru" THEN "ru" ELSE "uz"
    BY DEF PickLanguage, Languages
  <2>5. messages[1].lang = lang
    BY <2>1
  <2>6. \A i \in DOMAIN messages : messages[i].role = "user" /\ i > 2 => messages[i].lang = lang
    BY <2>1
  <2> HIDE DEF lang, facts
  <2> QED
    BY <2>1, <2>3, <2>4, <2>5, <2>6 DEF ExplanationIsGrounded, Grounded, facts
<1> QED
  BY <1>1, DataInvariance, TalkInvariance, PTL

-----------------------------------------------------------------------------
\* What the tools were given, and that the report is theirs.
BenchInv ==
  /\ stage \in {"bench", "measured"} => sample \in BenchSamples
  /\ stage = "measured" => report = Measured(sample)

\* BenchInv is inductive: the report is of the sample it stands beside.
THEOREM BenchInvariance == AssessmentSpec => []BenchInv
<1>1. AssessmentInit => BenchInv
  BY DEF AssessmentInit, BenchInv
<1>2. BenchInv /\ [AssessmentNext]_assessmentVars => BenchInv'
  <2> SUFFICES ASSUME BenchInv, [AssessmentNext]_assessmentVars PROVE BenchInv'
    OBVIOUS
  <2>1. CASE Look
    BY <2>1 DEF Look, BenchInv
  <2>2. CASE Score
    BY <2>2 DEF Score, BenchInv
  <2>3. CASE Listen
    BY <2>3 DEF Listen, BenchInv
  <2>4. CASE Explain
    BY <2>4 DEF Explain, BenchInv
  <2>5. CASE Hear
    BY <2>5 DEF Hear, BenchInv, results
  <2>6. CASE Measure
    BY <2>6 DEF Measure, BenchInv
  <2>7. CASE UNCHANGED assessmentVars
    BY <2>7 DEF assessmentVars, results, BenchInv
  <2> QED
    BY <2>1, <2>2, <2>3, <2>4, <2>5, <2>6, <2>7 DEF AssessmentNext
<1> QED
  BY <1>1, <1>2, PTL DEF AssessmentSpec

\* For every recording, length of chunk and overlap, negative ones and ones longer
\* than a chunk among them, a recording is heard whole (whisper_utils.py lines
\* 89-134, speech.py lines 165-212).
THEOREM SpeechHolds == AssessmentSpec => []SpeechIsWhole
<1>1. BenchInv => SpeechIsWhole
  <2> SUFFICES ASSUME BenchInv, stage = "measured", sample.tool = "realtime"
               PROVE  SpeechIsWhole
    BY DEF SpeechIsWhole
  <2> DEFINE rec == sample.rec
             p == PlanChunks(rec.total, sample.chunk, sample.overlap)
             n == Len(p)
             words(k) == ToSet(report[k].text)
             us == rec.utterances
  <2>1. /\ IsRecording(rec) /\ sample.chunk \in Nat \ {0} /\ sample.overlap \in Int
        /\ report = Yields(rec, sample.chunk, sample.overlap, "none")
    BY BenchAssumption DEF BenchInv, Measured
  <2> DEFINE Goal ==
        /\ rec.total > 0 => n > 0 /\ p[1].from = 0 /\ p[n].to = rec.total
        /\ \A k \in 1 .. n - 1 : /\ p[k + 1].from <= p[k].to
                                 /\ p[k].from < p[k + 1].from
                                 /\ p[k].to < p[k + 1].to
        /\ \A k \in 1 .. Len(report) - 1 : /\ report[k].partial
                                           /\ words(k) \subseteq words(k + 1)
                                           /\ report[k].progress <= report[k + 1].progress
        /\ ~Last(report).partial
        /\ rec.total > 0 => words(Len(report)) = Spoken(us)
        /\ \A k \in DOMAIN report, i, j \in DOMAIN us :
             SaidOnce(us[i], rec) /\ SaidOnce(us[j], rec) /\ us[i].end <= us[j].start =>
               \A a, b \in DOMAIN report[k].text :
                 report[k].text[a] = us[i].text /\ report[k].text[b] = us[j].text => a < b
  <2> SUFFICES Goal
    BY DEF SpeechIsWhole
  <2>2. CASE rec.total > 0
    <3>0. TellsOfPlan(report, p, rec)
      BY <2>1, <2>2, YieldsTell
    <3>1. /\ IsPlan(p, n, rec.total)
          /\ DOMAIN report = 1 .. n /\ Len(report) = n
          /\ \A k \in 1 .. n :
               /\ Transcribes(report[k].text, rec, First(p, k))
               /\ report[k].partial <=> k < n
               /\ report[k].progress = (1000 * p[k].to) \div rec.total
      BY <3>0 DEF TellsOfPlan
    <3> HIDE DEF p, n, rec
    <3>2. /\ n \in Nat \ {0} /\ p[1].from = 0 /\ p[n].to = rec.total
          /\ \A k \in 1 .. n : p[k].to \in Int
          /\ \A k \in 1 .. n - 1 : /\ p[k + 1].from <= p[k].to
                                   /\ p[k].from < p[k + 1].from
                                   /\ p[k].to < p[k + 1].to
      BY <3>1 DEF IsPlan, Chunks
    <3>3. \A k \in 1 .. n : words(k) = WordsOf(rec, First(p, k))
      BY <3>1 DEF Transcribes
    <3> HIDE DEF words
    <3>4. ASSUME NEW k \in 1 .. n - 1
          PROVE  /\ report[k].partial /\ words(k) \subseteq words(k + 1)
                 /\ report[k].progress <= report[k + 1].progress
      <4>1. k \in 1 .. n /\ k + 1 \in 1 .. n /\ k \in Nat /\ k < n
        BY <3>2
      <4>2. report[k].partial
        BY <3>1, <4>1
      <4>3. WordsOf(rec, First(p, k)) \subseteq WordsOf(rec, First(p, k + 1))
        BY <4>1, LaterHearsMore
      <4>4. words(k) \subseteq words(k + 1)
        BY <4>1, <4>3, <3>3
      <4>5. report[k].progress <= report[k + 1].progress
        <5> DEFINE x == 1000 * p[k].to
                   y == 1000 * p[k + 1].to
        <5>1. x \in Int /\ y \in Int /\ x <= y
          BY <3>2, <4>1
        <5>2. rec.total \in Nat \ {0}
          BY <2>1, <2>2 DEF IsRecording
        <5>3. report[k].progress = x \div rec.total /\ report[k + 1].progress = y \div rec.total
          BY <3>1, <4>1
        <5> HIDE DEF x, y
        <5>4. x \div rec.total <= y \div rec.total
          BY <5>1, <5>2, QuotientMonotone
        <5> QED
          BY <5>3, <5>4
      <4> QED
        BY <4>2, <4>4, <4>5
    <3>5. ~Last(report).partial
      BY <3>1, <3>2 DEF Last
    <3>6. words(Len(report)) = Spoken(us)
      <4>1. WordsOf(rec, First(p, n)) = Spoken(us)
        BY <2>1, <3>1, AllHearAll
      <4>2. n \in 1 .. n /\ Len(report) = n
        BY <3>1, <3>2
      <4>3. words(n) = WordsOf(rec, First(p, n))
        BY <4>2, <3>3
      <4> QED
        BY <4>1, <4>2, <4>3
    <3>7. ASSUME NEW k \in DOMAIN report, NEW i \in DOMAIN us, NEW j \in DOMAIN us,
                 SaidOnce(us[i], rec), SaidOnce(us[j], rec), us[i].end <= us[j].start,
                 NEW a \in DOMAIN report[k].text, NEW b \in DOMAIN report[k].text,
                 report[k].text[a] = us[i].text, report[k].text[b] = us[j].text
          PROVE  a < b
      BY <3>1, <3>7 DEF Transcribes
    <3> QED
      BY <3>1, <3>2, <3>4, <3>5, <3>6, <3>7
  <2>3. CASE ~(rec.total > 0)
    <3>1. rec.total = 0
      BY <2>1, <2>3 DEF IsRecording
    <3>2. n = 0 /\ TellsNothing(report)
      BY <2>1, <3>1, YieldsNothing
    <3> HIDE DEF n, p, rec
    <3>3. Len(report) = 1 /\ DOMAIN report = {1} /\ DOMAIN report[1].text = {}
      BY <3>2 DEF TellsNothing
    <3>4. ~Last(report).partial
      BY <3>2 DEF Last, TellsNothing
    <3> QED
      BY <2>3, <3>2, <3>3, <3>4
  <2> QED
    BY <2>2, <2>3
<1> QED
  BY <1>1, BenchInvariance, PTL

-----------------------------------------------------------------------------
\* For every pair of texts, list of predictions and ground truths, and taxonomy the
\* gates measure what they say, up to 19999 ground truths: with more, the four digits
\* of the rate hide one that was missed (evaluate_wer.py lines 49-92, evaluate.py
\* lines 40-101, prepare_dataset.py and sync_labels.py).
THEOREM EvaluationHolds == AssessmentSpec => []EvaluationIsHonest
<1>1. BenchInv => EvaluationIsHonest
  <2> SUFFICES ASSUME BenchInv, stage = "measured"
               PROVE  EvaluationIsHonest
    BY DEF EvaluationIsHonest
  <2>1. sample \in BenchSamples /\ report = Measured(sample)
    BY DEF BenchInv
  <2>2. ASSUME sample.tool = "wer", sample.ref # <<>>
        PROVE  LeastEdits(report, sample.ref, sample.hyp)
    <3> DEFINE ref == sample.ref
               hyp == sample.hyp
    <3>1. /\ ref \in Seq(STRING) /\ hyp \in Seq(STRING) /\ ref # <<>>
          /\ report = <<Wer(ref, hyp), Wer(hyp, ref), CorpusWer(<<ref, hyp>>, <<hyp, ref>>)>>
      BY <2>1, <2>2, BenchAssumption DEF Measured
    <3>2. report[1] = Wer(ref, hyp) /\ report[2] = Wer(hyp, ref)
          /\ report[3] = CorpusWer(<<ref, hyp>>, <<hyp, ref>>)
      BY <3>1
    <3> HIDE DEF ref, hyp
    <3>3. Wer(ref, hyp) = Rate(Min(Costs(ref, hyp)), Len(ref))
      BY <3>1, EditDistanceIsLeast DEF Wer
    <3>4. hyp # <<>> =>
            report[3] \in Min({report[1], report[2]}) .. Max({report[1], report[2]})
      BY <3>1, <3>2, CorpusBetween
    <3>5. LeastEdits(report, ref, hyp)
      BY <3>2, <3>3, <3>4 DEF LeastEdits
    <3> QED
      BY <3>5 DEF ref, hyp
  <2>3. ASSUME sample.tool = "recall" PROVE Honest(report, sample.preds, sample.truths)
    <3>1. /\ sample.preds \in Seq(Objects(Gated)) /\ sample.truths \in Seq(Objects(Gated))
          /\ report = Recalls(sample.preds, sample.truths, Gated, 50)
      BY <2>1, <2>3, BenchAssumption DEF Measured
    <3> QED
      BY <3>1, RecallsAreHonest
  <2>4. ASSUME sample.tool = "labels", Syncable(sample.taxonomy)
        PROVE  \A i \in DOMAIN report :
                 Renamed(report[i], sample.boxes, sample.taxonomy, sample.map)
    <3>1. /\ sample.boxes \in Seq([id : Int, cls : STRING])
          /\ IsFiniteSet(DOMAIN sample.taxonomy)
          /\ report = RemapFile(sample.boxes, Ordered(sample.taxonomy), sample.map)
      BY <2>1, <2>4, BenchAssumption DEF Measured
    <3>2. DOMAIN sample.taxonomy \in SUBSET Int
      <4>1. Cardinality(DOMAIN sample.taxonomy) \in Nat
        BY <3>1, FS_CardinalityType
      <4> QED
        BY <4>1, <2>4 DEF Syncable
    <3> QED
      BY <3>1, <3>2, RemapKeepsNames
  <2> QED
    BY <2>2, <2>3, <2>4 DEF EvaluationIsHonest
<1> QED
  BY <1>1, BenchInvariance, PTL

=============================================================================
