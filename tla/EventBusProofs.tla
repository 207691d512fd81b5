--------------------------- MODULE EventBusProofs ---------------------------
(***************************************************************************)
(* Proofs about EventBus, for every set of subscriptions and cases, every  *)
(* size of a buffer and any number of events.                              *)
(***************************************************************************)
EXTENDS EventBus, FiniteSetTheorems, TLAPS

Elems(b) == {b[i] : i \in 1 .. Len(b)}

Increasing(b) == \A i, j \in 1 .. Len(b) : i < j => b[i] < b[j]

\* Each event asked for is given, waits or is lost.
Accounted(s) ==
  /\ Expected(s) = given[s] \cup Waiting(s) \cup lost[s]
  /\ given[s] \cap Waiting(s) = {} /\ given[s] \cap lost[s] = {}
  /\ Waiting(s) \cap lost[s] = {}
  /\ IsFiniteSet(lost[s]) /\ dropped[s] = Cardinality(lost[s])

Ordered(s) ==
  /\ Increasing(buffer[s])
  /\ \A n \in Waiting(s) : \A m \in given[s] \cup lost[s] : m < n

\* Where the listener is: at what it was given, or where it came in.
Placed(s) ==
  /\ joined[s] <= Len(log)
  /\ last[s] = joined[s] \/ last[s] \in given[s]

SubInv(s) == Accounted(s) /\ Ordered(s) /\ Placed(s)

BusInv == BusTypeOK /\ \A s \in open : SubInv(s)

-----------------------------------------------------------------------------
(***************************************************************************)
(* Buffers.                                                                *)
(***************************************************************************)

LEMMA TailFacts ==
  ASSUME NEW b \in Seq(Nat), b # <<>>
  PROVE  /\ Tail(b) \in Seq(Nat) /\ Len(Tail(b)) = Len(b) - 1 /\ Len(b) \in Nat \ {0}
         /\ Head(b) \in Nat /\ Head(b) \in Elems(b)
         /\ Elems(b) = {Head(b)} \cup Elems(Tail(b))
         /\ Increasing(b) => /\ Increasing(Tail(b))
                             /\ \A n \in Elems(Tail(b)) : Head(b) < n
<1>1. Tail(b) \in Seq(Nat) /\ Len(Tail(b)) = Len(b) - 1 /\ Len(b) \in Nat \ {0}
  OBVIOUS
<1>2. Head(b) = b[1] /\ \A i \in 1 .. Len(Tail(b)) : Tail(b)[i] = b[i + 1]
  OBVIOUS
<1>3. Head(b) \in Nat /\ Head(b) \in Elems(b)
  BY <1>1, <1>2 DEF Elems
<1>4. Elems(b) = {Head(b)} \cup Elems(Tail(b))
  <2>1. ASSUME NEW i \in 1 .. Len(b) PROVE b[i] \in {Head(b)} \cup Elems(Tail(b))
    <3>1. CASE i = 1
      BY <3>1, <1>2
    <3>2. CASE i # 1
      <4>1. i - 1 \in 1 .. Len(Tail(b)) /\ (i - 1) + 1 = i
        BY <3>2, <1>1
      <4> QED
        BY <4>1, <1>2 DEF Elems
    <3> QED
      BY <3>1, <3>2
  <2>2. ASSUME NEW i \in 1 .. Len(Tail(b)) PROVE Tail(b)[i] \in Elems(b)
    <3>1. i + 1 \in 1 .. Len(b)
      BY <1>1
    <3> QED
      BY <3>1, <1>2 DEF Elems
  <2> QED
    BY <2>1, <2>2, <1>3 DEF Elems
<1>5. ASSUME Increasing(b)
      PROVE  Increasing(Tail(b)) /\ \A n \in Elems(Tail(b)) : Head(b) < n
  BY <1>1, <1>2, <1>5 DEF Increasing, Elems
<1> QED
  BY <1>1, <1>3, <1>4, <1>5

LEMMA AppendFacts ==
  ASSUME NEW b \in Seq(Nat), NEW n \in Nat
  PROVE  /\ Append(b, n) \in Seq(Nat) /\ Len(Append(b, n)) = Len(b) + 1
         /\ Elems(Append(b, n)) = Elems(b) \cup {n}
         /\ Increasing(b) /\ (\A m \in Elems(b) : m < n) => Increasing(Append(b, n))
<1>1. Append(b, n) \in Seq(Nat) /\ Len(Append(b, n)) = Len(b) + 1 /\ Len(b) \in Nat
  OBVIOUS
<1>2. /\ Append(b, n)[Len(b) + 1] = n
      /\ \A i \in 1 .. Len(b) : Append(b, n)[i] = b[i]
  OBVIOUS
<1>3. 1 .. Len(b) + 1 = (1 .. Len(b)) \cup {Len(b) + 1}
  BY <1>1
<1>4. Elems(Append(b, n)) = Elems(b) \cup {n}
  BY <1>1, <1>2, <1>3 DEF Elems
<1>5. Increasing(b) /\ (\A m \in Elems(b) : m < n) => Increasing(Append(b, n))
  BY <1>1, <1>2, <1>3 DEF Elems, Increasing
<1> QED
  BY <1>1, <1>4, <1>5

LEMMA ElementsAreNumbers ==
  ASSUME NEW b \in Seq(Nat)
  PROVE  Elems(b) \subseteq Nat /\ Len(b) \in Nat /\ (b = <<>> <=> Len(b) = 0)
  BY DEF Elems

LEMMA EmptyBuffer ==
  <<>> \in Seq(Nat) /\ Len(<<>>) = 0 /\ Elems(<<>>) = {} /\ Increasing(<<>>)
  BY DEF Elems, Increasing

-----------------------------------------------------------------------------
(***************************************************************************)
(* The invariant.                                                          *)
(***************************************************************************)

LEMMA BusInitInv == BusInit => BusInv
  BY BusAssumption, EmptyBuffer DEF BusInit, BusInv, BusTypeOK, About

\* What an offer does to a buffer.
LEMMA Offered ==
  ASSUME BusTypeOK, NEW s \in Sub, NEW n \in Nat
  PROVE  /\ Offer(s, n) \in Seq(Nat) /\ Len(Offer(s, n)) <= BufferMax
         /\ IsFull(s) => /\ buffer[s] # <<>>
                         /\ Elems(Offer(s, n)) = Elems(Tail(buffer[s])) \cup {n}
         /\ ~IsFull(s) => Elems(Offer(s, n)) = Elems(buffer[s]) \cup {n}
         /\ Increasing(buffer[s]) /\ (\A m \in Elems(buffer[s]) : m < n)
              => Increasing(Offer(s, n))
<1>1. buffer[s] \in Seq(Nat) /\ Len(buffer[s]) <= BufferMax /\ BufferMax \in Nat \ {0}
  BY BusAssumption DEF BusTypeOK
<1>2. CASE IsFull(s)
  <2>1. buffer[s] # <<>>
    BY <1>1, <1>2, ElementsAreNumbers DEF IsFull
  <2>2. Offer(s, n) = Append(Tail(buffer[s]), n)
    BY <1>2 DEF Offer
  <2>3. Tail(buffer[s]) \in Seq(Nat) /\ Len(Tail(buffer[s])) = Len(buffer[s]) - 1
    BY <1>1, <2>1, TailFacts
  <2>4. Len(Offer(s, n)) = Len(buffer[s])
    BY <1>1, <2>2, <2>3, AppendFacts, ElementsAreNumbers
  <2>5. ASSUME Increasing(buffer[s]), \A m \in Elems(buffer[s]) : m < n
        PROVE  Increasing(Offer(s, n))
    <3>1. Elems(Tail(buffer[s])) \subseteq Elems(buffer[s]) /\ Increasing(Tail(buffer[s]))
      BY <1>1, <2>1, <2>5, TailFacts
    <3> QED
      BY <2>2, <2>3, <2>5, <3>1, AppendFacts
  <2> QED
    BY <1>1, <1>2, <2>1, <2>2, <2>3, <2>4, <2>5, AppendFacts
<1>3. CASE ~IsFull(s)
  <2>1. Offer(s, n) = Append(buffer[s], n)
    BY <1>3 DEF Offer
  <2>2. Len(buffer[s]) + 1 <= BufferMax
    BY <1>1, <1>3, ElementsAreNumbers DEF IsFull
  <2> QED
    BY <1>1, <1>3, <2>1, <2>2, AppendFacts
<1> QED
  BY <1>2, <1>3

LEMMA LogGrows ==
  ASSUME NEW seq \in Seq(About), NEW about \in About
  PROVE  /\ Append(seq, about) \in Seq(About) /\ Len(Append(seq, about)) = Len(seq) + 1
         /\ Len(seq) \in Nat
         /\ Append(seq, about)[Len(seq) + 1] = about
         /\ \A n \in 1 .. Len(seq) : Append(seq, about)[n] = seq[n]
  OBVIOUS

\* A fan-out reaches a subscription: its newest event waits, and the oldest has
\* made room for it if the buffer was full.
LEMMA FanOutReaches ==
  ASSUME BusInv, NEW about \in About, FanOut(about), NEW s \in Reached(about)
  PROVE  SubInv(s)'
<1> DEFINE n == Len(log) + 1
<1>1. /\ s \in Sub /\ s \in open /\ open' = open /\ n \in Nat /\ Len(log) \in Nat
      /\ Matches(filter[s], about)
  BY DEF FanOut, BusInv, BusTypeOK, Reached
<1>2. /\ buffer'[s] = Offer(s, n)
      /\ filter' = filter /\ joined' = joined /\ last' = last /\ given' = given
      /\ dropped'[s] = IF IsFull(s) THEN dropped[s] + 1 ELSE dropped[s]
      /\ lost'[s] = IF IsFull(s) THEN lost[s] \cup {Head(buffer[s])} ELSE lost[s]
  BY <1>1 DEF FanOut
<1>3. /\ log \in Seq(About) /\ buffer[s] \in Seq(Nat) /\ joined[s] \in Nat
      /\ last[s] \in Nat /\ dropped[s] \in Nat /\ SubInv(s)
      /\ given[s] \subseteq Nat /\ lost[s] \subseteq Nat
  BY <1>1 DEF BusInv, BusTypeOK
<1>4. Waiting(s) = Elems(buffer[s]) /\ Waiting(s)' = Elems(buffer'[s])
  BY DEF Waiting, Elems
<1>5. Expected(s)' = Expected(s) \cup {n}
  <2>1. log' = Append(log, about)
    BY DEF FanOut
  <2>2. joined[s] <= Len(log)
    BY <1>3 DEF SubInv, Placed
  <2> QED
    BY <1>1, <1>2, <1>3, <2>1, <2>2, LogGrows DEF Expected
<1>6. \A m \in Expected(s) : m \in Nat /\ m < n
  BY <1>1, <1>3 DEF Expected
<1>7. /\ \A m \in Elems(buffer[s]) : m < n
      /\ \A m \in given[s] \cup lost[s] : m < n
  BY <1>3, <1>4, <1>6 DEF SubInv, Accounted
<1>8. Ordered(s)' /\ Accounted(s)'
  <2>1. CASE IsFull(s)
    <3>1. /\ buffer[s] # <<>>
          /\ Waiting(s)' = Elems(Tail(buffer[s])) \cup {n}
          /\ Increasing(buffer'[s])
      BY <1>1, <1>2, <1>3, <1>4, <1>7, <2>1, Offered DEF BusInv, SubInv, Ordered
    <3> DEFINE h == Head(buffer[s])
               T == Elems(Tail(buffer[s]))
    <3>2. /\ h \in Nat /\ Waiting(s) = {h} \cup T /\ \A m \in T : h < m
          /\ T \subseteq Nat
      BY <1>3, <1>4, <3>1, TailFacts, ElementsAreNumbers DEF SubInv, Ordered
    <3>3. lost'[s] = lost[s] \cup {h} /\ dropped'[s] = dropped[s] + 1
      BY <1>2, <2>1
    <3> HIDE DEF h, T, n
    <3>4. Waiting(s)' = T \cup {n}
      BY <3>1 DEF T
    <3>5. Ordered(s)'
      <4>1. \A m \in given[s] \cup lost[s] : m < h
        BY <1>3, <3>2 DEF SubInv, Ordered
      <4>2. \A k \in T \cup {n} : \A m \in given[s] \cup lost[s] \cup {h} : m < k
        <5>1. ASSUME NEW k \in T, NEW m \in given[s] \cup lost[s] \cup {h} PROVE m < k
          BY <1>3, <3>2, <4>1, <5>1
        <5>2. h < n
          BY <1>4, <1>7, <3>2
        <5> QED
          BY <1>7, <5>1, <5>2
      <4> QED
        BY <1>2, <3>1, <3>3, <3>4, <4>2 DEF Ordered
    <3>6. h \notin lost[s] /\ h \notin given[s]
      BY <1>3, <3>2 DEF SubInv, Accounted
    <3>7. IsFiniteSet(lost'[s]) /\ dropped'[s] = Cardinality(lost'[s])
      <4>1. IsFiniteSet(lost[s]) /\ dropped[s] = Cardinality(lost[s])
        BY <1>3 DEF SubInv, Accounted
      <4>2. /\ IsFiniteSet(lost[s] \cup {h})
            /\ Cardinality(lost[s] \cup {h}) = Cardinality(lost[s]) + 1
        BY <3>6, <4>1, FS_AddElement
      <4> QED
        BY <3>3, <4>1, <4>2
    <3>8. /\ Expected(s) = given[s] \cup ({h} \cup T) \cup lost[s]
          /\ given[s] \cap ({h} \cup T) = {} /\ given[s] \cap lost[s] = {}
          /\ ({h} \cup T) \cap lost[s] = {}
      BY <1>3, <3>2 DEF SubInv, Accounted
    <3>9. n \notin given[s] \cup lost[s] \cup {h} /\ h \notin T
      <4>1. h < n
        BY <1>4, <1>7, <3>2
      <4>2. n \notin given[s] \cup lost[s] /\ n # h
        BY <1>1, <1>7, <3>2, <4>1
      <4>3. h \notin T
        BY <3>2
      <4> QED
        BY <4>2, <4>3
    <3>10. /\ Expected(s)' = given'[s] \cup Waiting(s)' \cup lost'[s]
           /\ given'[s] \cap Waiting(s)' = {} /\ given'[s] \cap lost'[s] = {}
           /\ Waiting(s)' \cap lost'[s] = {}
      BY <1>2, <1>5, <3>3, <3>4, <3>8, <3>9
    <3> QED
      BY <3>5, <3>7, <3>10 DEF Accounted
  <2>2. CASE ~IsFull(s)
    <3>1. Waiting(s)' = Waiting(s) \cup {n} /\ Increasing(buffer'[s])
      BY <1>1, <1>2, <1>3, <1>4, <1>7, <2>2, Offered DEF BusInv, SubInv, Ordered
    <3>2. lost'[s] = lost[s] /\ dropped'[s] = dropped[s]
      BY <1>2, <2>2
    <3> HIDE DEF n
    <3>3. n \notin given[s] \cup lost[s]
      BY <1>1, <1>3, <1>7
    <3>4. Ordered(s)'
      BY <1>2, <1>3, <1>7, <3>1, <3>2 DEF SubInv, Ordered
    <3>5. Accounted(s)'
      BY <1>2, <1>3, <1>5, <3>1, <3>2, <3>3 DEF SubInv, Accounted
    <3> QED
      BY <3>4, <3>5
  <2> QED
    BY <2>1, <2>2
<1>9. Placed(s)'
  BY <1>1, <1>2, <1>3, LogGrows DEF FanOut, SubInv, Placed
<1> QED
  BY <1>8, <1>9 DEF SubInv

LEMMA FanOutPasses ==
  ASSUME BusInv, NEW about \in About, FanOut(about), NEW s \in open, s \notin Reached(about)
  PROVE  SubInv(s)'
<1>1. /\ s \in Sub /\ ~Matches(filter[s], about)
      /\ log \in Seq(About) /\ log' = Append(log, about)
  BY DEF FanOut, BusInv, BusTypeOK, Reached
<1>2. /\ buffer'[s] = buffer[s] /\ dropped'[s] = dropped[s] /\ lost'[s] = lost[s]
      /\ filter' = filter /\ joined' = joined /\ last' = last /\ given' = given
  BY <1>1 DEF FanOut
<1>3. /\ SubInv(s) /\ joined[s] \in Nat /\ joined[s] <= Len(log)
      /\ Len(log') = Len(log) + 1 /\ Len(log) \in Nat
  BY <1>1, LogGrows DEF BusInv, BusTypeOK, SubInv, Placed
<1>4. Expected(s)' = Expected(s)
  BY <1>1, <1>2, <1>3, LogGrows DEF Expected
<1>5. Waiting(s)' = Waiting(s)
  BY <1>2 DEF Waiting
<1>6. Accounted(s)' /\ Ordered(s)'
  BY <1>2, <1>3, <1>4, <1>5 DEF SubInv, Accounted, Ordered
<1>7. Placed(s)'
  BY <1>2, <1>3 DEF SubInv, Placed
<1> QED
  BY <1>6, <1>7 DEF SubInv

LEMMA FanOutType ==
  ASSUME BusTypeOK, NEW about \in About, FanOut(about), posted' \in Seq(About)
  PROVE  BusTypeOK'
<1> DEFINE n == Len(log) + 1
<1>1. n \in Nat /\ log' \in Seq(About)
  BY LogGrows DEF BusTypeOK, FanOut
<1>2. /\ buffer' \in [Sub -> Seq(Nat)]
      /\ \A s \in Sub : Len(buffer'[s]) <= BufferMax
  <2>1. buffer' = [s \in Sub |-> IF s \in Reached(about) THEN Offer(s, n) ELSE buffer[s]]
    BY DEF FanOut
  <2>2. \A s \in Sub : Offer(s, n) \in Seq(Nat) /\ Len(Offer(s, n)) <= BufferMax
    BY <1>1, Offered
  <2> HIDE DEF n
  <2> QED
    BY <2>1, <2>2 DEF BusTypeOK
<1>3. dropped' \in [Sub -> Nat]
  BY DEF FanOut, BusTypeOK
<1>4. lost' \in [Sub -> SUBSET Nat]
  <2> DEFINE full == {s \in Reached(about) : IsFull(s)}
  <2>1. lost' = [s \in Sub |-> IF s \in full THEN lost[s] \cup {Head(buffer[s])} ELSE lost[s]]
    BY DEF FanOut
  <2>2. \A s \in Sub : s \in full => Head(buffer[s]) \in Nat
    <3>1. ASSUME NEW s \in Sub, IsFull(s) PROVE buffer[s] # <<>> /\ buffer[s] \in Seq(Nat)
      BY <3>1, <1>1, Offered DEF BusTypeOK
    <3> QED
      BY <3>1, TailFacts
  <2> HIDE DEF full
  <2> QED
    BY <2>1, <2>2 DEF BusTypeOK
<1> QED
  BY <1>1, <1>2, <1>3, <1>4 DEF FanOut, BusTypeOK

LEMMA FanOutStep ==
  ASSUME BusInv, NEW about \in About, FanOut(about), posted' \in Seq(About)
  PROVE  BusInv'
<1>1. BusTypeOK'
  BY FanOutType DEF BusInv
<1>2. open' = open
  BY DEF FanOut
<1>3. ASSUME NEW s \in open PROVE SubInv(s)'
  BY FanOutReaches, FanOutPasses
<1> QED
  BY <1>1, <1>2, <1>3 DEF BusInv

\* A subscription whose part of the state a step leaves alone.
LEMMA Undisturbed ==
  ASSUME NEW s \in Sub, SubInv(s), log' = log, filter'[s] = filter[s],
         buffer'[s] = buffer[s], dropped'[s] = dropped[s], joined'[s] = joined[s],
         last'[s] = last[s], given'[s] = given[s], lost'[s] = lost[s]
  PROVE  SubInv(s)'
  BY DEF SubInv, Accounted, Ordered, Placed, Expected, Waiting

LEMMA SubscribeStep ==
  ASSUME BusInv, NEW s \in Sub, NEW f \in About, Subscribe(s, f)
  PROVE  BusInv'
<1>1. BusTypeOK'
  <2>1. Len(log) \in Nat /\ \A t \in Sub : Len(buffer'[t]) <= BufferMax
    BY BusAssumption, EmptyBuffer DEF BusInv, BusTypeOK, Subscribe
  <2> QED
    BY <2>1, EmptyBuffer DEF BusInv, BusTypeOK, Subscribe
<1>2. SubInv(s)'
  <2>1. /\ log' = log /\ buffer'[s] = <<>> /\ dropped'[s] = 0 /\ joined'[s] = Len(log)
        /\ last'[s] = Len(log) /\ given'[s] = {} /\ lost'[s] = {} /\ Len(log) \in Nat
    BY DEF BusInv, BusTypeOK, Subscribe
  <2>2. Expected(s)' = {} /\ Waiting(s)' = {}
    BY <2>1 DEF Expected, Waiting
  <2>3. IsFiniteSet(lost'[s]) /\ Cardinality(lost'[s]) = 0
    BY <2>1, FS_EmptySet
  <2> QED
    BY <2>1, <2>2, <2>3 DEF SubInv, Accounted, Ordered, Placed, Increasing
<1>3. ASSUME NEW t \in open, t # s PROVE SubInv(t)'
  <2>1. t \in Sub /\ SubInv(t)
    BY DEF BusInv, BusTypeOK
  <2> QED
    BY <1>3, <2>1, Undisturbed DEF Subscribe, BusInv, BusTypeOK
<1> QED
  BY <1>1, <1>2, <1>3 DEF BusInv, Subscribe

LEMMA UnsubscribeStep ==
  ASSUME BusInv, NEW s \in Sub, Unsubscribe(s)
  PROVE  BusInv'
<1>1. BusTypeOK'
  <2>1. \A t \in Sub : Len(buffer'[t]) <= BufferMax
    BY BusAssumption, EmptyBuffer DEF BusInv, BusTypeOK, Unsubscribe
  <2> QED
    BY <2>1, EmptyBuffer DEF BusInv, BusTypeOK, Unsubscribe
<1>2. ASSUME NEW t \in open, t # s PROVE SubInv(t)'
  <2>1. t \in Sub /\ SubInv(t)
    BY DEF BusInv, BusTypeOK
  <2> QED
    BY <1>2, <2>1, Undisturbed DEF Unsubscribe, BusInv, BusTypeOK
<1> QED
  BY <1>1, <1>2 DEF BusInv, Unsubscribe

LEMMA TakeStep ==
  ASSUME BusInv, NEW s \in Sub, Take(s)
  PROVE  BusInv'
<1> DEFINE h == Head(buffer[s])
           T == Elems(Tail(buffer[s]))
<1>1. /\ s \in open /\ buffer[s] # <<>> /\ buffer[s] \in Seq(Nat) /\ SubInv(s)
      /\ given[s] \subseteq Nat /\ lost[s] \subseteq Nat
      /\ buffer'[s] = Tail(buffer[s]) /\ last'[s] = h /\ given'[s] = given[s] \cup {h}
      /\ log' = log /\ filter' = filter /\ joined' = joined /\ lost' = lost
      /\ dropped' = dropped
  BY DEF BusInv, BusTypeOK, Take, TakeOldest
<1>2. /\ Tail(buffer[s]) \in Seq(Nat) /\ Len(Tail(buffer[s])) <= Len(buffer[s])
      /\ h \in Nat
  BY <1>1, TailFacts
<1>3. BusTypeOK'
  <2>1. \A t \in Sub : Len(buffer'[t]) <= BufferMax
    BY <1>1, <1>2, TailFacts, BusAssumption DEF BusInv, BusTypeOK, Take
  <2>2. /\ buffer' \in [Sub -> Seq(Nat)] /\ last' \in [Sub -> Nat]
        /\ given' \in [Sub -> SUBSET Nat]
    BY <1>2 DEF BusInv, BusTypeOK, Take, TakeOldest
  <2> QED
    BY <2>1, <2>2 DEF BusInv, BusTypeOK, Take
<1>4. SubInv(s)'
  <2>1. /\ Waiting(s) = {h} \cup T /\ Waiting(s)' = T /\ Increasing(Tail(buffer[s]))
        /\ \A m \in T : h < m
    <3>1. Waiting(s) = Elems(buffer[s]) /\ Waiting(s)' = Elems(buffer'[s])
      BY DEF Waiting, Elems
    <3>2. Increasing(buffer[s])
      BY <1>1 DEF SubInv, Ordered
    <3> QED
      BY <1>1, <3>1, <3>2, TailFacts
  <2>2. Expected(s)' = Expected(s)
    BY <1>1 DEF Expected
  <2> HIDE DEF h, T
  <2>3. h \notin T /\ T \subseteq Nat
    <3>1. T \subseteq Nat
      BY <1>2, ElementsAreNumbers DEF T
    <3> QED
      BY <1>2, <2>1, <3>1
  <2>4. /\ Expected(s) = given[s] \cup ({h} \cup T) \cup lost[s]
        /\ given[s] \cap ({h} \cup T) = {} /\ given[s] \cap lost[s] = {}
        /\ ({h} \cup T) \cap lost[s] = {}
        /\ IsFiniteSet(lost[s]) /\ dropped[s] = Cardinality(lost[s])
    BY <1>1, <2>1 DEF SubInv, Accounted
  <2>5. Accounted(s)'
    BY <1>1, <2>1, <2>2, <2>3, <2>4 DEF Accounted
  <2>6. Ordered(s)'
    BY <1>1, <2>1 DEF SubInv, Ordered
  <2>7. Placed(s)'
    BY <1>1 DEF SubInv, Placed
  <2> QED
    BY <2>5, <2>6, <2>7 DEF SubInv
<1>5. ASSUME NEW t \in open, t # s PROVE SubInv(t)'
  <2>1. t \in Sub /\ SubInv(t)
    BY DEF BusInv, BusTypeOK
  <2> QED
    BY <1>5, <2>1, Undisturbed DEF Take, BusInv, BusTypeOK
<1> QED
  BY <1>3, <1>4, <1>5 DEF BusInv, Take

LEMMA BusStep == BusInv /\ [BusNext]_busVars => BusInv'
<1> SUFFICES ASSUME BusInv, [BusNext]_busVars PROVE BusInv'
  OBVIOUS
<1>1. ASSUME NEW about \in About, Publish(about) PROVE BusInv'
  BY <1>1, FanOutStep DEF Publish, BusInv, BusTypeOK
<1>2. ASSUME NEW about \in About, Post(about) PROVE BusInv'
  <2>1. BusTypeOK'
    BY <1>2 DEF Post, BusInv, BusTypeOK
  <2>2. ASSUME NEW t \in open PROVE SubInv(t)'
    BY <1>2, Undisturbed DEF Post, BusInv, BusTypeOK
  <2> QED
    BY <1>2, <2>1, <2>2 DEF BusInv, Post
<1>3. CASE RunPosted
  <2>1. /\ Head(posted) \in About /\ Tail(posted) \in Seq(About)
    BY <1>3 DEF RunPosted, BusInv, BusTypeOK
  <2> QED
    BY <1>3, <2>1, FanOutStep DEF RunPosted
<1>4. CASE StopBus
  BY <1>4, BusAssumption, EmptyBuffer DEF StopBus, BusInv, BusTypeOK
<1>5. ASSUME NEW s \in Sub, NEW f \in About, Subscribe(s, f) PROVE BusInv'
  BY <1>5, SubscribeStep
<1>6. ASSUME NEW s \in Sub, Unsubscribe(s) PROVE BusInv'
  BY <1>6, UnsubscribeStep
<1>7. ASSUME NEW s \in Sub, Take(s) PROVE BusInv'
  BY <1>7, TakeStep
<1>8. CASE UNCHANGED busVars
  <2>1. BusTypeOK'
    BY <1>8 DEF busVars, BusInv, BusTypeOK
  <2>2. ASSUME NEW t \in open PROVE SubInv(t)'
    BY <1>8, Undisturbed DEF busVars, BusInv, BusTypeOK
  <2> QED
    BY <1>8, <2>1, <2>2 DEF BusInv, busVars
<1> QED
  BY <1>1, <1>2, <1>3, <1>4, <1>5, <1>6, <1>7, <1>8 DEF BusNext

-----------------------------------------------------------------------------
(***************************************************************************)
(* What follows for every behaviour.                                       *)
(***************************************************************************)

THEOREM BusInvariance == BusSpec => []BusInv
  BY BusInitInv, BusStep, PTL DEF BusSpec

\* No buffer ever holds more than its bound.
THEOREM BuffersAreBounded == BusSpec => []BusTypeOK
<1>1. BusInv => BusTypeOK
  BY DEF BusInv
<1> QED
  BY <1>1, BusInvariance, PTL

\* Nothing a listener asked for goes missing without being counted.
THEOREM NoSilentLoss == BusSpec => []EveryEventAccountedFor
<1>1. BusInv => EveryEventAccountedFor
  BY DEF BusInv, SubInv, Accounted, EveryEventAccountedFor
<1> QED
  BY <1>1, BusInvariance, PTL

\* What a slow listener keeps is the newest, in order.
THEOREM NewestSurvive == BusSpec => []NewestAreKept
<1>1. BusInv => NewestAreKept
  BY DEF BusInv, SubInv, Ordered, Increasing, NewestAreKept
<1> QED
  BY <1>1, BusInvariance, PTL

\* A publication, and the event about is the feed's.
LEMMA FanOutHappens ==
  ASSUME BusInv, NEW about \in About, FanOut(about)
  PROVE  F!Happen(about)
  BY DEF FanOut, F!Happen

\* Who subscribes comes in, for the subjects its filter lets through.
LEMMA SubscribeComesIn ==
  ASSUME BusInv, NEW s \in Sub, NEW f \in About, Subscribe(s, f)
  PROVE  \E subjects \in SUBSET About : F!ComeIn(s, subjects)
<1> DEFINE subjects == {about \in About : Matches(f, about)}
<1>1. subjects \in SUBSET About
  OBVIOUS
<1>2. F!ComeIn(s, subjects)
  BY DEF F!ComeIn, Subscribe, BusInv, BusTypeOK
<1> QED
  BY <1>1, <1>2

\* Who takes reads on.
LEMMA TakeReads ==
  ASSUME BusInv, NEW s \in Sub, Take(s)
  PROVE  F!Read(s)
<1> DEFINE h == Head(buffer[s])
<1>1. /\ s \in open /\ buffer[s] # <<>> /\ buffer[s] \in Seq(Nat) /\ SubInv(s)
      /\ last' = [last EXCEPT ![s] = h] /\ log' = log /\ filter' = filter
      /\ log \in Seq(About) /\ joined[s] \in Nat /\ last[s] \in Nat /\ filter[s] \in About
  BY DEF BusInv, BusTypeOK, Take, TakeOldest
<1>2. h \in Nat /\ h \in Waiting(s)
  BY <1>1, TailFacts DEF Waiting, Elems
<1>3. h \in joined[s] + 1 .. Len(log) /\ Matches(filter[s], log[h])
  BY <1>1, <1>2 DEF SubInv, Accounted, Expected
<1>4. last[s] < h
  BY <1>1, <1>2, <1>3 DEF SubInv, Ordered, Placed
<1>5. h \in last[s] + 1 .. Len(log) /\ log[h] \in About
  BY <1>1, <1>2, <1>3, <1>4
<1> HIDE DEF h
<1>6. log[h] \in [t \in Sub |-> {about \in About : Matches(filter[t], about)}][s]
  BY <1>3, <1>5
<1> QED
  BY <1>1, <1>5, <1>6 DEF F!Read

\* The bus gives its listeners nothing but the feed of LossyFeed: each of its
\* steps is one of the feed's or shows nothing of itself.
THEOREM BusImplementsFeed == BusSpec => ReadsOnward
<1>1. BusInit => F!FeedInit
  BY DEF BusInit, F!FeedInit, Matches
<1>2. BusInv /\ [BusNext]_busVars => [F!FeedNext]_(F!feedVars)
  <2> SUFFICES ASSUME BusInv, [BusNext]_busVars
               PROVE  F!FeedNext \/ UNCHANGED F!feedVars
    OBVIOUS
  <2>1. ASSUME NEW about \in About, Publish(about) PROVE F!FeedNext
    BY <2>1, FanOutHappens DEF Publish, F!FeedNext
  <2>2. CASE RunPosted
    <3>1. Head(posted) \in About
      BY <2>2 DEF RunPosted, BusInv, BusTypeOK
    <3> QED
      BY <2>2, <3>1, FanOutHappens DEF RunPosted, F!FeedNext
  <2>3. ASSUME NEW s \in Sub, NEW f \in About, Subscribe(s, f) PROVE F!FeedNext
    BY <2>3, SubscribeComesIn DEF F!FeedNext
  <2>4. ASSUME NEW s \in Sub, Take(s) PROVE F!FeedNext
    BY <2>4, TakeReads DEF F!FeedNext
  <2>5. ASSUME NEW about \in About, Post(about) PROVE UNCHANGED F!feedVars
    BY <2>5 DEF Post, F!feedVars
  <2>6. ASSUME NEW s \in Sub, Unsubscribe(s) PROVE UNCHANGED F!feedVars
    BY <2>6 DEF Unsubscribe, F!feedVars
  <2>7. CASE StopBus
    BY <2>7 DEF StopBus, F!feedVars
  <2>8. CASE UNCHANGED busVars
    BY <2>8 DEF busVars, F!feedVars
  <2> QED
    BY <2>1, <2>2, <2>3, <2>4, <2>5, <2>6, <2>7, <2>8 DEF BusNext
<1> QED
  BY <1>1, <1>2, BusInvariance, PTL DEF BusSpec, ReadsOnward, F!FeedSpec

=============================================================================
