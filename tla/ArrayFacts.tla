----------------------------- MODULE ArrayFacts -----------------------------
(***************************************************************************)
(* Facts about natural numbers, sequences and the loops of Arrays that the *)
(* proofs about the components cite.                                       *)
(***************************************************************************)
EXTENDS Arrays, FiniteSetTheorems, SequenceTheorems, TLAPS

\* A set of natural numbers has a least element: of the intervals 0..n that end
\* in it one is least, since the inclusion of finite sets is well founded.
LEMMA LeastNat ==
  ASSUME NEW T \in SUBSET Nat, T # {}
  PROVE  \E x \in T : \A y \in T : x <= y
  <1> DEFINE F == {0..n : n \in T}
  <1>1. F # {} /\ F \subseteq FiniteSubsetsOf(Nat)
    <2>1. F \subseteq SUBSET Nat
      OBVIOUS
    <2>2. \A X \in F : IsFiniteSet(X)
      <3>1. ASSUME NEW k \in Nat PROVE IsFiniteSet(0..k)
        BY FS_Interval
      <3>2. QED BY <3>1
    <2>3. QED BY <2>1, <2>2 DEF FiniteSubsetsOf
  <1>2. \E X \in F : \A Y \in F : <<Y, X>> \notin StrictSubsetOrdering(Nat)
    <2> HIDE DEF F
    <2>1. QED BY <1>1, WFMin, FS_StrictSubsetOrderingWellFounded
  <1>3. PICK x \in T : \A y \in T : <<0..y, 0..x>> \notin StrictSubsetOrdering(Nat)
    BY <1>2
  <1>4. ASSUME NEW y \in T, y < x PROVE FALSE
    <2>1. 0..y \in SUBSET Nat /\ 0..x \in SUBSET Nat
      OBVIOUS
    <2>2. 0..y \subseteq 0..x /\ x \in 0..x /\ x \notin 0..y
      BY <1>4
    <2>3. QED BY <1>3, <2>1, <2>2 DEF StrictSubsetOrdering
  <1>5. QED BY <1>4

\* Induction over the natural numbers, for a set in place of a predicate.
LEMMA SetInduction ==
  ASSUME NEW T, 0 \in T, \A n \in Nat : n \in T => n + 1 \in T
  PROVE  Nat \subseteq T
  <1>1. SUFFICES ASSUME Nat \ T # {} PROVE FALSE
    OBVIOUS
  <1>2. PICK x \in Nat \ T : \A y \in Nat \ T : x <= y
    BY <1>1, LeastNat
  <1>3. x # 0 /\ x - 1 \in Nat
    OBVIOUS
  <1>4. x - 1 \in T
    BY <1>2, <1>3
  <1>5. QED BY <1>3, <1>4

\* Induction over sequences by appending, for a set in place of a predicate.
LEMMA SeqInduction ==
  ASSUME NEW S, NEW T, <<>> \in T,
         \A s \in Seq(S), x \in S : s \in T => Append(s, x) \in T
  PROVE  Seq(S) \subseteq T
  <1> DEFINE N == {n \in Nat : \A s \in Seq(S) : Len(s) = n => s \in T}
  <1>1. 0 \in N
    <2>1. \A s \in Seq(S) : Len(s) = 0 => s = <<>>
      BY EmptySeq
    <2>2. QED BY <2>1
  <1>2. ASSUME NEW n \in Nat, n \in N PROVE n + 1 \in N
    <2>1. SUFFICES ASSUME NEW s \in Seq(S), Len(s) = n + 1 PROVE s \in T
      OBVIOUS
    <2>2. s # <<>>
      BY <2>1
    <2>3. PICK t \in Seq(S), x \in S : s = Append(t, x)
      BY <2>2, SequenceEmptyOrAppend
    <2>4. Len(t) = n
      BY <2>1, <2>3, AppendProperties, LenProperties
    <2>5. t \in T
      BY <1>2, <2>4
    <2>6. QED BY <2>3, <2>5
  <1>3. Nat \subseteq N
    <2> HIDE DEF N
    <2>1. QED BY <1>1, <1>2, SetInduction
  <1>4. QED BY <1>3, LenProperties

LoopRuns(f, a, n, F) == f[0] = a /\ \A i \in 1..n : f[i] = F[<<i, f[i - 1]>>]

\* A loop whose rounds keep to V has a value after each round.
LEMMA LoopValue ==
  ASSUME NEW V, NEW a \in V, NEW n \in Nat, NEW F \in [(1..n) \X V -> V]
  PROVE  \E f \in [0..n -> V] : LoopRuns(f, a, n, F)
  <1> DEFINE Runs(f, m) == /\ f \in [0..m -> V] /\ f[0] = a
                           /\ \A i \in 1..m : f[i] = F[<<i, f[i - 1]>>]
             T == {m \in Nat : m <= n => \E f : Runs(f, m)}
  <1>1. 0 \in T
    <2> DEFINE f == [i \in 0..0 |-> a]
    <2>1. Runs(f, 0)
      OBVIOUS
    <2>2. QED BY <2>1
  <1>2. ASSUME NEW m \in Nat, m \in T PROVE m + 1 \in T
    <2>1. SUFFICES ASSUME m + 1 <= n PROVE \E f : Runs(f, m + 1)
      OBVIOUS
    <2>2. PICK g : Runs(g, m)
      BY <1>2, <2>1
    <2> DEFINE v == F[<<m + 1, g[m]>>]
               f == [i \in 0..(m + 1) |-> IF i = m + 1 THEN v ELSE g[i]]
    <2>3. v \in V
      BY <2>1, <2>2
    <2>4. f \in [0..(m + 1) -> V] /\ f[0] = a
      BY <2>2, <2>3
    <2>5. ASSUME NEW i \in 1..(m + 1) PROVE f[i] = F[<<i, f[i - 1]>>]
      <3>1. f[i - 1] = g[i - 1]
        OBVIOUS
      <3>2. CASE i = m + 1
        BY <3>1, <3>2
      <3>3. CASE i \in 1..m
        <4>1. f[i] = g[i]
          BY <3>3
        <4>2. QED BY <2>2, <3>1, <3>3, <4>1
      <3>4. QED BY <3>2, <3>3
    <2>6. Runs(f, m + 1)
      BY <2>4, <2>5
    <2>7. QED BY <2>6
  <1>3. n \in T
    <2> HIDE DEF T
    <2>1. QED BY <1>1, <1>2, SetInduction
  <1>4. QED BY <1>3 DEF LoopRuns

SameRounds(f, g, n) == f[0] = g[0] /\ \A i \in 1..n : f[i - 1] = g[i - 1] => f[i] = g[i]

\* Two loops with the same rounds have the same values.
LEMMA LoopSame ==
  ASSUME NEW n \in Nat, NEW f, NEW g, SameRounds(f, g, n)
  PROVE  f[n] = g[n]
  <1> DEFINE T == {m \in Nat : m <= n => f[m] = g[m]}
  <1>1. 0 \in T
    BY DEF SameRounds
  <1>2. ASSUME NEW m \in Nat, m \in T PROVE m + 1 \in T
    <2>1. SUFFICES ASSUME m + 1 <= n PROVE f[m + 1] = g[m + 1]
      OBVIOUS
    <2>2. f[m] = g[m] /\ m + 1 \in 1..n /\ (m + 1) - 1 = m
      BY <1>2, <2>1
    <2>3. QED BY <2>2 DEF SameRounds
  <1>3. Nat \subseteq T
    <2> HIDE DEF T
    <2>1. QED BY <1>1, <1>2, SetInduction
  <1>4. QED BY <1>3

-----------------------------------------------------------------------------
(* The function behind the loop of Kept.                                   *)

KeptStep(s, G, f, i) ==
    IF i = 0 THEN <<>> ELSE IF s[i] \in G THEN Append(f[i - 1], s[i]) ELSE f[i - 1]

LoopOf(s, G, n, f) == f = [i \in 0..n |-> KeptStep(s, G, f, i)]

\* The loop of Kept is a function of its number of rounds.
LEMMA LoopExists ==
  ASSUME NEW s, NEW G, NEW n \in Nat
  PROVE  \E f : LoopOf(s, G, n, f)
  <1> DEFINE T == {m \in Nat : \E f : LoopOf(s, G, m, f)}
  <1>1. 0 \in T
    <2> DEFINE f == [i \in 0..0 |-> <<>>]
    <2>1. LoopOf(s, G, 0, f)
      BY DEF LoopOf, KeptStep
    <2>2. QED BY <2>1
  <1>2. ASSUME NEW m \in Nat, m \in T PROVE m + 1 \in T
    <2>1. PICK g : LoopOf(s, G, m, g)
      BY <1>2
    <2> DEFINE f == [i \in 0..(m + 1) |->
                       IF i = m + 1 THEN KeptStep(s, G, g, i) ELSE g[i]]
    <2>2. ASSUME NEW i \in 0..(m + 1) PROVE f[i] = KeptStep(s, G, f, i)
      <3>1. i # 0 => f[i - 1] = g[i - 1]
        OBVIOUS
      <3>2. KeptStep(s, G, f, i) = KeptStep(s, G, g, i)
        BY <3>1 DEF KeptStep
      <3>3. CASE i = m + 1
        BY <3>2, <3>3
      <3>4. CASE i # m + 1
        <4>1. i \in 0..m /\ f[i] = g[i]
          BY <3>4
        <4>2. g[i] = KeptStep(s, G, g, i)
          BY <2>1, <4>1 DEF LoopOf
        <4>3. QED BY <3>2, <4>1, <4>2
      <3>5. QED BY <3>3, <3>4
    <2>3. LoopOf(s, G, m + 1, f)
      BY <2>2 DEF LoopOf
    <2>4. QED BY <2>3
  <1>3. QED
    <2> HIDE DEF T
    <2>1. Nat \subseteq T
      BY <1>1, <1>2, SetInduction
    <2>2. QED BY <2>1 DEF T

\* Kept is what the loop has collected after its last round.
LEMMA KeptIsLoop ==
  ASSUME NEW s, NEW G, Len(s) \in Nat
  PROVE  \E f : LoopOf(s, G, Len(s), f) /\ Kept(s, G) = f[Len(s)]
  <1> DEFINE f == CHOOSE g : LoopOf(s, G, Len(s), g)
  <1>1. LoopOf(s, G, Len(s), f)
    BY LoopExists
  <1>2. Kept(s, G) = f[Len(s)]
    BY DEF Kept, LoopOf, KeptStep
  <1>3. QED BY <1>1, <1>2

\* The loop gives a sequence of the entries that are in G and of no others, and
\* none twice if s has none twice.
LEMMA KeptProperties ==
  ASSUME NEW S, NEW s \in Seq(S), NEW G
  PROVE  /\ Kept(s, G) \in Seq(S)
         /\ Range(Kept(s, G)) = Range(s) \cap G
         /\ Len(Kept(s, G)) <= Len(s)
         /\ (\A i, j \in DOMAIN s : s[i] = s[j] => i = j)
              => \A i, j \in DOMAIN Kept(s, G) : Kept(s, G)[i] = Kept(s, G)[j] => i = j
  <1> DEFINE n == Len(s)
             Distinct(r) == \A i, j \in DOMAIN r : r[i] = r[j] => i = j
             Good(r, m) == /\ r \in Seq(S)
                           /\ Range(r) = {s[j] : j \in 1..m} \cap G
                           /\ Len(r) <= m
                           /\ Distinct(s) => Distinct(r)
  <1>1. n \in Nat /\ DOMAIN s = 1..n /\ \A i \in 1..n : s[i] \in S
    OBVIOUS
  <1>2. PICK f : LoopOf(s, G, n, f) /\ Kept(s, G) = f[n]
    BY <1>1, KeptIsLoop
  <1>3. \A i \in 0..n : f[i] = KeptStep(s, G, f, i)
    BY <1>2 DEF LoopOf
  <1> DEFINE T == {m \in Nat : m <= n => Good(f[m], m)}
  <1>4. 0 \in T
    <2>1. f[0] = <<>>
      BY <1>1, <1>3 DEF KeptStep
    <2>2. Range(f[0]) = {} /\ {s[j] : j \in 1..0} = {} /\ DOMAIN f[0] = {}
      BY <2>1 DEF Range
    <2>3. f[0] \in Seq(S) /\ Len(f[0]) = 0
      BY <2>1
    <2>4. Good(f[0], 0)
      BY <2>2, <2>3
    <2>5. QED BY <2>4
  <1>5. ASSUME NEW m \in Nat, m \in T PROVE m + 1 \in T
    <2>1. SUFFICES ASSUME m + 1 <= n PROVE Good(f[m + 1], m + 1)
      OBVIOUS
    <2> DEFINE r == f[m]
               x == s[m + 1]
    <2>2. Good(r, m)
      BY <1>1, <1>5, <2>1
    <2>3. f[m + 1] = IF x \in G THEN Append(r, x) ELSE r
      BY <1>1, <1>3, <2>1 DEF KeptStep
    <2>4. x \in S /\ {s[j] : j \in 1..(m + 1)} = {s[j] : j \in 1..m} \cup {x}
      BY <1>1, <2>1
    <2>5. Distinct(s) => x \notin {s[j] : j \in 1..m}
      BY <1>1, <2>1
    <2> HIDE DEF r, x
    <2>6. CASE x \notin G
      <3>1. Range(r) = {s[j] : j \in 1..(m + 1)} \cap G
        BY <2>2, <2>4, <2>6
      <3>2. f[m + 1] = r
        BY <2>3, <2>6
      <3>3. Len(r) <= m + 1
        BY <2>2
      <3>4. QED BY <2>2, <3>1, <3>2, <3>3
    <2>7. CASE x \in G
      <3>1. Append(r, x) \in Seq(S) /\ Len(Append(r, x)) = Len(r) + 1
            /\ DOMAIN Append(r, x) = 1..(Len(r) + 1) /\ DOMAIN r = 1..Len(r)
            /\ \A i \in 1..Len(r) : Append(r, x)[i] = r[i]
            /\ Append(r, x)[Len(r) + 1] = x
        BY <2>2, <2>4
      <3>2. Range(Append(r, x)) = Range(r) \cup {x}
        BY <2>2, <3>1 DEF Range
      <3>3. Distinct(s) => Distinct(Append(r, x))
        <4>1. SUFFICES ASSUME Distinct(s), NEW i \in 1..(Len(r) + 1),
                              NEW j \in 1..(Len(r) + 1), Append(r, x)[i] = Append(r, x)[j]
                       PROVE  i = j
          BY <3>1
        <4>2. x \notin Range(r)
          BY <2>2, <2>5, <4>1
        <4>3. \A k \in 1..Len(r) : r[k] # x
          BY <3>1, <4>2 DEF Range
        <4>4. QED BY <2>2, <3>1, <4>1, <4>3
      <3>4. Range(Append(r, x)) = {s[j] : j \in 1..(m + 1)} \cap G
        BY <2>2, <2>4, <2>7, <3>2
      <3>5. f[m + 1] = Append(r, x)
        BY <2>3, <2>7
      <3>6. Len(Append(r, x)) <= m + 1
        BY <2>2, <3>1
      <3>7. QED BY <3>1, <3>3, <3>4, <3>5, <3>6
    <2>8. QED BY <2>6, <2>7
  <1>6. n \in T
    <2> HIDE DEF T
    <2>1. QED BY <1>1, <1>4, <1>5, SetInduction
  <1>7. Good(Kept(s, G), n)
    BY <1>1, <1>2, <1>6
  <1>8. Range(s) = {s[j] : j \in 1..n}
    BY <1>1 DEF Range
  <1>9. QED BY <1>7, <1>8

\* What Kept makes of an empty array and of one more entry.
LEMMA KeptNil ==
  ASSUME NEW G
  PROVE  Kept(<<>>, G) = <<>>
  <1>1. Len(<<>>) = 0
    OBVIOUS
  <1>2. PICK h : LoopOf(<<>>, G, 0, h) /\ Kept(<<>>, G) = h[0]
    BY <1>1, KeptIsLoop
  <1>3. QED BY <1>2 DEF LoopOf, KeptStep

\* One element more.
LEMMA KeptAppend ==
  ASSUME NEW S, NEW s \in Seq(S), NEW x \in S, NEW G
  PROVE  Kept(Append(s, x), G) = IF x \in G THEN Append(Kept(s, G), x) ELSE Kept(s, G)
  <1> DEFINE n == Len(s)
             t == Append(s, x)
  <1>1. n \in Nat /\ Len(t) = n + 1 /\ t[n + 1] = x /\ \A i \in 1..n : t[i] = s[i]
    BY AppendProperties, LenProperties
  <1>2. PICK f : LoopOf(s, G, n, f) /\ Kept(s, G) = f[n]
    BY <1>1, KeptIsLoop
  <1> HIDE DEF n, t
  <1>0. Len(t) \in Nat
    BY <1>1
  <1>3. PICK g : LoopOf(t, G, Len(t), g) /\ Kept(t, G) = g[Len(t)]
    BY <1>0, KeptIsLoop
  <1>4. \A i \in 0..n : f[i] = KeptStep(s, G, f, i)
    BY <1>1, <1>2 DEF LoopOf
  <1>5. \A i \in 0..(n + 1) : g[i] = KeptStep(t, G, g, i)
    BY <1>1, <1>3 DEF LoopOf
  <1>6. f[0] = g[0]
    BY <1>1, <1>4, <1>5 DEF KeptStep
  <1>7. ASSUME NEW i \in 1..n, f[i - 1] = g[i - 1] PROVE f[i] = g[i]
    BY <1>1, <1>4, <1>5, <1>7 DEF KeptStep
  <1>8. f[n] = g[n]
    <2>1. \A i \in 1..n : f[i - 1] = g[i - 1] => f[i] = g[i]
      BY <1>7
    <2>2. n \in Nat
      BY <1>1
    <2>3. SameRounds(f, g, n)
      BY <1>6, <2>1 DEF SameRounds
    <2>4. QED BY <2>2, <2>3, LoopSame
  <1>9. g[n + 1] = IF x \in G THEN Append(g[n], x) ELSE g[n]
    BY <1>1, <1>5 DEF KeptStep
  <1>10. Kept(t, G) = IF x \in G THEN Append(Kept(s, G), x) ELSE Kept(s, G)
    BY <1>1, <1>2, <1>3, <1>8, <1>9
  <1>11. QED BY <1>10 DEF t

\* A sequence of one element that is dropped.
LEMMA KeptOne ==
  ASSUME NEW x, NEW G, x \notin G
  PROVE  Kept(<<x>>, G) = <<>>
  <1> DEFINE S == {x}
  <1>1. <<x>> = Append(<<>>, x) /\ <<>> \in Seq(S) /\ x \in S
    OBVIOUS
  <1> HIDE DEF S
  <1>2. Kept(Append(<<>>, x), G) = Kept(<<>>, G)
    BY <1>1, KeptAppend
  <1>3. QED BY <1>1, <1>2, KeptNil

\* Append and concatenation.
LEMMA ConcatAppend ==
  ASSUME NEW S, NEW s \in Seq(S), NEW t \in Seq(S), NEW x \in S
  PROVE  s \o Append(t, x) = Append(s \o t, x)
  <1>1. Append(t, x) = t \o <<x>> /\ Append(s \o t, x) = (s \o t) \o <<x>>
    BY AppendIsConcat, ConcatProperties
  <1>2. <<x>> \in Seq(S)
    OBVIOUS
  <1>3. QED BY <1>1, <1>2, ConcatAssociative

\* Kept of a concatenation.
LEMMA KeptConcat ==
  ASSUME NEW S, NEW s \in Seq(S), NEW t \in Seq(S), NEW G
  PROVE  Kept(s \o t, G) = Kept(s, G) \o Kept(t, G)
  <1> DEFINE T == {r \in Seq(S) : Kept(s \o r, G) = Kept(s, G) \o Kept(r, G)}
  <1>1. <<>> \in T
    <2>1. Kept(<<>>, G) = <<>>
      BY KeptNil
    <2>2. Kept(s, G) \in Seq(S)
      BY KeptProperties
    <2>3. QED BY <2>1, <2>2, ConcatEmptySeq
  <1>2. ASSUME NEW r \in Seq(S), NEW x \in S, r \in T PROVE Append(r, x) \in T
    <2>1. s \o Append(r, x) = Append(s \o r, x) /\ s \o r \in Seq(S) /\ Append(r, x) \in Seq(S)
      BY ConcatAppend, ConcatProperties, AppendProperties
    <2>2. Kept(s, G) \in Seq(S) /\ Kept(r, G) \in Seq(S)
      BY KeptProperties
    <2>3. Kept(s \o r, G) = Kept(s, G) \o Kept(r, G)
      BY <1>2
    <2>4. CASE x \in G
      <3>1. Kept(s \o Append(r, x), G) = Append(Kept(s \o r, G), x)
        BY <2>1, <2>4, KeptAppend
      <3>2. Kept(Append(r, x), G) = Append(Kept(r, G), x)
        BY <2>4, KeptAppend
      <3>3. Kept(s, G) \o Append(Kept(r, G), x) = Append(Kept(s, G) \o Kept(r, G), x)
        BY <2>2, ConcatAppend
      <3>4. QED BY <2>1, <2>3, <3>1, <3>2, <3>3
    <2>5. CASE x \notin G
      <3> DEFINE q == s \o r
      <3>0. q \in Seq(S)
        BY <2>1
      <3> HIDE DEF q
      <3>1. Kept(Append(q, x), G) = Kept(q, G)
        BY <2>5, <3>0, KeptAppend
      <3>2. Kept(Append(r, x), G) = Kept(r, G)
        BY <2>5, KeptAppend
      <3>3. QED BY <2>1, <2>3, <3>1, <3>2 DEF q
    <2>6. QED BY <2>4, <2>5
  <1>3. QED
    <2> HIDE DEF T
    <2>1. Seq(S) \subseteq T
      BY <1>1, <1>2, SeqInduction
    <2>2. QED BY <2>1 DEF T

\* KeptConcat as a formula.
LEMMA KeptConcats ==
  \A S, G : \A s, t \in Seq(S) : Kept(s \o t, G) = Kept(s, G) \o Kept(t, G)
  BY KeptConcat
=============================================================================
