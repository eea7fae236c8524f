---------------------------- MODULE TextOpsProofs ----------------------------
(***************************************************************************)
(* Proofs about TextOps, for texts and sessions of any length, any inputs  *)
(* and any size of the buffers.                                            *)
(***************************************************************************)
EXTENDS TextOps, ArrayFacts

White == {" ", "cr"}
Inks  == Chars \ White
\* The characters that are ever written to a file.
Plain == Chars \ {"cr"}

-----------------------------------------------------------------------------
(* Words.                                                                  *)

\* The last word and a character more.
Longer(words, c) == [words EXCEPT ![Len(words)] = Append(@, c)]

WordStep(s, white, words, i) ==
    IF s[i] \in white THEN words
    ELSE IF i = 1 \/ s[i - 1] \in white THEN Append(words, <<s[i]>>)
    ELSE Longer(words, s[i])

\* Lists of words that are not empty.
Word(S) == Seq(S) \ {<<>>}

Lists(S) == Seq(Word(S))

Grown(S, ws, vs, x) ==
    \E front \in Lists(S), w \in Word(S) :
        /\ ws = Append(front, w) /\ Append(w, x) \in Word(S)
        /\ vs = Append(front, Append(w, x))

\* Words are texts.
LEMMA ListsAreSeqs ==
  ASSUME NEW S, NEW R, S \subseteq R, NEW ws \in Lists(S)
  PROVE  ws \in Lists(R) /\ ws \in Seq(Seq(R)) /\ Len(ws) \in Nat
  <1>1. Word(S) \subseteq Word(R) /\ Word(S) \subseteq Seq(R)
    BY SeqMonotonic DEF Word
  <1>2. ws \in Seq(Word(S)) /\ Len(ws) \in Nat
    BY LenProperties DEF Lists
  <1>3. ws \in Seq(Word(R))
    BY <1>1, <1>2, SeqMonotonic
  <1>4. ws \in Seq(Seq(R))
    BY <1>1, <1>2, SeqMonotonic
  <1>5. QED BY <1>2, <1>3, <1>4 DEF Lists

\* A longer last word.
LEMMA LastLonger ==
  ASSUME NEW S, NEW ws \in Lists(S), ws # <<>>, NEW x \in S
  PROVE  /\ Longer(ws, x) \in Lists(S)
         /\ Longer(ws, x) # <<>>
         /\ Len(Longer(ws, x)) = Len(ws)
         /\ Grown(S, ws, Longer(ws, x), x)
  <1> DEFINE W == Word(S)
  <1>1. PICK front \in Seq(W), w \in W : ws = Append(front, w)
    BY SequenceEmptyOrAppend DEF Lists
  <1> DEFINE n == Len(front)
             r == Longer(ws, x)
             v == Append(w, x)
             t == Append(front, v)
  <1>2. v \in W
    BY AppendProperties DEF Word
  <1> HIDE DEF W, v
  <1>3. /\ n \in Nat /\ Len(ws) = n + 1 /\ ws[n + 1] = w /\ ws \in Seq(W)
        /\ \A i \in 1..n : ws[i] = front[i]
    BY <1>1, AppendProperties, LenProperties
  <1>4. /\ t \in Seq(W) /\ Len(t) = n + 1 /\ t[n + 1] = v
        /\ \A i \in 1..n : t[i] = front[i]
    BY <1>1, <1>2, AppendProperties, LenProperties
  <1>5. r = [ws EXCEPT ![n + 1] = v]
    BY <1>3 DEF v, Longer
  <1>6. r \in Seq(W) /\ Len(r) = n + 1 /\ \A i \in 1..(n + 1) : r[i] = IF i = n + 1 THEN v ELSE ws[i]
    <2>1. n + 1 \in 1..Len(ws) /\ ws \in Seq(W) /\ v \in W /\ Len(ws) = n + 1
      BY <1>2, <1>3
    <2> HIDE DEF n, r
    <2>2. QED BY <1>5, <2>1, ExceptSeq
  <1>7. \A i \in 1..(n + 1) : r[i] = t[i]
    BY <1>3, <1>4, <1>6
  <1>8. r = t
    BY <1>4, <1>6, <1>7, SeqEqual
  <1>9. r # <<>>
    BY <1>1, <1>2, <1>8, AppendProperties
  <1>10. QED BY <1>1, <1>2, <1>3, <1>4, <1>6, <1>8, <1>9 DEF W, v, Lists, Grown

WordsRun(f, s, white) ==
    /\ f[0] = <<>> /\ Words(s, white) = f[Len(s)]
    /\ \A i \in 1..Len(s) : f[i] = WordStep(s, white, f[i - 1], i)

\* The loop of Words.
LEMMA WordsLoop ==
  ASSUME NEW S, NEW s \in Seq(S), NEW white
  PROVE  \E f \in [0..Len(s) -> Seq(Seq(S))] : WordsRun(f, s, white)
  <1> DEFINE n == Len(s)
             V == Seq(Seq(S))
             F == [p \in (1..n) \X V |-> WordStep(s, white, p[2], p[1])]
             IsLoop(f) == f = [i \in 0..n |-> IF i = 0 THEN <<>>
                                              ELSE WordStep(s, white, f[i - 1], i)]
  <1>1. n \in Nat /\ <<>> \in V /\ \A i \in 1..n : s[i] \in S
    OBVIOUS
  <1>2. ASSUME NEW i \in 1..n, NEW v \in V PROVE WordStep(s, white, v, i) \in V
    <2>1. <<s[i]>> \in Seq(S) /\ Append(v, <<s[i]>>) \in V
      BY <1>1, AppendProperties
    <2>2. CASE v = <<>>
      <3>1. Len(v) = 0 /\ [v EXCEPT ![Len(v)] = Append(@, s[i])] = v
        BY <2>2
      <3>2. QED BY <2>1, <3>1 DEF WordStep, Longer
    <2>3. CASE v # <<>>
      <3>1. Len(v) \in 1..Len(v) /\ v[Len(v)] \in Seq(S)
        BY <2>3
      <3>2. Append(v[Len(v)], s[i]) \in Seq(S)
        BY <1>1, <3>1, AppendProperties
      <3>3. [v EXCEPT ![Len(v)] = Append(v[Len(v)], s[i])] \in V
        BY <3>1, <3>2, ExceptSeq
      <3>4. QED BY <2>1, <3>3 DEF WordStep, Longer
    <2>4. QED BY <2>2, <2>3
  <1>3. F \in [(1..n) \X V -> V]
    BY <1>2
  <1>4. \A i \in 1..n : \A v \in V : F[<<i, v>>] = WordStep(s, white, v, i)
    OBVIOUS
  <1> HIDE DEF F
  <1>5. PICK g \in [0..n -> V] : LoopRuns(g, <<>>, n, F)
    <2>1. n \in Nat
      OBVIOUS
    <2>2. <<>> \in V
      OBVIOUS
    <2> HIDE DEF n, V
    <2>3. QED BY ONLY <1>3, <2>1, <2>2, LoopValue
  <1>6. \A i \in 1..n : g[i] = WordStep(s, white, g[i - 1], i)
    <2>1. ASSUME NEW i \in 1..n PROVE g[i] = WordStep(s, white, g[i - 1], i)
      <3>1. g[i - 1] \in V
        BY <1>1, <1>5
      <3>2. QED BY <1>4, <1>5, <3>1 DEF LoopRuns
    <2>2. QED BY <2>1
  <1>7. IsLoop(g)
    BY <1>1, <1>5, <1>6 DEF LoopRuns
  <1> DEFINE h == CHOOSE f : IsLoop(f)
  <1>8. IsLoop(h)
    BY <1>7
  <1>9. Words(s, white) = h[n]
    BY DEF Words, WordStep, Longer
  <1> HIDE DEF h
  <1>10. h[n] = g[n]
    <2>1. h[0] = g[0]
      BY <1>1, <1>5, <1>8 DEF LoopRuns
    <2>2. \A i \in 1..n : h[i - 1] = g[i - 1] => h[i] = g[i]
      BY <1>1, <1>6, <1>8
    <2>3. SameRounds(h, g, n)
      BY <2>1, <2>2 DEF SameRounds
    <2>4. n \in Nat
      BY <1>1
    <2> HIDE DEF n
    <2>5. QED BY <2>3, <2>4, LoopSame
  <1>11. QED BY <1>5, <1>6, <1>9, <1>10 DEF WordsRun, LoopRuns

\* What Words makes of an empty text.
LEMMA WordsNil ==
  ASSUME NEW white
  PROVE  Words(<<>>, white) = <<>>
  <1>1. <<>> \in Seq({})
    OBVIOUS
  <1>2. PICK f : WordsRun(f, <<>>, white)
    BY <1>1, WordsLoop
  <1>3. Len(<<>>) = 0
    OBVIOUS
  <1>4. QED BY <1>2, <1>3 DEF WordsRun

\* What Words makes of one more character.
LEMMA WordsAppend ==
  ASSUME NEW S, NEW s \in Seq(S), NEW x \in S, NEW white
  PROVE  Words(Append(s, x), white) =
            IF x \in white THEN Words(s, white)
            ELSE IF s = <<>> \/ s[Len(s)] \in white THEN Append(Words(s, white), <<x>>)
            ELSE Longer(Words(s, white), x)
  <1> DEFINE n == Len(s)
             t == Append(s, x)
  <1>1. /\ n \in Nat /\ Len(t) = n + 1 /\ t[n + 1] = x /\ \A i \in 1..n : t[i] = s[i]
        /\ t \in Seq(S) /\ (s = <<>> <=> n = 0)
    BY AppendProperties, LenProperties, EmptySeq
  <1>2. PICK f : WordsRun(f, s, white)
    BY WordsLoop
  <1>3. PICK g : WordsRun(g, t, white)
    <2>1. t \in Seq(S)
      BY <1>1
    <2> HIDE DEF t
    <2>2. QED BY <2>1, WordsLoop
  <1> HIDE DEF n, t
  <1>4. f[0] = g[0]
    BY <1>2, <1>3 DEF WordsRun
  <1>5. \A i \in 1..n : f[i - 1] = g[i - 1] => f[i] = g[i]
    <2>1. ASSUME NEW i \in 1..n, NEW v PROVE WordStep(s, white, v, i) = WordStep(t, white, v, i)
      <3>1. s[i] = t[i] /\ (i = 1 \/ s[i - 1] = t[i - 1])
        BY <1>1
      <3>2. QED BY <3>1 DEF WordStep
    <2>2. \A i \in 1..n : f[i] = WordStep(s, white, f[i - 1], i)
      BY <1>2 DEF WordsRun, n
    <2>3. \A i \in 1..n : g[i] = WordStep(t, white, g[i - 1], i)
      BY <1>1, <1>3 DEF WordsRun
    <2>4. QED BY <2>1, <2>2, <2>3
  <1>6. n \in Nat
    BY <1>1
  <1>7. f[n] = g[n]
    <2>1. SameRounds(f, g, n)
      BY <1>4, <1>5 DEF SameRounds
    <2>2. QED BY <1>6, <2>1, LoopSame
  <1>8. Words(t, white) = WordStep(t, white, Words(s, white), n + 1)
    <2>1. Words(t, white) = WordStep(t, white, g[n], n + 1)
      BY <1>1, <1>3 DEF WordsRun
    <2>2. Words(s, white) = f[n] /\ f[n] = g[n]
      BY <1>1, <1>2, <1>7 DEF WordsRun, n
    <2>3. QED BY <2>1, <2>2
  <1>9. WordStep(t, white, Words(s, white), n + 1) =
          IF x \in white THEN Words(s, white)
          ELSE IF s = <<>> \/ s[n] \in white THEN Append(Words(s, white), <<x>>)
          ELSE Longer(Words(s, white), x)
    BY <1>1 DEF WordStep
  <1>10. QED BY <1>8, <1>9 DEF n, t

\* Append to the list of words, or make the last one longer.
LEMMA WordsCases ==
  ASSUME NEW s \in Seq(Chars), NEW x \in Chars, NEW white
  PROVE  LET ws == Words(s, white)
             vs == Words(Append(s, x), white)
         IN  /\ ws \in Lists(Chars \ white)
             /\ x \in white => vs = ws
             /\ x \notin white /\ (s = <<>> \/ s[Len(s)] \in white) => vs = Append(ws, <<x>>)
             /\ x \notin white /\ ~ (s = <<>> \/ s[Len(s)] \in white) =>
                  /\ Len(vs) = Len(ws)
                  /\ Grown(Chars \ white, ws, vs, x)
  <1> DEFINE C == Chars \ white
             Good(r) == /\ Words(r, white) \in Lists(C)
                        /\ r # <<>> /\ r[Len(r)] \notin white => Words(r, white) # <<>>
             T == {r \in Seq(Chars) : Good(r)}
  <1>1. <<>> \in T
    <2>1. Words(<<>>, white) = <<>> /\ <<>> \in Seq(Chars)
      BY WordsNil
    <2>2. <<>> \in Lists(C)
      BY DEF Lists
    <2>3. QED BY <2>1, <2>2
  <1>2. ASSUME NEW r \in Seq(Chars), NEW y \in Chars, Good(r)
        PROVE  /\ Good(Append(r, y))
               /\ y \notin white /\ ~ (r = <<>> \/ r[Len(r)] \in white) =>
                    /\ Len(Words(Append(r, y), white)) = Len(Words(r, white))
                    /\ Grown(C, Words(r, white), Words(Append(r, y), white), y)
    <2> DEFINE q == Append(r, y)
               ws == Words(r, white)
    <2>1. q \in Seq(Chars) /\ q # <<>> /\ q[Len(q)] = y
      BY AppendProperties, LenProperties
    <2>2. ws \in Lists(C)
      BY <1>2
    <2> HIDE DEF C
    <2>3. CASE y \in white
      <3>1. Words(q, white) = ws
        BY <2>3, WordsAppend
      <3>2. QED BY <2>1, <2>2, <2>3, <3>1
    <2>4. CASE y \notin white /\ (r = <<>> \/ r[Len(r)] \in white)
      <3>1. Words(q, white) = Append(ws, <<y>>)
        BY <2>4, WordsAppend
      <3>2. <<y>> \in Word(C)
        BY <2>4 DEF C, Word
      <3>3. Append(ws, <<y>>) \in Lists(C) /\ Append(ws, <<y>>) # <<>>
        BY <2>2, <3>2, AppendProperties DEF Lists
      <3>4. QED BY <2>1, <2>4, <3>1, <3>3
    <2>5. CASE y \notin white /\ ~ (r = <<>> \/ r[Len(r)] \in white)
      <3>1. Words(q, white) = Longer(ws, y)
        BY <2>5, WordsAppend
      <3>2. ws # <<>>
        BY <1>2, <2>5
      <3>3. y \in C
        BY <2>5 DEF C
      <3> HIDE DEF ws, q
      <3>4. /\ Longer(ws, y) \in Lists(C) /\ Longer(ws, y) # <<>>
            /\ Len(Longer(ws, y)) = Len(ws)
            /\ Grown(C, ws, Longer(ws, y), y)
        BY <2>2, <3>2, <3>3, LastLonger
      <3>5. QED BY <3>1, <3>4 DEF q, ws
    <2>6. QED BY <2>3, <2>4, <2>5
  <1>3. Good(s)
    <2> HIDE DEF Good
    <2>1. \A r \in Seq(Chars), y \in Chars : r \in T => Append(r, y) \in T
      BY <1>2, AppendProperties
    <2> HIDE DEF T
    <2>2. Seq(Chars) \subseteq T
      BY <1>1, <2>1, SeqInduction
    <2>3. QED BY <2>2 DEF T
  <1>4. /\ x \in white => Words(Append(s, x), white) = Words(s, white)
        /\ x \notin white /\ (s = <<>> \/ s[Len(s)] \in white)
             => Words(Append(s, x), white) = Append(Words(s, white), <<x>>)
    BY WordsAppend
  <1>5. QED BY <1>2, <1>3, <1>4

\* Words are not empty and hold no white space.
LEMMA WordsTyped ==
  ASSUME NEW s \in Seq(Chars), NEW white
  PROVE  /\ Words(s, white) \in Lists(Chars \ white)
         /\ Len(Words(s, white)) \in Nat
  <1>1. "x" \in Chars
    BY DEF Chars
  <1>2. Words(s, white) \in Lists(Chars \ white)
    BY <1>1, WordsCases
  <1>3. QED BY <1>2, LenProperties DEF Lists

\* More text does not have fewer words.
LEMMA WordsGrow ==
  ASSUME NEW s \in Seq(Chars), NEW t \in Seq(Chars), NEW white
  PROVE  Len(Words(s, white)) <= Len(Words(s \o t, white))
  <1> DEFINE T == {r \in Seq(Chars) : Len(Words(s, white)) <= Len(Words(s \o r, white))}
  <1>1. <<>> \in T
    <2>1. s \o <<>> = s /\ Len(Words(s, white)) \in Nat
      BY ConcatEmptySeq, WordsTyped
    <2>2. QED BY <2>1
  <1>2. ASSUME NEW r \in Seq(Chars), NEW x \in Chars, r \in T PROVE Append(r, x) \in T
    <2> DEFINE q == s \o r
               ws == Words(q, white)
               vs == Words(Append(q, x), white)
    <2>1. q \in Seq(Chars) /\ s \o Append(r, x) = Append(q, x) /\ Append(r, x) \in Seq(Chars)
      BY ConcatProperties, ConcatAppend, AppendProperties
    <2>2. Len(Words(s, white)) \in Nat /\ Len(ws) \in Nat /\ Len(Words(s, white)) <= Len(ws)
      BY <1>2, <2>1, WordsTyped
    <2> HIDE DEF q
    <2>3. /\ ws \in Lists(Chars \ white) /\ (vs = ws \/ vs = Append(ws, <<x>>) \/ Len(vs) = Len(ws))
          /\ vs = Append(ws, <<x>>) => x \notin white \/ vs = ws \/ Len(vs) = Len(ws)
      BY <2>1, WordsCases
    <2>4. Len(Append(ws, <<x>>)) = Len(ws) + 1
      <3>1. ws \in Seq(Seq(Chars)) /\ <<x>> \in Seq(Chars)
        BY <2>3, ListsAreSeqs
      <3>2. QED BY <3>1, AppendProperties
    <2>5. Len(ws) <= Len(vs) /\ Len(vs) \in Nat
      BY <2>2, <2>3, <2>4
    <2>6. Len(Words(s, white)) <= Len(vs)
      BY <2>2, <2>5
    <2>7. Len(Words(s, white)) <= Len(Words(s \o Append(r, x), white))
      BY <2>1, <2>6, Zenon
    <2>8. QED BY <2>1, <2>7
  <1>3. QED
    <2> HIDE DEF T
    <2>1. Seq(Chars) \subseteq T
      BY <1>1, <1>2, SeqInduction
    <2>2. QED BY <2>1 DEF T

\* Without carriage returns the two notions of white space are one.
LEMMA PlainChars ==
  /\ Plain \subseteq Chars /\ Inks \subseteq Plain /\ Inks \subseteq Chars
  /\ " " \in Plain /\ " " \notin Inks /\ "." \in Inks /\ "." \notin White
  /\ \A x \in Plain : x \in {" "} <=> x \in White
  BY DEF Plain, Chars, Inks, White

\* Without carriage returns the client's strtok and the engine's normalising find the
\* same words.
LEMMA PlainWords ==
  ASSUME NEW s \in Seq(Plain)
  PROVE  Words(s, {" "}) = Words(s, White)
  <1> DEFINE T == {r \in Seq(Plain) : Words(r, {" "}) = Words(r, White)}
  <1>1. <<>> \in T
    <2>1. Words(<<>>, {" "}) = <<>> /\ Words(<<>>, White) = <<>>
      BY WordsNil
    <2>2. <<>> \in Seq(Plain)
      OBVIOUS
    <2>3. QED BY <2>1, <2>2
  <1>2. ASSUME NEW r \in Seq(Plain), NEW x \in Plain, r \in T PROVE Append(r, x) \in T
    <2> DEFINE one == {" "}
    <2>1. x \in one <=> x \in White
      BY PlainChars
    <2>2. r = <<>> \/ (r[Len(r)] \in one <=> r[Len(r)] \in White)
      <3>1. CASE r # <<>>
        <4>1. r[Len(r)] \in Plain
          BY <3>1
        <4>2. QED BY <4>1, PlainChars
      <3>2. QED BY <3>1
    <2>3. Append(r, x) \in Seq(Plain) /\ Words(r, one) = Words(r, White)
      BY <1>2, AppendProperties
    <2> HIDE DEF one
    <2>4. Words(Append(r, x), one) =
            IF x \in one THEN Words(r, one)
            ELSE IF r = <<>> \/ r[Len(r)] \in one THEN Append(Words(r, one), <<x>>)
            ELSE Longer(Words(r, one), x)
      BY WordsAppend
    <2>5. Words(Append(r, x), White) =
            IF x \in White THEN Words(r, White)
            ELSE IF r = <<>> \/ r[Len(r)] \in White THEN Append(Words(r, White), <<x>>)
            ELSE Longer(Words(r, White), x)
      BY WordsAppend
    <2>6. Words(Append(r, x), one) = Words(Append(r, x), White)
      BY ONLY <2>1, <2>2, <2>3, <2>4, <2>5
    <2>7. QED BY <2>3, <2>6 DEF one
  <1>3. QED
    <2> HIDE DEF T
    <2>1. Seq(Plain) \subseteq T
      BY <1>1, <1>2, SeqInduction
    <2>2. QED BY <2>1 DEF T

\* Unless a carriage return begins one, cmd_write counts no more words in an
\* update than apply_updates inserts.
LEMMA ClientCountsFewer ==
  ASSUME NEW text \in Seq(Chars), ~ StrayReturn(text)
  PROVE  Len(Words(text, {" "})) <= Len(Words(text, White))
  <1> DEFINE one == {" "}
             Good(r) == ~ StrayReturn(r) => Len(Words(r, one)) <= Len(Words(r, White))
             T == {r \in Seq(Chars) : Good(r)}
  <1>1. <<>> \in T
    <2>1. Words(<<>>, one) = <<>> /\ Words(<<>>, White) = <<>>
      BY WordsNil
    <2>2. <<>> \in Seq(Chars) /\ Len(<<>>) = 0
      OBVIOUS
    <2>3. Len(Words(<<>>, one)) = 0 /\ Len(Words(<<>>, White)) = 0
      BY <2>1, <2>2, Zenon
    <2>4. Len(Words(<<>>, one)) <= Len(Words(<<>>, White))
      <3> DEFINE a == Len(Words(<<>>, one))
                 b == Len(Words(<<>>, White))
      <3>1. a = 0 /\ b = 0
        BY <2>3
      <3> HIDE DEF a, b
      <3>2. a <= b
        BY <3>1
      <3>3. QED BY <3>2 DEF a, b
    <2>5. Good(<<>>)
      BY <2>4
    <2> HIDE DEF Good
    <2>6. QED BY <2>2, <2>5
  <1>2. ASSUME NEW r \in Seq(Chars), NEW x \in Chars, r \in T PROVE Append(r, x) \in T
    <2> DEFINE t == Append(r, x)
               n == Len(r)
               u1 == Words(r, one)
               u2 == Words(r, White)
               v1 == Words(t, one)
               v2 == Words(t, White)
    <2>1. /\ t \in Seq(Chars) /\ n \in Nat /\ Len(t) = n + 1
          /\ t[n + 1] = x /\ \A i \in 1..n : t[i] = r[i]
      BY AppendProperties, LenProperties
    <2>0. r = <<>> => n = 0
      BY EmptySeq
    <2>2. DOMAIN t = 1..(n + 1) /\ DOMAIN r = 1..n
      BY <2>1, LenProperties
    <2>3. SUFFICES ASSUME ~ StrayReturn(t) PROVE Len(v1) <= Len(v2)
      BY <2>1
    <2> HIDE DEF t, n
    <2>4. ~ StrayReturn(r)
      <3>1. ASSUME NEW i \in 1..n, r[i] = "cr" /\ (i = 1 \/ r[i - 1] = " ") PROVE FALSE
        <4>0. i \in 1..(n + 1)
          BY <2>1
        <4>1. t[i] = "cr"
          BY <2>1, <3>1
        <4>3. i = 1 \/ t[i - 1] = " "
          <5>1. CASE i # 1
            <6>1. i - 1 \in 1..n
              BY <2>1, <5>1
            <6>2. t[i - 1] = r[i - 1]
              BY <2>1, <6>1
            <6>3. QED BY <3>1, <5>1, <6>2
          <5>2. QED BY <5>1
        <4>2. QED BY <2>2, <2>3, <4>0, <4>1, <4>3 DEF StrayReturn
      <3>2. QED BY <2>2, <3>1 DEF StrayReturn
    <2>5. x = "cr" => r # <<>> /\ r[n] # " "
      <3>1. SUFFICES ASSUME x = "cr", r = <<>> \/ r[n] = " " PROVE FALSE
        OBVIOUS
      <3>4. n + 1 \in 1..(n + 1) /\ (n + 1) - 1 = n
        BY <2>1
      <3>6. t[n + 1] = "cr"
        BY <2>1, <3>1
      <3>5. n + 1 = 1 \/ t[n] = " "
        <4>1. CASE n # 0
          <5>1. n \in 1..n
            BY <2>1, <4>1
          <5>2. QED BY <2>0, <2>1, <3>1, <4>1, <5>1
        <4>2. CASE n = 0
          BY <4>2
        <4>3. QED BY <4>1, <4>2
      <3>2. n + 1 = 1 \/ t[(n + 1) - 1] = " "
        BY <3>4, <3>5
      <3>3. QED BY <2>2, <2>3, <3>2, <3>4, <3>6 DEF StrayReturn
    <2>6. Len(u1) \in Nat /\ Len(u2) \in Nat /\ Len(u1) <= Len(u2)
      BY <1>2, <2>4, WordsTyped
    <2>7. u1 \in Seq(Seq(Chars)) /\ u2 \in Seq(Seq(Chars)) /\ <<x>> \in Seq(Chars)
      <3>1. u1 \in Lists(Chars \ one) /\ u2 \in Lists(Chars \ White)
        BY WordsTyped
      <3>2. Chars \ one \subseteq Chars /\ Chars \ White \subseteq Chars
        OBVIOUS
      <3> HIDE DEF u1, u2
      <3>3. u1 \in Seq(Seq(Chars)) /\ u2 \in Seq(Seq(Chars))
        BY <3>1, <3>2, ListsAreSeqs
      <3>4. QED BY <3>3
    <2>8. Len(Append(u1, <<x>>)) = Len(u1) + 1 /\ Len(Append(u2, <<x>>)) = Len(u2) + 1
      BY <2>7, AppendProperties
    <2> HIDE DEF one
    <2>9. /\ x \in one => v1 = u1
          /\ x \notin one /\ (r = <<>> \/ r[n] \in one) => v1 = Append(u1, <<x>>)
          /\ x \notin one /\ ~ (r = <<>> \/ r[n] \in one) => Len(v1) = Len(u1)
      BY WordsCases DEF t, n
    <2>10. /\ x \in White => v2 = u2
           /\ x \notin White /\ (r = <<>> \/ r[n] \in White) => v2 = Append(u2, <<x>>)
           /\ x \notin White /\ ~ (r = <<>> \/ r[n] \in White) => Len(v2) = Len(u2)
      BY WordsCases DEF t, n
    <2> HIDE DEF u1, u2, v1, v2
    <2>11. CASE x = "cr"
      BY <2>5, <2>6, <2>8, <2>9, <2>10, <2>11 DEF one, White
    <2>12. CASE x # "cr"
      <3>1. (x \in one <=> x \in White) /\ (r[n] \in one => r[n] \in White)
        BY <2>12 DEF one, White
      <3>2. CASE x \in White
        BY <2>6, <2>9, <2>10, <3>1, <3>2
      <3>3. CASE x \notin White /\ (r = <<>> \/ r[n] \in White)
        <4>1. Len(v2) = Len(u2) + 1 /\ Len(v1) <= Len(u1) + 1
          BY <2>6, <2>8, <2>9, <2>10, <3>1, <3>3
        <4>2. Len(v1) = Len(u1) \/ Len(v1) = Len(u1) + 1
          BY <2>6, <2>8, <2>9, <3>1, <3>3
        <4>3. QED BY <2>6, <4>1, <4>2
      <3>4. CASE x \notin White /\ ~ (r = <<>> \/ r[n] \in White)
        <4>1. Len(v2) = Len(u2) /\ Len(v1) = Len(u1)
          BY <2>9, <2>10, <3>1, <3>4
        <4>2. QED BY <2>6, <4>1
      <3>5. QED BY <3>2, <3>3, <3>4
    <2>13. QED BY <2>11, <2>12
  <1>3. Good(text)
    <2> HIDE DEF T
    <2>1. Seq(Chars) \subseteq T
      BY <1>1, <1>2, SeqInduction
    <2>2. QED BY <2>1 DEF T
  <1>4. QED BY <1>3

-----------------------------------------------------------------------------
(* Lists of words as text.                                                 *)

FlattenRun(f, ws) ==
    /\ f[0] = <<>> /\ FlattenSeq(ws) = f[Len(ws)]
    /\ \A i \in 1..Len(ws) : f[i] = f[i - 1] \o ws[i]

\* The loop of FlattenSeq, with a round for the empty list.
LEMMA FlattenLoop ==
  ASSUME NEW S, NEW ws \in Seq(Seq(S))
  PROVE  \E f \in [0..Len(ws) -> Seq(S)] : FlattenRun(f, ws)
  <1> DEFINE n == Len(ws)
             V == Seq(S)
             F == [p \in (1..n) \X V |-> p[2] \o ws[p[1]]]
             IsLoop(f) == f = [i \in 1..n |-> IF i = 1 THEN ws[i] ELSE f[i - 1] \o ws[i]]
  <1>1. n \in Nat /\ <<>> \in V /\ \A i \in 1..n : ws[i] \in V
    OBVIOUS
  <1>2. F \in [(1..n) \X V -> V]
    BY <1>1, ConcatProperties
  <1>3. \A i \in 1..n : \A v \in V : F[<<i, v>>] = v \o ws[i]
    OBVIOUS
  <1> HIDE DEF F
  <1>4. PICK g \in [0..n -> V] : LoopRuns(g, <<>>, n, F)
    <2>1. n \in Nat
      OBVIOUS
    <2>2. <<>> \in V
      OBVIOUS
    <2> HIDE DEF n, V
    <2>3. QED BY ONLY <1>2, <2>1, <2>2, LoopValue
  <1>5. \A i \in 1..n : g[i] = g[i - 1] \o ws[i]
    <2>1. ASSUME NEW i \in 1..n PROVE g[i] = g[i - 1] \o ws[i]
      <3>1. i - 1 \in 0..n /\ g \in [0..n -> V]
        BY <1>1, <1>4
      <3>2. g[i - 1] \in V
        BY <3>1
      <3>3. QED BY <1>3, <1>4, <3>2 DEF LoopRuns
    <2>2. QED BY <2>1
  <1>6. CASE n = 0
    <2>1. ws = <<>> /\ FlattenSeq(ws) = g[n]
      BY <1>4, <1>6, EmptySeq DEF FlattenSeq, LoopRuns
    <2>2. QED BY <1>4, <1>5, <2>1 DEF FlattenRun, LoopRuns
  <1>7. CASE n # 0
    <2> DEFINE e == [i \in 1..n |-> g[i]]
               h == CHOOSE f : IsLoop(f)
    <2>0. n >= 1 /\ 1 \in 1..n /\ n \in 1..n
      BY <1>1, <1>7
    <2>1. g[1] = ws[1]
      <3>0. 1 - 1 = 0
        OBVIOUS
      <3>1. g[1] = g[0] \o ws[1] /\ ws[1] \in V /\ g[0] = <<>>
        BY <1>1, <1>4, <1>5, <2>0, <3>0 DEF LoopRuns
      <3>2. QED BY <3>1, ConcatEmptySeq
    <2>2. IsLoop(e)
      <3>1. ASSUME NEW i \in 1..n PROVE e[i] = IF i = 1 THEN ws[i] ELSE e[i - 1] \o ws[i]
        <4>1. e[i] = g[i] /\ (i # 1 => e[i - 1] = g[i - 1])
          BY <1>1
        <4>2. QED BY <1>5, <2>1, <4>1
      <3>2. e = [i \in 1..n |-> e[i]]
        OBVIOUS
      <3> HIDE DEF e
      <3>3. QED BY <3>1, <3>2
    <2>3. IsLoop(h)
      BY <2>2
    <2>4. FlattenSeq(ws) = h[n]
      BY <1>7 DEF FlattenSeq
    <2> HIDE DEF h
    <2>5. h[n] = g[n]
      <3> DEFINE k == [i \in 0..n |-> IF i = 0 THEN <<>> ELSE h[i]]
      <3>1. k[0] = g[0] /\ \A i \in 1..n : k[i] = h[i]
        BY <1>1, <1>4 DEF LoopRuns
      <3>2. \A i \in 1..n : h[i] = IF i = 1 THEN ws[i] ELSE h[i - 1] \o ws[i]
        BY <2>3
      <3> HIDE DEF k
      <3>3. ASSUME NEW i \in 1..n, k[i - 1] = g[i - 1] PROVE k[i] = g[i]
        <4>1. CASE i = 1
          BY <2>1, <3>1, <3>2, <4>1
        <4>2. CASE i # 1
          <5>1. i - 1 \in 1..n
            BY <1>1, <4>2
          <5>2. h[i - 1] = g[i - 1] /\ h[i] = h[i - 1] \o ws[i]
            BY <3>1, <3>2, <3>3, <4>2, <5>1
          <5>3. QED BY <1>5, <3>1, <5>2
        <4>3. QED BY <4>1, <4>2
      <3>4. \A i \in 1..n : k[i - 1] = g[i - 1] => k[i] = g[i]
        BY <3>3
      <3>5. n \in Nat /\ k[0] = g[0]
        BY <1>1, <3>1
      <3>6. SameRounds(k, g, n)
        BY <3>4, <3>5 DEF SameRounds
      <3>7. n \in Nat
        BY <1>1
      <3>8. k[n] = g[n]
        <4> HIDE DEF n
        <4>1. QED BY <3>6, <3>7, LoopSame
      <3>9. QED BY <2>0, <3>1, <3>8
    <2>6. QED BY <1>4, <1>5, <2>0, <2>4, <2>5 DEF FlattenRun, LoopRuns
  <1>8. QED BY <1>6, <1>7

\* FlattenSeq of no words and of one word more.
LEMMA FlattenNil ==
  FlattenSeq(<<>>) = <<>>
  BY DEF FlattenSeq

\* One word more.
LEMMA FlattenAppend ==
  ASSUME NEW S, NEW ws \in Seq(Seq(S)), NEW w \in Seq(S)
  PROVE  /\ FlattenSeq(ws) \in Seq(S)
         /\ FlattenSeq(Append(ws, w)) = FlattenSeq(ws) \o w
  <1> DEFINE n == Len(ws)
             t == Append(ws, w)
  <1>1. /\ n \in Nat /\ Len(t) = n + 1 /\ t[n + 1] = w /\ \A i \in 1..n : t[i] = ws[i]
    BY AppendProperties, LenProperties
  <1>0. t \in Seq(Seq(S))
    BY AppendProperties
  <1>2. PICK f : FlattenRun(f, ws) /\ f \in [0..n -> Seq(S)]
    BY FlattenLoop
  <1> HIDE DEF n, t
  <1>3. PICK g : FlattenRun(g, t)
    BY <1>0, FlattenLoop
  <1>4. f[0] = g[0]
    BY <1>2, <1>3 DEF FlattenRun
  <1>a. n \in Nat
    BY <1>1
  <1>5. \A i \in 1..n : f[i - 1] = g[i - 1] => f[i] = g[i]
    <2>1. \A i \in 1..n : f[i] = f[i - 1] \o ws[i]
      BY <1>2 DEF FlattenRun, n
    <2>0. \A i \in 1..n : i \in 1..Len(t)
      BY <1>1
    <2>2. \A i \in 1..n : g[i] = g[i - 1] \o t[i]
      BY <2>0, <1>3 DEF FlattenRun
    <2>3. \A i \in 1..n : t[i] = ws[i]
      BY <1>1
    <2>4. QED BY ONLY <2>1, <2>2, <2>3
  <1>6. f[n] = g[n]
    <2>1. SameRounds(f, g, n)
      BY <1>4, <1>5 DEF SameRounds
    <2>2. QED BY <1>a, <2>1, LoopSame
  <1>7. FlattenSeq(ws) = f[n] /\ f[n] = g[n] /\ f[n] \in Seq(S)
    BY <1>1, <1>2, <1>6 DEF FlattenRun, n
  <1>8. FlattenSeq(t) = g[n + 1] /\ n + 1 \in 1..Len(t) /\ (n + 1) - 1 = n
    BY <1>1, <1>3 DEF FlattenRun
  <1>9. g[n + 1] = g[n] \o t[n + 1]
    BY <1>3, <1>8 DEF FlattenRun
  <1>10. QED BY <1>1, <1>7, <1>8, <1>9 DEF t


\* Concatenation, with a name.
Cat(s, t) == s \o t

\* Concatenation is associative.
LEMMA CatAssociates ==
  ASSUME NEW S, NEW d \in Seq(S), NEW e \in Seq(S), NEW c \in Seq(S)
  PROVE  Cat(Cat(d, e), c) = Cat(d, Cat(e, c)) /\ Cat(d, e) \in Seq(S)
  <1>1. (d \o e) \o c = d \o (e \o c)
    BY ConcatAssociative
  <1>2. d \o e \in Seq(S)
    BY ConcatProperties
  <1>3. QED BY <1>1, <1>2, Zenon DEF Cat

\* Two lists of words one behind the other.
LEMMA FlattenConcat ==
  ASSUME NEW S, NEW ws \in Seq(Seq(S)), NEW us \in Seq(Seq(S))
  PROVE  FlattenSeq(ws \o us) = FlattenSeq(ws) \o FlattenSeq(us)
  <1> DEFINE C == Seq(S)
             Good(vs) == FlattenSeq(ws \o vs) = FlattenSeq(ws) \o FlattenSeq(vs)
             T == {vs \in Seq(C) : Good(vs)}
  <1>0. FlattenSeq(ws) \in Seq(S)
    <2>1. <<>> \in Seq(S)
      OBVIOUS
    <2>2. QED BY <2>1, FlattenAppend
  <1>1. <<>> \in T
    <2>1. ws \o <<>> = ws
      BY ConcatEmptySeq
    <2>2. FlattenSeq(ws) \o <<>> = FlattenSeq(ws)
      BY <1>0, ConcatEmptySeq
    <2>3. Good(<<>>)
      BY <2>1, <2>2, FlattenNil, Zenon
    <2> HIDE DEF Good
    <2>4. QED BY <2>3
  <1>2. ASSUME NEW vs \in Seq(C), NEW v \in C, vs \in T PROVE Append(vs, v) \in T
    <2> DEFINE q == ws \o vs
    <2>1. q \in Seq(C)
      BY ConcatProperties
    <2>2. ws \o Append(vs, v) = Append(q, v)
      <3> HIDE DEF C
      <3>1. ws \in Seq(C)
        BY DEF C
      <3>2. QED BY <3>1, ConcatAppend
    <2>3. Append(vs, v) \in Seq(C)
      BY AppendProperties
    <2>4. FlattenSeq(vs) \in Seq(S) /\ FlattenSeq(Append(vs, v)) = FlattenSeq(vs) \o v
      BY FlattenAppend
    <2>5. FlattenSeq(q) = FlattenSeq(ws) \o FlattenSeq(vs)
      BY <1>2
    <2> HIDE DEF q
    <2>6. FlattenSeq(Append(q, v)) = FlattenSeq(q) \o v
      BY <2>1, FlattenAppend
    <2> DEFINE a == FlattenSeq(ws)
               b == FlattenSeq(vs)
    <2>7. a \in Seq(S) /\ b \in Seq(S) /\ v \in Seq(S)
      BY <1>0, <2>4
    <2> HIDE DEF a, b
    <2>8. (a \o b) \o v = a \o (b \o v)
      <3>1. Cat(Cat(a, b), v) = Cat(a, Cat(b, v))
        BY <2>7, CatAssociates
      <3>2. QED BY <3>1, Zenon DEF Cat
    <2>9. Good(Append(vs, v))
      BY <2>2, <2>4, <2>5, <2>6, <2>8, Zenon DEF a, b
    <2> HIDE DEF Good
    <2>10. QED BY <2>3, <2>9
  <1>3. QED
    <2>1. us \in Seq(C)
      OBVIOUS
    <2> HIDE DEF T, C
    <2>2. Seq(C) \subseteq T
      BY <1>1, <1>2, SeqInduction
    <2>3. QED BY <2>1, <2>2 DEF T

\* Splitting a text into words loses nothing but white space.
LEMMA FlattenWords ==
  ASSUME NEW s \in Seq(Chars)
  PROVE  FlattenSeq(Words(s, White)) = Ink(s)
  <1> DEFINE Good(r) == FlattenSeq(Words(r, White)) = Kept(r, Inks)
             T == {r \in Seq(Chars) : Good(r)}
  <1>1. <<>> \in T
    <2>1. Good(<<>>)
      BY WordsNil, FlattenNil, KeptNil, Zenon
    <2> HIDE DEF Good
    <2>2. QED BY <2>1
  <1>2. ASSUME NEW r \in Seq(Chars), NEW x \in Chars, r \in T PROVE Append(r, x) \in T
    <2> DEFINE q == Append(r, x)
               ws == Words(r, White)
               vs == Words(q, White)
    <2>1. q \in Seq(Chars) /\ x \in Inks <=> x \notin White
      BY AppendProperties DEF Inks
    <2>2. Kept(q, Inks) = IF x \in Inks THEN Append(Kept(r, Inks), x) ELSE Kept(r, Inks)
      BY KeptAppend
    <2>3. FlattenSeq(ws) = Kept(r, Inks)
      BY <1>2
    <2>4. ws \in Seq(Seq(Chars)) /\ ws \in Lists(Inks)
      <3>1. ws \in Lists(Chars \ White) /\ Chars \ White \subseteq Chars
        BY WordsTyped
      <3> HIDE DEF ws
      <3>2. QED BY <3>1, ListsAreSeqs DEF Inks
    <2>5. q \in Seq(Chars)
      BY AppendProperties
    <2>6. CASE x \in White
      <3>1. vs = ws
        BY <2>6, WordsCases
      <3>2. Good(q)
        BY <2>2, <2>3, <2>6, <3>1 DEF Inks
      <3> HIDE DEF Good
      <3>3. QED BY <2>5, <3>2
    <2>7. CASE x \notin White /\ (r = <<>> \/ r[Len(r)] \in White)
      <3>1. vs = Append(ws, <<x>>)
        BY <2>7, WordsCases
      <3>2. <<x>> \in Seq(Chars) /\ Kept(r, Inks) \in Seq(Chars)
        BY KeptProperties
      <3>3. FlattenSeq(Append(ws, <<x>>)) = FlattenSeq(ws) \o <<x>>
        <4> HIDE DEF ws
        <4>1. QED BY <2>4, <3>2, FlattenAppend
      <3>4. Kept(r, Inks) \o <<x>> = Append(Kept(r, Inks), x)
        BY <3>2, AppendIsConcat
      <3>5. Kept(q, Inks) = Append(Kept(r, Inks), x)
        BY <2>2, <2>7 DEF Inks
      <3>6. Good(q)
        BY <2>3, <3>1, <3>3, <3>4, <3>5, Zenon
      <3> HIDE DEF Good
      <3>7. QED BY <2>5, <3>6
    <2>8. CASE x \notin White /\ ~ (r = <<>> \/ r[Len(r)] \in White)
      <3>1. Grown(Chars \ White, ws, vs, x)
        BY <2>8, WordsCases
      <3>2. PICK front \in Lists(Inks), w \in Word(Inks) :
              /\ ws = Append(front, w) /\ Append(w, x) \in Word(Inks)
              /\ vs = Append(front, Append(w, x))
        BY <3>1 DEF Grown, Inks
      <3>3. front \in Seq(Seq(Chars))
        BY ListsAreSeqs, PlainChars
      <3>4. w \in Seq(Chars) /\ Append(w, x) \in Seq(Chars)
        <4>1. w \in Seq(Inks)
          BY DEF Word
        <4>2. w \in Seq(Chars)
          BY <4>1, PlainChars, SeqMonotonic
        <4>3. QED BY <4>2, AppendProperties
      <3> DEFINE v == Append(w, x)
                 a == FlattenSeq(front)
      <3>5. FlattenSeq(Append(front, w)) = a \o w /\ a \in Seq(Chars)
        BY <3>3, <3>4, FlattenAppend
      <3>6. FlattenSeq(Append(front, v)) = a \o v
        <4>1. v \in Seq(Chars)
          BY <3>4
        <4> HIDE DEF v
        <4>2. QED BY <3>3, <4>1, FlattenAppend
      <3>7. a \o Append(w, x) = Append(a \o w, x)
        <4> HIDE DEF a
        <4>1. QED BY <3>4, <3>5, ConcatAppend
      <3>8. Kept(q, Inks) = Append(Kept(r, Inks), x)
        BY <2>2, <2>8 DEF Inks
      <3>9. Good(q)
        BY <2>3, <3>2, <3>5, <3>6, <3>7, <3>8, Zenon
      <3> HIDE DEF Good
      <3>10. QED BY <2>5, <3>9
    <2>9. QED BY <2>6, <2>7, <2>8
  <1>3. QED
    <2> HIDE DEF T
    <2>1. Seq(Chars) \subseteq T
      BY <1>1, <1>2, SeqInduction
    <2>2. QED BY <2>1 DEF T, Ink, Inks, White

Blank == <<" ">>

JoinStep(ws, glued, k) == IF k = 1 THEN ws[k] ELSE glued \o Blank \o ws[k]

JoinRun(f, ws) ==
    /\ f[0] = <<>> /\ join_words(ws) = f[Len(ws)]
    /\ \A k \in 1..Len(ws) : f[k] = JoinStep(ws, f[k - 1], k)

\* The loop of join_words.
LEMMA JoinLoop ==
  ASSUME NEW S, Blank \in Seq(S), NEW ws \in Seq(Seq(S))
  PROVE  \E f : JoinRun(f, ws) /\ f \in [0..Len(ws) -> Seq(S)]
  <1> DEFINE n == Len(ws)
             V == Seq(S)
             F == [p \in (1..n) \X V |-> JoinStep(ws, p[2], p[1])]
             IsLoop(f) == f = [k \in 0..n |-> IF k = 0 THEN <<>> ELSE JoinStep(ws, f[k - 1], k)]
  <1>1. n \in Nat /\ <<>> \in V /\ \A i \in 1..n : ws[i] \in V
    OBVIOUS
  <1>2. ASSUME NEW i \in 1..n, NEW v \in V PROVE JoinStep(ws, v, i) \in V
    <2>1. ws[i] \in V /\ Blank \in V
      BY <1>1
    <2>2. v \o Blank \in V
      BY <2>1, ConcatProperties
    <2>3. (v \o Blank) \o ws[i] \in V
      BY <2>1, <2>2, ConcatProperties
    <2>4. QED BY <2>1, <2>3 DEF JoinStep
  <1>3. F \in [(1..n) \X V -> V]
    BY <1>2
  <1>4. \A i \in 1..n : \A v \in V : F[<<i, v>>] = JoinStep(ws, v, i)
    OBVIOUS
  <1> HIDE DEF F
  <1>5. PICK g : LoopRuns(g, <<>>, n, F) /\ g \in [0..n -> V]
    <2>1. n \in Nat
      OBVIOUS
    <2>2. <<>> \in V
      OBVIOUS
    <2> HIDE DEF n, V
    <2>3. QED BY ONLY <1>3, <2>1, <2>2, LoopValue
  <1>6. \A i \in 1..n : g[i] = JoinStep(ws, g[i - 1], i)
    <2>1. ASSUME NEW i \in 1..n PROVE g[i] = JoinStep(ws, g[i - 1], i)
      <3>1. i - 1 \in 0..n /\ g \in [0..n -> V]
        BY <1>1, <1>5
      <3>2. g[i - 1] \in V
        BY <3>1
      <3>3. QED BY <1>4, <1>5, <3>2 DEF LoopRuns
    <2>2. QED BY <2>1
  <1>7. IsLoop(g)
    BY <1>1, <1>5, <1>6 DEF LoopRuns
  <1> DEFINE h == CHOOSE f : IsLoop(f)
  <1>8. IsLoop(h)
    BY <1>7
  <1>9. join_words(ws) = h[n]
    BY DEF join_words, JoinStep, Blank
  <1> HIDE DEF h
  <1>10. h[n] = g[n]
    <2>1. h[0] = g[0]
      BY <1>1, <1>5, <1>8 DEF LoopRuns
    <2>2. \A i \in 1..n : h[i - 1] = g[i - 1] => h[i] = g[i]
      <3>1. ASSUME NEW i \in 1..n PROVE h[i] = JoinStep(ws, h[i - 1], i)
        <4>1. i \in 0..n /\ i # 0
          BY <1>1
        <4>2. QED BY <1>8, <4>1
      <3>2. QED BY <1>6, <3>1
    <2>3. SameRounds(h, g, n)
      BY <2>1, <2>2 DEF SameRounds
    <2>4. n \in Nat
      BY <1>1
    <2> HIDE DEF n
    <2>5. QED BY <2>3, <2>4, LoopSame
  <1>11. QED BY <1>5, <1>6, <1>9, <1>10 DEF JoinRun, LoopRuns

\* join_words puts a blank in front of all words but the first.
LEMMA JoinAppend ==
  ASSUME NEW S, Blank \in Seq(S), NEW ws \in Seq(Seq(S)), NEW w \in Seq(S)
  PROVE  /\ join_words(<<>>) = <<>>
         /\ join_words(ws) \in Seq(S)
         /\ ws = <<>> => join_words(Append(ws, w)) = w
         /\ ws # <<>> => join_words(Append(ws, w)) = join_words(ws) \o Blank \o w
  <1> DEFINE n == Len(ws)
             t == Append(ws, w)
  <1>0. join_words(<<>>) = <<>>
    <2>1. <<>> \in Seq(Seq(S)) /\ Len(<<>>) = 0
      OBVIOUS
    <2>2. PICK f : JoinRun(f, <<>>)
      BY <2>1, JoinLoop
    <2>3. QED BY <2>1, <2>2 DEF JoinRun
  <1>1. n \in Nat /\ Len(t) = n + 1 /\ t[n + 1] = w /\ \A i \in 1..n : t[i] = ws[i]
    BY AppendProperties, LenProperties
  <1>2. t \in Seq(Seq(S))
    BY AppendProperties
  <1>3. (ws = <<>> => n = 0) /\ (ws # <<>> => n # 0)
    BY EmptySeq
  <1>4. PICK f : JoinRun(f, ws) /\ f \in [0..n -> Seq(S)]
    BY JoinLoop
  <1> HIDE DEF n, t
  <1>5. PICK g : JoinRun(g, t)
    BY <1>2, JoinLoop
  <1>6. f[0] = g[0]
    BY <1>4, <1>5 DEF JoinRun
  <1>7. n \in Nat
    BY <1>1
  <1>8. \A i \in 1..n : f[i - 1] = g[i - 1] => f[i] = g[i]
    <2>1. \A i \in 1..n : f[i] = JoinStep(ws, f[i - 1], i)
      BY <1>4 DEF JoinRun, n
    <2>2. \A i \in 1..n : i \in 1..Len(t)
      BY <1>1
    <2>3. \A i \in 1..n : g[i] = JoinStep(t, g[i - 1], i)
      BY <1>5, <2>2 DEF JoinRun
    <2>4. ASSUME NEW i \in 1..n, NEW v PROVE JoinStep(ws, v, i) = JoinStep(t, v, i)
      <3>1. t[i] = ws[i]
        BY <1>1
      <3>2. QED BY <3>1, Zenon DEF JoinStep
    <2>5. QED BY <2>1, <2>3, <2>4
  <1>9. f[n] = g[n]
    <2>1. SameRounds(f, g, n)
      BY <1>6, <1>8 DEF SameRounds
    <2>2. QED BY <1>7, <2>1, LoopSame
  <1>10. join_words(ws) = f[n] /\ f[n] = g[n] /\ f[n] \in Seq(S)
    <2>1. join_words(ws) = f[n]
      BY <1>4 DEF JoinRun, n
    <2>2. n \in 0..n
      BY <1>7
    <2>3. QED BY <1>4, <1>9, <2>1, <2>2
  <1>11. n + 1 \in 1..Len(t) /\ (n + 1) - 1 = n
    BY <1>1
  <1>12. join_words(t) = JoinStep(t, g[n], n + 1)
    BY <1>1, <1>5, <1>11 DEF JoinRun
  <1>13. n = 0 => join_words(t) = w
    BY <1>1, <1>12 DEF JoinStep
  <1>14. n # 0 => join_words(t) = join_words(ws) \o Blank \o w
    <2>1. SUFFICES ASSUME n # 0 PROVE join_words(t) = join_words(ws) \o Blank \o w
      OBVIOUS
    <2>2. n + 1 # 1
      BY <1>7, <2>1
    <2>3. QED BY <1>1, <1>10, <1>12, <2>2 DEF JoinStep
  <1>15. QED BY <1>0, <1>3, <1>10, <1>13, <1>14 DEF t

\* A blank is white.
LEMMA BlankKept ==
  ASSUME NEW G, " " \notin G
  PROVE  Kept(Blank, G) = <<>>
  <1> DEFINE b == " "
  <1>1. b \notin G /\ Blank = <<b>>
    BY DEF Blank
  <1> HIDE DEF b
  <1>2. QED BY <1>1, KeptOne

\* The words are all there is in the joined text, but for blanks.
LEMMA JoinKept ==
  ASSUME NEW S, Blank \in Seq(S), NEW ws \in Seq(Seq(S)), NEW G, Kept(Blank, G) = <<>>
  PROVE  Kept(join_words(ws), G) = Kept(FlattenSeq(ws), G)
  <1> DEFINE C == Seq(S)
             Good(vs) == Kept(join_words(vs), G) = Kept(FlattenSeq(vs), G)
             T == {vs \in Seq(C) : Good(vs)}
  <1>1. <<>> \in T
    <2>1. <<>> \in Seq(S)
      OBVIOUS
    <2>2. Good(<<>>)
      BY <2>1, JoinAppend, FlattenNil, Zenon
    <2> HIDE DEF Good
    <2>3. QED BY <2>2
  <1>2. ASSUME NEW vs \in Seq(C), NEW v \in C, vs \in T PROVE Append(vs, v) \in T
    <2> DEFINE a == join_words(vs)
               b == FlattenSeq(vs)
               c == Blank
    <2>1. Append(vs, v) \in Seq(C)
      BY AppendProperties
    <2>2. a \in Seq(S) /\ c \in Seq(S) /\ b \in Seq(S)
      BY JoinAppend, FlattenAppend
    <2>11. vs = <<>> => join_words(Append(vs, v)) = v
      BY JoinAppend
    <2>3. FlattenSeq(Append(vs, v)) = b \o v
      BY FlattenAppend
    <2>4. Kept(a, G) = Kept(b, G)
      BY <1>2
    <2>10. \A d, e \in Seq(S) : Kept(d \o e, G) = Kept(d, G) \o Kept(e, G)
      BY KeptConcats
    <2>5. Kept(b \o v, G) = Kept(b, G) \o Kept(v, G)
      <3> HIDE DEF b
      <3>1. QED BY <2>2, <2>10
    <2>6. Kept(c, G) = <<>>
      OBVIOUS
    <2>7. CASE vs = <<>>
      <3>1. join_words(Append(vs, v)) = v
        BY <2>7, <2>11
      <3>0. b = <<>>
        BY <2>7, FlattenNil
      <3>2. <<>> \o v = v
        BY ConcatEmptySeq
      <3>3. Good(Append(vs, v))
        BY <2>3, <3>0, <3>1, <3>2, Zenon
      <3> HIDE DEF Good
      <3>4. QED BY <2>1, <3>3
    <2>8. CASE vs # <<>>
      <3>1. join_words(Append(vs, v)) = a \o c \o v
        BY <2>8, JoinAppend
      <3> HIDE DEF a, c
      <3>2. a \o c \in Seq(S)
        BY <2>2, ConcatProperties
      <3>3. Kept(a \o c, G) = Kept(a, G) \o Kept(c, G)
        BY <2>2, <2>10
      <3>4. Kept(a, G) \o <<>> = Kept(a, G)
        <4>1. Kept(a, G) \in Seq(S)
          BY <2>2, KeptProperties
        <4>2. QED BY <4>1, ConcatEmptySeq
      <3>5. Kept((a \o c) \o v, G) = Kept(a \o c, G) \o Kept(v, G)
        <4> DEFINE d == a \o c
        <4>1. d \in Seq(S)
          BY <3>2
        <4> HIDE DEF d
        <4>2. Kept(d \o v, G) = Kept(d, G) \o Kept(v, G)
          BY <2>10, <4>1
        <4>3. QED BY <4>2 DEF d
      <3>6. Kept((a \o c) \o v, G) = Kept(b \o v, G)
        BY <2>4, <2>5, <2>6, <3>3, <3>4, <3>5, Zenon
      <3>7. Good(Append(vs, v))
        BY <2>3, <3>1, <3>6, Zenon
      <3> HIDE DEF Good
      <3>8. QED BY <2>1, <3>7
    <2>9. QED BY <2>7, <2>8
  <1>3. QED
    <2>1. ws \in Seq(C)
      OBVIOUS
    <2> HIDE DEF T, C
    <2>2. Seq(C) \subseteq T
      BY <1>1, <1>2, SeqInduction
    <2>3. QED BY <2>1, <2>2 DEF T

-----------------------------------------------------------------------------
(* Updates.                                                                *)

\* Insert splits a list and puts another one in between.
LEMMA InsertProperties ==
  ASSUME NEW W, NEW ws \in Seq(W), NEW us \in Seq(W), NEW i \in 0..Len(ws)
  PROVE  /\ SubSeq(ws, 1, i) \in Seq(W) /\ SubSeq(ws, i + 1, Len(ws)) \in Seq(W)
         /\ ws = SubSeq(ws, 1, i) \o SubSeq(ws, i + 1, Len(ws))
         /\ Insert(ws, i, us) = (SubSeq(ws, 1, i) \o us) \o SubSeq(ws, i + 1, Len(ws))
         /\ Insert(ws, i, us) \in Seq(W)
         /\ Len(Insert(ws, i, us)) = Len(ws) + Len(us)
  <1> DEFINE n == Len(ws)
             a == SubSeq(ws, 1, i)
             b == SubSeq(ws, i + 1, n)
  <1>1. n \in Nat /\ i \in Nat /\ i <= n /\ \A k \in 1..n : ws[k] \in W
    BY LenProperties, ElementOfSeq
  <1>2. a \in Seq(W) /\ Len(a) = i
    BY <1>1, SubSeqProperties
  <1>3. b \in Seq(W) /\ Len(b) = n - i
    BY <1>1, SubSeqProperties
  <1>4. a \o b = ws
    <2>1. SubSeq(ws, 1, i) \o SubSeq(ws, i + 1, Len(ws)) = SubSeq(ws, 1, Len(ws))
      <3>1. 1 \in 1..(Len(ws) + 1) /\ i \in (1 - 1)..Len(ws) /\ Len(ws) \in i..Len(ws)
        BY <1>1
      <3>2. QED BY <3>1, ConcatAdjacentSubSeq
    <2>2. QED BY <2>1, SubSeqFull
  <1> HIDE DEF a, b
  <1>5. a \o us \in Seq(W) /\ Len(a \o us) = i + Len(us) /\ Len(us) \in Nat
    BY <1>2, ConcatProperties, LenProperties
  <1>6. (a \o us) \o b \in Seq(W) /\ Len((a \o us) \o b) = Len(a \o us) + Len(b)
    BY <1>3, <1>5, ConcatProperties
  <1>7. Insert(ws, i, us) = (a \o us) \o b
    BY DEF Insert, a, b
  <1>8. Len(a \o us) + Len(b) = n + Len(us)
    BY <1>1, <1>3, <1>5
  <1>9. QED BY <1>2, <1>3, <1>4, <1>6, <1>7, <1>8 DEF a, b

ApplyOne(acc, u) ==
    IF acc.failed \/ u.index > Len(acc.words) THEN [acc EXCEPT !.failed = TRUE]
    ELSE [acc EXCEPT !.words = Insert(@, u.index, InsertedWords(u.text))]

ApplyState == [words : Lists(Inks), failed : BOOLEAN]

\* The effect of one update.
LEMMA ApplyOneTyped ==
  ASSUME NEW acc \in ApplyState, NEW u \in Update
  PROVE  /\ ApplyOne(acc, u) \in ApplyState
         /\ acc.words \in Lists(Inks) /\ Len(acc.words) \in Nat
         /\ u.index \in Nat /\ u.text \in Seq(Chars)
         /\ InsertedWords(u.text) \in Lists(Inks)
         /\ acc.failed \/ u.index > Len(acc.words) => ApplyOne(acc, u).failed
         /\ ~ (acc.failed \/ u.index > Len(acc.words)) =>
              /\ u.index \in 0..Len(acc.words)
              /\ ~ ApplyOne(acc, u).failed
              /\ ApplyOne(acc, u).words = Insert(acc.words, u.index, InsertedWords(u.text))
  <1> DEFINE ws == acc.words
             us == InsertedWords(u.text)
             i == u.index
  <1>1. ws \in Lists(Inks) /\ acc.failed \in BOOLEAN
    BY DEF ApplyState
  <1>2. i \in Nat /\ u.text \in Seq(Chars)
    BY DEF Update
  <1>3. us \in Lists(Inks)
    BY <1>2, WordsTyped DEF InsertedWords, Inks, White
  <1>4. Len(ws) \in Nat
    BY <1>1, LenProperties DEF Lists
  <1>5. acc = [words |-> ws, failed |-> acc.failed]
    BY DEF ApplyState
  <1>6. CASE acc.failed \/ i > Len(ws)
    <2>1. ApplyOne(acc, u) = [words |-> ws, failed |-> TRUE]
      BY <1>5, <1>6 DEF ApplyOne
    <2>2. QED BY <1>1, <1>2, <1>3, <1>4, <1>6, <2>1 DEF ApplyState
  <1>7. CASE ~ (acc.failed \/ i > Len(ws))
    <2>1. i \in 0..Len(ws)
      BY <1>2, <1>4, <1>7
    <2>2. Insert(ws, i, us) \in Lists(Inks)
      <3> HIDE DEF ws, us, i
      <3>1. QED BY <1>1, <1>3, <2>1, InsertProperties DEF Lists
    <2>3. ApplyOne(acc, u) = [words |-> Insert(ws, i, us), failed |-> FALSE]
      BY <1>1, <1>5, <1>7 DEF ApplyOne
    <2> HIDE DEF us
    <2>4. QED BY <1>1, <1>2, <1>3, <1>4, <1>7, <2>1, <2>2, <2>3 DEF ApplyState, us
  <1>8. QED BY <1>6, <1>7

ApplyRun(f, ws, list) ==
    /\ f[0] = [words |-> ws, failed |-> FALSE] /\ apply_updates(ws, list) = f[Len(list)]
    /\ \A k \in 1..Len(list) : f[k] = ApplyOne(f[k - 1], list[k])

\* The loop of apply_updates.
LEMMA ApplyLoop ==
  ASSUME NEW ws \in Lists(Inks), NEW list \in Seq(Update)
  PROVE  \E f : ApplyRun(f, ws, list) /\ f \in [0..Len(list) -> ApplyState]
  <1> DEFINE n == Len(list)
             V == ApplyState
             a == [words |-> ws, failed |-> FALSE]
             F == [p \in (1..n) \X V |-> ApplyOne(p[2], list[p[1]])]
             IsLoop(f) == f = [k \in 0..n |-> IF k = 0 THEN a ELSE ApplyOne(f[k - 1], list[k])]
  <1>0. a \in V
    BY DEF ApplyState
  <1>1. n \in Nat /\ \A i \in 1..n : list[i] \in Update
    BY LenProperties, ElementOfSeq
  <1> HIDE DEF V
  <1>2. ASSUME NEW i \in 1..n, NEW v \in V PROVE ApplyOne(v, list[i]) \in V
    <2>1. list[i] \in Update
      BY <1>1
    <2>2. QED BY <2>1, ApplyOneTyped DEF V
  <1>3. F \in [(1..n) \X V -> V]
    BY <1>2
  <1>4. \A i \in 1..n : \A v \in V : F[<<i, v>>] = ApplyOne(v, list[i])
    OBVIOUS
  <1> HIDE DEF F, a
  <1>5. PICK g : LoopRuns(g, a, n, F) /\ g \in [0..n -> V]
    <2>1. n \in Nat
      OBVIOUS
    <2> HIDE DEF n
    <2>2. QED BY ONLY <1>0, <1>3, <2>1, LoopValue
  <1>6. \A i \in 1..n : g[i] = ApplyOne(g[i - 1], list[i])
    <2>1. ASSUME NEW i \in 1..n PROVE g[i] = ApplyOne(g[i - 1], list[i])
      <3>1. i - 1 \in 0..n /\ g \in [0..n -> V]
        BY <1>1, <1>5
      <3>2. g[i - 1] \in V
        BY <3>1
      <3>3. QED BY <1>4, <1>5, <3>2 DEF LoopRuns
    <2>2. QED BY <2>1
  <1>7. IsLoop(g)
    BY <1>1, <1>5, <1>6 DEF LoopRuns
  <1> DEFINE h == CHOOSE f : IsLoop(f)
  <1>8. IsLoop(h)
    BY <1>7
  <1>9. apply_updates(ws, list) = h[n]
    BY DEF apply_updates, ApplyOne, a
  <1> HIDE DEF h
  <1>10. h[n] = g[n]
    <2>1. h[0] = g[0]
      BY <1>1, <1>5, <1>8 DEF LoopRuns
    <2>2. \A i \in 1..n : h[i - 1] = g[i - 1] => h[i] = g[i]
      <3>1. ASSUME NEW i \in 1..n PROVE h[i] = ApplyOne(h[i - 1], list[i])
        <4>1. i \in 0..n /\ i # 0
          BY <1>1
        <4>2. QED BY <1>8, <4>1
      <3>2. QED BY <1>6, <3>1
    <2>3. SameRounds(h, g, n)
      BY <2>1, <2>2 DEF SameRounds
    <2>4. n \in Nat
      BY <1>1
    <2> HIDE DEF n
    <2>5. QED BY <2>3, <2>4, LoopSame
  <1>11. QED BY <1>5, <1>6, <1>9, <1>10 DEF ApplyRun, LoopRuns, a, V

\* An update more is applied to what the others have made.
LEMMA ApplyAppend ==
  ASSUME NEW ws \in Lists(Inks), NEW list \in Seq(Update), NEW u \in Update
  PROVE  /\ apply_updates(ws, <<>>) = [words |-> ws, failed |-> FALSE]
         /\ apply_updates(ws, list) \in ApplyState
         /\ apply_updates(ws, Append(list, u)) = ApplyOne(apply_updates(ws, list), u)
  <1> DEFINE n == Len(list)
             t == Append(list, u)
  <1>0. apply_updates(ws, <<>>) = [words |-> ws, failed |-> FALSE]
    <2>1. <<>> \in Seq(Update) /\ Len(<<>>) = 0
      OBVIOUS
    <2>2. PICK f : ApplyRun(f, ws, <<>>)
      BY <2>1, ApplyLoop
    <2>3. QED BY <2>1, <2>2 DEF ApplyRun
  <1>1. n \in Nat /\ Len(t) = n + 1 /\ t[n + 1] = u /\ \A i \in 1..n : t[i] = list[i]
    BY AppendProperties, LenProperties
  <1>2. t \in Seq(Update)
    BY AppendProperties
  <1>4. PICK f : ApplyRun(f, ws, list) /\ f \in [0..n -> ApplyState]
    BY ApplyLoop
  <1> HIDE DEF n, t
  <1>5. PICK g : ApplyRun(g, ws, t)
    BY <1>2, ApplyLoop
  <1>6. f[0] = g[0]
    BY <1>4, <1>5 DEF ApplyRun
  <1>7. n \in Nat
    BY <1>1
  <1>8. \A i \in 1..n : f[i - 1] = g[i - 1] => f[i] = g[i]
    <2>1. \A i \in 1..n : f[i] = ApplyOne(f[i - 1], list[i])
      BY <1>4 DEF ApplyRun, n
    <2>2. \A i \in 1..n : i \in 1..Len(t)
      BY <1>1
    <2>3. \A i \in 1..n : g[i] = ApplyOne(g[i - 1], t[i])
      BY <1>5, <2>2 DEF ApplyRun
    <2>4. \A i \in 1..n : t[i] = list[i]
      BY <1>1
    <2>5. QED BY ONLY <2>1, <2>3, <2>4
  <1>9. f[n] = g[n]
    <2>1. SameRounds(f, g, n)
      BY <1>6, <1>8 DEF SameRounds
    <2>2. QED BY <1>7, <2>1, LoopSame
  <1>10. apply_updates(ws, list) = f[n] /\ f[n] = g[n] /\ f[n] \in ApplyState
    <2>1. apply_updates(ws, list) = f[n]
      BY <1>4 DEF ApplyRun, n
    <2>2. n \in 0..n
      BY <1>7
    <2>3. QED BY <1>4, <1>9, <2>1, <2>2
  <1>11. n + 1 \in 1..Len(t) /\ (n + 1) - 1 = n
    BY <1>1
  <1>12. apply_updates(ws, t) = ApplyOne(g[n], t[n + 1])
    BY <1>1, <1>5, <1>11 DEF ApplyRun
  <1>13. QED BY <1>0, <1>1, <1>10, <1>12 DEF t

\* s begins with c.
Continues(s, c, S) == \E t \in Seq(S) : s = c \o t

\* A text cut to the size of a buffer is the beginning of the text.
LEMMA CutProperties ==
  ASSUME NEW S, NEW s \in Seq(S), NEW size \in Nat
  PROVE  /\ Cut(s, size) \in Seq(S)
         /\ Len(s) <= size => Cut(s, size) = s
         /\ Continues(s, Cut(s, size), S)
  <1> DEFINE m == Smaller(Len(s), size)
             W == S
  <1>1. m \in 0..Len(s) /\ (Len(s) <= size => m = Len(s))
    BY LenProperties DEF Smaller
  <1>2. Cut(s, size) = SubSeq(s, 1, m)
    BY DEF Cut
  <1> HIDE DEF m
  <1>3. SubSeq(s, 1, m) \in Seq(S) /\ SubSeq(s, m + 1, Len(s)) \in Seq(S)
        /\ s = SubSeq(s, 1, m) \o SubSeq(s, m + 1, Len(s))
    BY <1>1, InsertProperties
  <1>4. Len(s) <= size => Cut(s, size) = s
    BY <1>1, <1>2, SubSeqFull
  <1>5. QED BY <1>2, <1>3, <1>4 DEF Continues

Skipped(s, i, white, j) ==
    /\ j \in i..(Len(s) + 1)
    /\ j > Len(s) \/ s[j] \notin white
    /\ \A k \in i..(j - 1) : s[k] \in white

\* There is a first position that is not white, and Skip is that one.
LEMMA SkipProperties ==
  ASSUME NEW S, NEW s \in Seq(S), NEW i \in 1..(Len(s) + 1), NEW white
  PROVE  Skipped(s, i, white, Skip(s, i, white))
  <1> DEFINE n == Len(s)
             T == {j \in i..(n + 1) : j > n \/ s[j] \notin white}
  <1>1. n \in Nat /\ i \in Nat /\ i <= n + 1
    BY LenProperties
  <1> HIDE DEF n
  <1>2. T \in SUBSET Nat
    BY <1>1
  <1>3. n + 1 \in T
    BY <1>1
  <1>4. PICK j \in T : \A k \in T : j <= k
    <2> HIDE DEF T
    <2>1. QED BY <1>2, <1>3, LeastNat
  <1>5. j \in Nat /\ j \in i..(n + 1) /\ (j > n \/ s[j] \notin white)
    BY <1>2
  <1>6. ASSUME NEW k \in i..(j - 1) PROVE s[k] \in white
    <2>1. k \in i..(n + 1) /\ k < j
      BY <1>1, <1>5
    <2>2. k \notin T
      BY <1>1, <1>4, <1>5, <2>1
    <2>3. QED BY <2>1, <2>2
  <1>7. Skipped(s, i, white, j)
    BY <1>5, <1>6 DEF Skipped, n
  <1>8. \E m \in i..(Len(s) + 1) : /\ m > Len(s) \/ s[m] \notin white
                                   /\ \A k \in i..(m - 1) : s[k] \in white
    BY <1>7 DEF Skipped
  <1>9. QED BY <1>8 DEF Skipped, Skip

\* The part of a sequence from a to e.
LEMMA SubSeqAt ==
  ASSUME NEW S, NEW s \in Seq(S), NEW a \in 1..(Len(s) + 1), NEW e \in (a - 1)..Len(s)
  PROVE  /\ SubSeq(s, a, e) \in Seq(S)
         /\ Len(SubSeq(s, a, e)) = e - a + 1
         /\ \A i \in 1..(e - a + 1) : SubSeq(s, a, e)[i] = s[a + i - 1]
  <1>1. Len(s) \in Nat /\ a \in Int /\ e \in Int /\ \A k \in 1..Len(s) : s[k] \in S
    BY LenProperties, ElementOfSeq
  <1>2. \A k \in a..e : s[k] \in S
    BY <1>1
  <1>3. /\ SubSeq(s, a, e) \in Seq(S)
        /\ Len(SubSeq(s, a, e)) = (IF a <= e THEN e - a + 1 ELSE 0)
        /\ \A i \in 1..(e - a + 1) : SubSeq(s, a, e)[i] = s[a + i - 1]
    BY <1>1, <1>2, SubSeqProperties
  <1>4. (IF a <= e THEN e - a + 1 ELSE 0) = e - a + 1
    BY <1>1
  <1>5. QED BY <1>3, <1>4

\* What arrives of a text is a text, and all of it if the text is short enough and
\* has no double quote.
LEMMA ArrivingText ==
  ASSUME NEW text \in Seq(Chars)
  PROVE  /\ Arriving(text) \in Seq(Chars)
         /\ Whole(text) => Arriving(text) = text
  <1> DEFINE typed == Append(text, "quote")
             sent == Cut(typed, PayloadSize)
             white == Chars \ {"quote"}
             q == Skip(sent, 1, white)
             n == Len(text)
  <1>1. FieldSize \in Nat /\ PayloadSize \in Nat /\ FieldSize < PayloadSize
    BY TextAssumption
  <1>2. /\ n \in Nat /\ typed \in Seq(Chars) /\ Len(typed) = n + 1
        /\ typed[n + 1] = "quote" /\ \A i \in 1..n : typed[i] = text[i] /\ text[i] \in Chars
    <2>1. "quote" \in Chars
      BY DEF Chars
    <2>2. QED BY <2>1, AppendProperties, LenProperties, ElementOfSeq
  <1> HIDE DEF typed, n
  <1>3. sent \in Seq(Chars) /\ (Len(typed) <= PayloadSize => sent = typed)
    BY <1>1, <1>2, CutProperties
  <1> HIDE DEF sent
  <1>4. Len(sent) \in Nat /\ 1 \in 1..(Len(sent) + 1)
    BY <1>3, LenProperties
  <1>5. Skipped(sent, 1, white, q)
    BY <1>3, <1>4, SkipProperties
  <1>6. q \in 1..(Len(sent) + 1) /\ q \in Nat
    BY <1>4, <1>5 DEF Skipped
  <1>7. Arriving(text) = IF q > Len(sent) THEN <<>> ELSE Cut(SubSeq(sent, 1, q - 1), FieldSize)
    BY DEF Arriving, json_get_string, sent, typed
  <1> HIDE DEF q
  <1> DEFINE e == q - 1
             part == SubSeq(sent, 1, e)
  <1>8. /\ q <= Len(sent) => e \in (1 - 1)..Len(sent)
        /\ e \in Int /\ e - 1 + 1 = e
    BY <1>4, <1>6
  <1> HIDE DEF e
  <1>9. ASSUME q <= Len(sent)
        PROVE  part \in Seq(Chars) /\ Len(part) = e /\ \A i \in 1..e : part[i] = sent[1 + i - 1]
    <2>1. e \in (1 - 1)..Len(sent)
      BY <1>8, <1>9
    <2>2. /\ part \in Seq(Chars) /\ Len(part) = e - 1 + 1
          /\ \A i \in 1..(e - 1 + 1) : part[i] = sent[1 + i - 1]
      BY <1>3, <1>4, <2>1, SubSeqAt
    <2>3. QED BY <1>8, <2>2
  <1> HIDE DEF part
  <1>10. Arriving(text) = IF q > Len(sent) THEN <<>> ELSE Cut(part, FieldSize)
    BY <1>7 DEF part, e
  <1>11. Arriving(text) \in Seq(Chars)
    <2>1. CASE q > Len(sent)
      BY <1>10, <2>1
    <2>2. CASE q <= Len(sent)
      <3>1. Cut(part, FieldSize) \in Seq(Chars)
        BY <1>1, <1>9, <2>2, CutProperties
      <3>2. ~ (q > Len(sent))
        BY <1>4, <1>6, <2>2
      <3>3. QED BY <1>10, <3>1, <3>2, Zenon
    <2>3. QED BY <1>4, <1>6, <2>1, <2>2
  <1>12. ASSUME Whole(text) PROVE Arriving(text) = text
    <2>1. n <= FieldSize /\ \A i \in 1..n : text[i] # "quote"
      <3>1. DOMAIN text = 1..n
        BY LenProperties DEF n
      <3>2. QED BY <1>12, <3>1 DEF Whole, n
    <2>2. sent = typed /\ Len(sent) = n + 1
      BY <1>1, <1>2, <1>3, <2>1
    <2>3. /\ q > n + 1 \/ typed[q] \notin white
          /\ \A k \in 1..(q - 1) : typed[k] \in white
      BY <1>5, <2>2 DEF Skipped
    <2>4. ~ (q > n + 1)
      <3>1. SUFFICES ASSUME q > n + 1 PROVE FALSE
        OBVIOUS
      <3>2. n + 1 \in 1..(q - 1)
        BY <1>2, <1>6, <3>1
      <3>3. typed[n + 1] \in white
        BY <2>3, <3>2
      <3>4. QED BY <1>2, <3>3
    <2>5. ~ (q <= n)
      <3>1. SUFFICES ASSUME q <= n PROVE FALSE
        OBVIOUS
      <3>2. q \in 1..n
        BY <1>2, <1>6, <3>1
      <3>3. typed[q] \in Chars /\ typed[q] # "quote"
        BY <1>2, <2>1, <3>2
      <3>4. QED BY <2>3, <2>4, <3>3
    <2>6. q = n + 1 /\ q <= Len(sent) /\ ~ (q > Len(sent)) /\ e = n
      BY <1>2, <1>6, <2>2, <2>4, <2>5 DEF e
    <2>7. part \in Seq(Chars) /\ Len(part) = n
      BY <1>9, <2>6
    <2>8. \A i \in 1..n : part[i] = text[i]
      <3>1. ASSUME NEW i \in 1..n PROVE part[i] = text[i]
        <4>1. i \in 1..e /\ 1 + i - 1 = i
          BY <1>2, <2>6
        <4>2. part[i] = sent[1 + i - 1]
          BY <1>9, <2>6, <4>1
        <4>3. QED BY <1>2, <2>2, <4>1, <4>2
      <3>2. QED BY <3>1
    <2>9. part = text
      BY <2>7, <2>8, SeqEqual DEF n
    <2>10. Len(part) <= FieldSize
      BY <2>1, <2>7
    <2>11. Cut(part, FieldSize) = part
      BY <1>1, <2>7, <2>10, CutProperties
    <2>12. QED BY <1>10, <2>6, <2>9, <2>11, Zenon
  <1>13. QED BY <1>11, <1>12

ReceivedUpdate(u) == [u EXCEPT !.text = Arriving(@)]

ReceivedOf(list) == [k \in DOMAIN list |-> ReceivedUpdate(list[k])]

\* The server receives the updates one by one.
LEMMA ReceivedUpdateTyped ==
  ASSUME NEW u \in Update
  PROVE  /\ ReceivedUpdate(u) \in Update
         /\ ReceivedUpdate(u).index = u.index /\ ReceivedUpdate(u).text = Arriving(u.text)
         /\ Whole(u.text) => ReceivedUpdate(u) = u
         /\ u.text \in Seq(Chars) /\ Arriving(u.text) \in Seq(Chars)
  <1>1. u = [index |-> u.index, text |-> u.text] /\ u.index \in Nat /\ u.text \in Seq(Chars)
    BY DEF Update
  <1> DEFINE s == u.text
             c == Arriving(s)
  <1>2. c \in Seq(Chars) /\ (Whole(s) => c = s)
    <2>1. s \in Seq(Chars)
      BY <1>1
    <2> HIDE DEF s
    <2>2. QED BY <2>1, ArrivingText
  <1>3. ReceivedUpdate(u) = [index |-> u.index, text |-> c]
    BY <1>1 DEF ReceivedUpdate
  <1> HIDE DEF c
  <1>4. ReceivedUpdate(u) \in Update
    BY <1>1, <1>2, <1>3 DEF Update
  <1>5. Whole(s) => ReceivedUpdate(u) = u
    BY <1>1, <1>2, <1>3
  <1>6. QED BY <1>1, <1>2, <1>3, <1>4, <1>5 DEF c

\* What the server receives are updates, as many as were sent.
LEMMA ReceivedTyped ==
  ASSUME NEW list \in Seq(Update)
  PROVE  ReceivedOf(list) \in Seq(Update) /\ Len(ReceivedOf(list)) = Len(list)
  <1> DEFINE n == Len(list)
             r == ReceivedOf(list)
  <1>1. n \in Nat /\ DOMAIN list = 1..n /\ \A i \in 1..n : list[i] \in Update
    BY LenProperties, ElementOfSeq
  <1> HIDE DEF n
  <1>2. \A i \in 1..n : ReceivedUpdate(list[i]) \in Update
    BY <1>1, ReceivedUpdateTyped
  <1>3. r = [i \in 1..n |-> ReceivedUpdate(list[i])]
    BY <1>1 DEF ReceivedOf
  <1> HIDE DEF r
  <1>4. r \in [1..n -> Update]
    BY <1>2, <1>3
  <1>5. r \in Seq(Update) /\ Len(r) = n
    BY <1>1, <1>4
  <1>6. QED BY <1>5 DEF r, n

\* One update more.
LEMMA ReceivedAppend ==
  ASSUME NEW list \in Seq(Update), NEW u \in Update
  PROVE  /\ ReceivedOf(<<>>) = <<>>
         /\ ReceivedOf(Append(list, u)) = Append(ReceivedOf(list), ReceivedUpdate(u))
  <1> DEFINE n == Len(list)
             t == Append(list, u)
             r == ReceivedOf(list)
             v == ReceivedUpdate(u)
  <1>0. ReceivedOf(<<>>) = <<>>
    BY DEF ReceivedOf
  <1>1. n \in Nat /\ Len(t) = n + 1 /\ t[n + 1] = u /\ \A i \in 1..n : t[i] = list[i]
    BY AppendProperties, LenProperties
  <1>2. t \in Seq(Update) /\ v \in Update
    BY AppendProperties, ReceivedUpdateTyped
  <1>3. r \in Seq(Update) /\ Len(r) = n /\ \A i \in 1..n : r[i] = ReceivedUpdate(list[i])
    <2>1. DOMAIN list = 1..n
      BY LenProperties
    <2>2. \A i \in 1..n : r[i] = ReceivedUpdate(list[i])
      BY <2>1 DEF ReceivedOf
    <2>3. QED BY <2>2, ReceivedTyped
  <1> HIDE DEF n, t, r
  <1> DEFINE q == ReceivedOf(t)
             p == Append(r, v)
  <1>4. q \in Seq(Update) /\ Len(q) = n + 1
    BY <1>1, <1>2, ReceivedTyped
  <1>5. \A i \in 1..(n + 1) : q[i] = ReceivedUpdate(t[i])
    <2>1. DOMAIN t = 1..(n + 1)
      BY <1>1, <1>2, LenProperties
    <2>2. QED BY <2>1 DEF ReceivedOf
  <1> HIDE DEF v
  <1>6. p \in Seq(Update) /\ Len(p) = n + 1 /\ p[n + 1] = v /\ \A i \in 1..n : p[i] = r[i]
    BY <1>2, <1>3, AppendProperties
  <1> HIDE DEF q, p
  <1>7. \A i \in 1..(n + 1) : q[i] = p[i]
    <2>1. ASSUME NEW i \in 1..n PROVE q[i] = p[i]
      <3>1. i \in 1..(n + 1)
        BY <1>1
      <3>2. q[i] = ReceivedUpdate(list[i]) /\ p[i] = ReceivedUpdate(list[i])
        BY <1>1, <1>3, <1>5, <1>6, <3>1
      <3>3. QED BY <3>2
    <2>2. q[n + 1] = p[n + 1]
      <3>1. n + 1 \in 1..(n + 1)
        BY <1>1
      <3>2. QED BY <1>1, <1>5, <1>6, <3>1 DEF v
    <2>3. \A i \in 1..(n + 1) : i \in 1..n \/ i = n + 1
      BY <1>1
    <2>4. QED BY <2>1, <2>2, <2>3
  <1>8. q = p
    <2>1. Len(q) = Len(p) /\ \A i \in 1..Len(q) : q[i] = p[i]
      BY <1>4, <1>6, <1>7
    <2>2. QED BY <1>4, <1>6, <2>1, SeqEqual
  <1>9. QED BY <1>0, <1>8 DEF q, p, r, v, t

-----------------------------------------------------------------------------
(* Counting delimiters.                                                    *)

Dots(s) == Len(Kept(s, {"."}))

\* The delimiters of two texts one behind the other.
LEMMA DotsConcat ==
  ASSUME NEW S, NEW s \in Seq(S), NEW t \in Seq(S)
  PROVE  Dots(s \o t) = Dots(s) + Dots(t) /\ Dots(s) \in Nat /\ Dots(t) \in Nat
  <1> DEFINE G == {"."}
             a == Kept(s, G)
             b == Kept(t, G)
  <1>1. a \in Seq(S) /\ b \in Seq(S)
    BY KeptProperties
  <1>2. Kept(s \o t, G) = a \o b
    BY KeptConcats
  <1> HIDE DEF a, b
  <1>3. Len(a \o b) = Len(a) + Len(b) /\ Len(a) \in Nat /\ Len(b) \in Nat
    BY <1>1, ConcatProperties, LenProperties
  <1>4. QED BY <1>2, <1>3 DEF Dots, a, b

\* Leaving out white space does not change the number of delimiters.
LEMMA DotsInk ==
  ASSUME NEW s \in Seq(Chars)
  PROVE  Dots(Ink(s)) = Dots(s)
  <1> DEFINE D == {"."}
             Good(r) == Kept(Kept(r, Inks), D) = Kept(r, D)
             T == {r \in Seq(Chars) : Good(r)}
  <1>0. \A x : x \in D => x \in Inks
    BY PlainChars
  <1> HIDE DEF D
  <1>1. <<>> \in T
    <2>1. Good(<<>>)
      BY KeptNil, Zenon
    <2> HIDE DEF Good
    <2>2. QED BY <2>1
  <1>2. ASSUME NEW r \in Seq(Chars), NEW x \in Chars, r \in T PROVE Append(r, x) \in T
    <2> DEFINE a == Kept(r, Inks)
               b == Kept(r, D)
    <2>1. Append(r, x) \in Seq(Chars)
      BY AppendProperties
    <2>2. a \in Seq(Chars) /\ Kept(a, D) = b
      BY <1>2, KeptProperties
    <2>3. Kept(Append(r, x), Inks) = IF x \in Inks THEN Append(a, x) ELSE a
      BY KeptAppend
    <2>4. Kept(Append(r, x), D) = IF x \in D THEN Append(b, x) ELSE b
      BY KeptAppend
    <2> HIDE DEF a, b
    <2>5. Kept(Append(a, x), D) = IF x \in D THEN Append(Kept(a, D), x) ELSE Kept(a, D)
      BY <2>2, KeptAppend
    <2>6. Good(Append(r, x))
      BY <1>0, <2>2, <2>3, <2>4, <2>5
    <2> HIDE DEF Good
    <2>7. QED BY <2>1, <2>6
  <1>3. Good(s)
    <2> HIDE DEF T, Good
    <2>1. Seq(Chars) \subseteq T
      BY <1>1, <1>2, SeqInduction
    <2>2. QED BY <2>1 DEF T
  <1>4. QED BY <1>3 DEF Dots, Ink, Inks, White, D

DelimitersRun(f, list) ==
    /\ f[0] = 0 /\ Delimiters(list) = f[Len(list)]
    /\ \A k \in 1..Len(list) : f[k] = f[k - 1] + Dots(ReceivedUpdate(list[k]).text)

\* The loop of Delimiters.
LEMMA DelimitersLoop ==
  ASSUME NEW list \in Seq(Update)
  PROVE  \E f : DelimitersRun(f, list) /\ f \in [0..Len(list) -> Nat]
  <1> DEFINE n == Len(list)
             D(i) == Dots(ReceivedUpdate(list[i]).text)
             F == [p \in (1..n) \X Nat |-> p[2] + D(p[1])]
             IsLoop(f) == f = [k \in 0..n |-> IF k = 0 THEN 0 ELSE f[k - 1] + D(k)]
  <1>1. n \in Nat /\ \A i \in 1..n : list[i] \in Update
    BY LenProperties, ElementOfSeq
  <1>2. ASSUME NEW i \in 1..n
        PROVE  D(i) \in Nat /\ D(i) = Len(Kept(Arriving(list[i].text), {"."}))
    <2>1. list[i] \in Update
      BY <1>1
    <2> DEFINE c == Arriving(list[i].text)
    <2>2. c \in Seq(Chars) /\ ReceivedUpdate(list[i]).text = c
      BY <2>1, ReceivedUpdateTyped
    <2> HIDE DEF c
    <2>3. Dots(c) \in Nat
      BY <2>2, DotsConcat
    <2>4. QED BY <2>2, <2>3 DEF Dots, c
  <1>3. \A i \in 1..n : D(i) \in Nat
    BY <1>2
  <1> HIDE DEF D
  <1>4. F \in [(1..n) \X Nat -> Nat]
    BY <1>3
  <1>5. \A i \in 1..n : \A v \in Nat : F[<<i, v>>] = v + D(i)
    OBVIOUS
  <1> HIDE DEF F
  <1>6. PICK g : LoopRuns(g, 0, n, F) /\ g \in [0..n -> Nat]
    <2>1. n \in Nat /\ 0 \in Nat
      OBVIOUS
    <2> HIDE DEF n
    <2>2. QED BY ONLY <1>4, <2>1, LoopValue
  <1>7. \A i \in 1..n : g[i] = g[i - 1] + D(i)
    <2>1. ASSUME NEW i \in 1..n PROVE g[i] = g[i - 1] + D(i)
      <3>1. i - 1 \in 0..n /\ g \in [0..n -> Nat]
        BY <1>1, <1>6
      <3>2. g[i - 1] \in Nat
        BY <3>1
      <3>3. QED BY <1>5, <1>6, <3>2 DEF LoopRuns
    <2>2. QED BY <2>1
  <1>8. IsLoop(g)
    BY <1>1, <1>6, <1>7 DEF LoopRuns
  <1> DEFINE IsLoop2(f) == f = [k \in 0..n |-> IF k = 0 THEN 0
                 ELSE f[k - 1] + Len(Kept(Arriving(list[k].text), {"."}))]
             h == CHOOSE f : IsLoop2(f)
  <1>9. IsLoop2(g)
    <2>1. ASSUME NEW k \in 0..n
          PROVE  (IF k = 0 THEN 0 ELSE g[k - 1] + D(k)) =
                 (IF k = 0 THEN 0
                  ELSE g[k - 1] + Len(Kept(Arriving(list[k].text), {"."})))
      <3>1. CASE k # 0
        <4>1. k \in 1..n
          BY <1>1, <3>1
        <4>2. QED BY <1>2, <4>1
      <3>2. QED BY <3>1
    <2>2. QED BY <1>8, <2>1
  <1>10. IsLoop2(h)
    BY <1>9
  <1>11. Delimiters(list) = h[n]
    BY DEF Delimiters
  <1> HIDE DEF h
  <1>12. h[n] = g[n]
    <2>1. h[0] = g[0]
      BY <1>1, <1>6, <1>10 DEF LoopRuns
    <2>2. \A i \in 1..n : h[i - 1] = g[i - 1] => h[i] = g[i]
      <3>1. ASSUME NEW i \in 1..n PROVE h[i] = h[i - 1] + D(i)
        <4>1. i \in 0..n /\ i # 0
          BY <1>1
        <4>2. h[i] = h[i - 1] + Len(Kept(Arriving(list[i].text), {"."}))
          BY <1>10, <4>1
        <4>3. QED BY <1>2, <4>2
      <3>2. QED BY <1>7, <3>1
    <2>3. SameRounds(h, g, n)
      BY <2>1, <2>2 DEF SameRounds
    <2>4. n \in Nat
      BY <1>1
    <2> HIDE DEF n
    <2>5. QED BY <2>3, <2>4, LoopSame
  <1>13. QED BY <1>6, <1>7, <1>11, <1>12 DEF DelimitersRun, LoopRuns, D

\* The delimiters of one update more.
LEMMA DelimitersAppend ==
  ASSUME NEW list \in Seq(Update), NEW u \in Update
  PROVE  /\ Delimiters(<<>>) = 0
         /\ Delimiters(list) \in Nat
         /\ Delimiters(Append(list, u)) = Delimiters(list) + Dots(ReceivedUpdate(u).text)
  <1> DEFINE n == Len(list)
             t == Append(list, u)
  <1>0. Delimiters(<<>>) = 0
    <2>1. <<>> \in Seq(Update) /\ Len(<<>>) = 0
      OBVIOUS
    <2>2. PICK f : DelimitersRun(f, <<>>)
      BY <2>1, DelimitersLoop
    <2>3. QED BY <2>1, <2>2 DEF DelimitersRun
  <1>1. n \in Nat /\ Len(t) = n + 1 /\ t[n + 1] = u /\ \A i \in 1..n : t[i] = list[i]
    BY AppendProperties, LenProperties
  <1>2. t \in Seq(Update)
    BY AppendProperties
  <1>4. PICK f : DelimitersRun(f, list) /\ f \in [0..n -> Nat]
    BY DelimitersLoop
  <1> HIDE DEF n, t
  <1>5. PICK g : DelimitersRun(g, t)
    BY <1>2, DelimitersLoop
  <1>6. f[0] = g[0]
    BY <1>4, <1>5 DEF DelimitersRun
  <1>7. n \in Nat
    BY <1>1
  <1>8. \A i \in 1..n : f[i - 1] = g[i - 1] => f[i] = g[i]
    <2>1. \A i \in 1..n : f[i] = f[i - 1] + Dots(ReceivedUpdate(list[i]).text)
      BY <1>4 DEF DelimitersRun, n
    <2>2. \A i \in 1..n : i \in 1..Len(t)
      BY <1>1
    <2>3. \A i \in 1..n : g[i] = g[i - 1] + Dots(ReceivedUpdate(t[i]).text)
      BY <1>5, <2>2 DEF DelimitersRun
    <2>4. \A i \in 1..n : t[i] = list[i]
      BY <1>1
    <2>5. QED BY ONLY <2>1, <2>3, <2>4
  <1>9. f[n] = g[n]
    <2>1. SameRounds(f, g, n)
      BY <1>6, <1>8 DEF SameRounds
    <2>2. QED BY <1>7, <2>1, LoopSame
  <1>10. Delimiters(list) = f[n] /\ f[n] = g[n] /\ f[n] \in Nat
    <2>1. Delimiters(list) = f[n]
      BY <1>4 DEF DelimitersRun, n
    <2>2. n \in 0..n
      BY <1>7
    <2>3. QED BY <1>4, <1>9, <2>1, <2>2
  <1>11. n + 1 \in 1..Len(t) /\ (n + 1) - 1 = n
    BY <1>1
  <1>12. Delimiters(t) = g[n] + Dots(ReceivedUpdate(t[n + 1]).text)
    BY <1>1, <1>5, <1>11 DEF DelimitersRun
  <1>13. QED BY <1>0, <1>1, <1>10, <1>12 DEF t

\* Inserting words inserts their text.
LEMMA FlattenInsert ==
  ASSUME NEW ws \in Lists(Inks), NEW us \in Lists(Inks), NEW i \in 0..Len(ws)
  PROVE  LET a == FlattenSeq(SubSeq(ws, 1, i))
             b == FlattenSeq(SubSeq(ws, i + 1, Len(ws)))
         IN  /\ a \in Seq(Inks) /\ b \in Seq(Inks) /\ FlattenSeq(us) \in Seq(Inks)
             /\ FlattenSeq(ws) = a \o b
             /\ FlattenSeq(Insert(ws, i, us)) = (a \o FlattenSeq(us)) \o b
  <1> DEFINE W == Seq(Inks)
             p == SubSeq(ws, 1, i)
             q == SubSeq(ws, i + 1, Len(ws))
  <1>1. ws \in Seq(W) /\ us \in Seq(W)
    BY ListsAreSeqs
  <1>2. /\ p \in Seq(W) /\ q \in Seq(W) /\ ws = p \o q
        /\ Insert(ws, i, us) = (p \o us) \o q
    <2> HIDE DEF W
    <2>1. ws \in Seq(W)
      BY <1>1
    <2>2. us \in Seq(W)
      BY <1>1
    <2>3. p \in Seq(W) /\ q \in Seq(W)
      BY <2>1, <2>2, InsertProperties
    <2>4. ws = p \o q
      BY <2>1, <2>2, InsertProperties
    <2>5. Insert(ws, i, us) = (p \o us) \o q
      BY DEF Insert
    <2>6. QED BY <2>3, <2>4, <2>5
  <1> HIDE DEF p, q
  <1>3. p \o us \in Seq(W)
    <2> HIDE DEF W
    <2>1. QED BY <1>1, <1>2, ConcatProperties
  <1>4. \A d \in Seq(W) : FlattenSeq(d) \in Seq(Inks)
    <2>1. <<>> \in Seq(Inks)
      OBVIOUS
    <2>2. QED BY <2>1, FlattenAppend
  <1>5. \A d, e \in Seq(W) : FlattenSeq(d \o e) = FlattenSeq(d) \o FlattenSeq(e)
    BY FlattenConcat
  <1>6. FlattenSeq(ws) = FlattenSeq(p) \o FlattenSeq(q)
    BY <1>2, <1>5
  <1> DEFINE r == p \o us
  <1>7. FlattenSeq(r) = FlattenSeq(p) \o FlattenSeq(us)
    BY <1>1, <1>2, <1>5
  <1>8. FlattenSeq(r \o q) = FlattenSeq(r) \o FlattenSeq(q)
    <2>1. r \in Seq(W)
      BY <1>3
    <2> HIDE DEF r
    <2>2. QED BY <1>2, <1>5, <2>1
  <1> HIDE DEF r
  <1>9. FlattenSeq(Insert(ws, i, us)) = (FlattenSeq(p) \o FlattenSeq(us)) \o FlattenSeq(q)
    <2>1. Insert(ws, i, us) = r \o q
      BY <1>2 DEF r
    <2>2. QED BY <1>7, <1>8, <2>1, Zenon
  <1>10. QED BY <1>1, <1>2, <1>4, <1>6, <1>9 DEF p, q

\* Updates that are applied bring in the delimiters of their texts and lose none.
LEMMA DotsApplied ==
  ASSUME NEW ws \in Lists(Inks), NEW list \in Seq(Update),
         ~ apply_updates(ws, ReceivedOf(list)).failed
  PROVE  Dots(FlattenSeq(apply_updates(ws, ReceivedOf(list)).words))
            = Dots(FlattenSeq(ws)) + Delimiters(list)
  <1> DEFINE A(l) == apply_updates(ws, ReceivedOf(l))
             d == Dots(FlattenSeq(ws))
             Good(l) == ~ A(l).failed => Dots(FlattenSeq(A(l).words)) = d + Delimiters(l)
             T == {l \in Seq(Update) : Good(l)}
  <1>0. \A vs \in Lists(Inks) : FlattenSeq(vs) \in Seq(Inks) /\ Dots(FlattenSeq(vs)) \in Nat
    <2>1. ASSUME NEW vs \in Lists(Inks) PROVE FlattenSeq(vs) \in Seq(Inks)
      <3>1. vs \in Seq(Seq(Inks)) /\ <<>> \in Seq(Inks)
        BY ListsAreSeqs
      <3>2. QED BY <3>1, FlattenAppend
    <2>2. \A r \in Seq(Inks) : Dots(r) \in Nat
      BY DotsConcat
    <2>3. QED BY <2>1, <2>2
  <1>u. PICK u0 : u0 \in Update
    <2>1. [index |-> 0, text |-> <<>>] \in Update
      BY DEF Update
    <2>2. QED BY <2>1
  <1>1. <<>> \in T
    <2>1. A(<<>>) = [words |-> ws, failed |-> FALSE] /\ Delimiters(<<>>) = 0
      <3>1. <<>> \in Seq(Update)
        OBVIOUS
      <3>2. ReceivedOf(<<>>) = <<>> /\ Delimiters(<<>>) = 0
        BY <1>u, <3>1, ReceivedAppend, DelimitersAppend
      <3>3. apply_updates(ws, <<>>) = [words |-> ws, failed |-> FALSE]
        BY <1>u, <3>1, ApplyAppend
      <3>4. QED BY <3>2, <3>3, Zenon
    <2>2. d \in Nat
      BY <1>0
    <2> HIDE DEF A, d
    <2>3. A(<<>>).words = ws
      BY <2>1
    <2>4. Dots(FlattenSeq(A(<<>>).words)) = d
      BY <2>3, Zenon DEF d
    <2>5. d + Delimiters(<<>>) = d
      BY <2>1, <2>2
    <2>6. Good(<<>>)
      BY <2>4, <2>5, Zenon
    <2> HIDE DEF Good
    <2>7. QED BY <2>6
  <1>2. ASSUME NEW l \in Seq(Update), NEW u \in Update, l \in T PROVE Append(l, u) \in T
    <2> DEFINE c == ReceivedUpdate(u)
               acc == A(l)
               q == Append(l, u)
    <2>1. q \in Seq(Update)
      BY AppendProperties
    <2>2. SUFFICES ASSUME ~ A(q).failed PROVE Dots(FlattenSeq(A(q).words)) = d + Delimiters(q)
      BY <2>1
    <2>3. c \in Update /\ c.text \in Seq(Chars)
      BY ReceivedUpdateTyped
    <2>4. ReceivedOf(q) = Append(ReceivedOf(l), c) /\ ReceivedOf(l) \in Seq(Update)
      BY ReceivedAppend, ReceivedTyped
    <2>5. Delimiters(q) = Delimiters(l) + Dots(c.text) /\ Delimiters(l) \in Nat
      BY DelimitersAppend
    <2>6. acc \in ApplyState /\ A(q) = ApplyOne(acc, c)
      <3> HIDE DEF c, q
      <3>1. QED BY <2>3, <2>4, ApplyAppend
    <2>7. Good(l)
      BY <1>2
    <2> HIDE DEF acc, c, q, A
    <2> DEFINE ws1 == acc.words
               us == InsertedWords(c.text)
               i == c.index
    <2>8. ws1 \in Lists(Inks) /\ us \in Lists(Inks)
      BY <2>3, <2>6, ApplyOneTyped
    <2>9. /\ ~ acc.failed /\ i \in 0..Len(ws1)
          /\ A(q).words = Insert(ws1, i, us)
      BY <2>2, <2>3, <2>6, ApplyOneTyped
    <2>10. Dots(FlattenSeq(ws1)) = d + Delimiters(l)
      BY <2>7, <2>9 DEF acc
    <2>11. FlattenSeq(us) = Ink(c.text)
      BY <2>3, FlattenWords DEF InsertedWords, White
    <2>12. Dots(FlattenSeq(us)) = Dots(c.text)
      BY <2>3, <2>11, DotsInk
    <2> HIDE DEF ws1, us, i
    <2> DEFINE a == FlattenSeq(SubSeq(ws1, 1, i))
               b == FlattenSeq(SubSeq(ws1, i + 1, Len(ws1)))
               m == FlattenSeq(us)
    <2>13. /\ a \in Seq(Inks) /\ b \in Seq(Inks) /\ m \in Seq(Inks)
           /\ FlattenSeq(ws1) = a \o b
           /\ FlattenSeq(Insert(ws1, i, us)) = (a \o m) \o b
      BY <2>8, <2>9, FlattenInsert
    <2> HIDE DEF a, b, m
    <2>14. a \o m \in Seq(Inks)
      BY <2>13, ConcatProperties
    <2>15. Dots(a \o b) = Dots(a) + Dots(b) /\ Dots(a) \in Nat /\ Dots(b) \in Nat
      BY <2>13, DotsConcat
    <2>16. Dots(a \o m) = Dots(a) + Dots(m) /\ Dots(m) \in Nat
      BY <2>13, DotsConcat
    <2>17. Dots((a \o m) \o b) = Dots(a \o m) + Dots(b)
      <3> DEFINE e == a \o m
      <3>1. e \in Seq(Inks)
        BY <2>14
      <3> HIDE DEF e
      <3>2. Dots(e \o b) = Dots(e) + Dots(b)
        BY <2>13, <3>1, DotsConcat
      <3>3. QED BY <3>2 DEF e
    <2>18. Dots(FlattenSeq(A(q).words)) = Dots((a \o m) \o b)
      BY <2>9, <2>13, Zenon
    <2>19. Dots(m) = Dots(c.text) /\ Dots(a \o b) = d + Delimiters(l)
      BY <2>10, <2>12, <2>13, Zenon DEF m
    <2>20. d \in Nat
      BY <1>0
    <2> DEFINE x1 == Dots(a)
               x2 == Dots(b)
               x3 == Dots(m)
    <2>21. Dots((a \o m) \o b) = (x1 + x3) + x2
      BY <2>16, <2>17, Zenon
    <2>22. x1 + x2 = d + Delimiters(l) /\ x1 \in Nat /\ x2 \in Nat /\ x3 \in Nat
      BY <2>15, <2>16, <2>19, Zenon
    <2>23. Delimiters(q) = Delimiters(l) + x3
      BY <2>5, <2>19, Zenon
    <2> HIDE DEF x1, x2, x3, d
    <2>24. (x1 + x3) + x2 = d + Delimiters(q)
      BY <2>5, <2>20, <2>22, <2>23
    <2>25. QED BY <2>18, <2>21, <2>24, Zenon
  <1>3. Good(list)
    <2> HIDE DEF Good, T
    <2>1. Seq(Update) \subseteq T
      BY <1>1, <1>2, SeqInduction
    <2>2. QED BY <2>1 DEF T
  <1>4. QED BY <1>3

-----------------------------------------------------------------------------
(* Sentences.                                                              *)

\* There is no other position like it.
LEMMA SkipUnique ==
  ASSUME NEW S, NEW s \in Seq(S), NEW i \in 1..(Len(s) + 1), NEW white,
         NEW j, Skipped(s, i, white, j)
  PROVE  Skip(s, i, white) = j
  <1> DEFINE n == Len(s)
             m == Skip(s, i, white)
  <1>1. n \in Nat /\ i \in Nat
    BY LenProperties
  <1>2. Skipped(s, i, white, m)
    BY SkipProperties
  <1> HIDE DEF m
  <1>3. j \in i..(n + 1) /\ m \in i..(n + 1) /\ j \in Nat /\ m \in Nat
    BY <1>1, <1>2 DEF Skipped
  <1>4. ~ (j < m)
    <2>1. SUFFICES ASSUME j < m PROVE FALSE
      OBVIOUS
    <2>2. j \in i..(m - 1) /\ ~ (j > n)
      BY <1>1, <1>3, <2>1
    <2>3. QED BY <1>2, <2>2 DEF Skipped
  <1>5. ~ (m < j)
    <2>1. SUFFICES ASSUME m < j PROVE FALSE
      OBVIOUS
    <2>2. m \in i..(j - 1) /\ ~ (m > n)
      BY <1>1, <1>3, <2>1
    <2>3. QED BY <1>2, <2>2 DEF Skipped
  <1>6. j = m
    BY <1>3, <1>4, <1>5
  <1>7. QED BY <1>6 DEF m

\* One more character matters only to a search that has come to the end.
LEMMA SkipAppend ==
  ASSUME NEW S, NEW s \in Seq(S), NEW x \in S, NEW i \in 1..(Len(s) + 1), NEW white
  PROVE  /\ Skip(s, i, white) \in i..(Len(s) + 1)
         /\ Skip(Append(s, x), i, white) =
              IF Skip(s, i, white) = Len(s) + 1 /\ x \in white THEN Len(s) + 2
              ELSE Skip(s, i, white)
         /\ Skip(Append(s, x), Len(s) + 2, white) = Len(s) + 2
  <1> DEFINE n == Len(s)
             t == Append(s, x)
             m == Skip(s, i, white)
             j == IF m = n + 1 /\ x \in white THEN n + 2 ELSE m
  <1>1. n \in Nat /\ i \in Nat /\ i <= n + 1
    BY LenProperties
  <1>2. t \in Seq(S) /\ Len(t) = n + 1 /\ t[n + 1] = x /\ \A k \in 1..n : t[k] = s[k]
    BY AppendProperties
  <1>3. Skipped(s, i, white, m)
    BY SkipProperties
  <1>4. m \in i..(n + 1) /\ m \in Nat
    BY <1>1, <1>3 DEF Skipped
  <1> HIDE DEF m, t
  <1>5. Skipped(t, i, white, j)
    <2>1. j \in i..(Len(t) + 1)
      BY <1>1, <1>2, <1>4
    <2>2. j > Len(t) \/ t[j] \notin white
      <3>1. CASE m = n + 1 /\ x \in white
        BY <1>1, <1>2, <3>1
      <3>2. CASE m = n + 1 /\ x \notin white
        BY <1>2, <3>2
      <3>3. CASE m # n + 1
        <4>1. m \in 1..n
          BY <1>1, <1>4, <3>3
        <4>2. ~ (m > n)
          BY <1>1, <4>1
        <4>3. s[m] \notin white
          BY <1>3, <4>2 DEF Skipped
        <4>4. QED BY <1>2, <3>3, <4>1, <4>3
      <3>4. QED BY <3>1, <3>2, <3>3
    <2>3. ASSUME NEW k \in i..(j - 1) PROVE t[k] \in white
      <3>1. CASE k \in i..(m - 1)
        <4>1. k \in 1..n
          BY <1>1, <1>4, <3>1
        <4>2. QED BY <1>2, <1>3, <3>1, <4>1 DEF Skipped
      <3>2. CASE k \notin i..(m - 1)
        <4>1. m = n + 1 /\ x \in white
          BY <3>2
        <4>2. k = n + 1
          BY <1>1, <3>2, <4>1
        <4>3. QED BY <1>2, <4>1, <4>2
      <3>3. QED BY <3>1, <3>2
    <2>4. QED BY <2>1, <2>2, <2>3 DEF Skipped
  <1>6. i \in 1..(Len(t) + 1) /\ n + 2 \in 1..(Len(t) + 1)
    BY <1>1, <1>2
  <1> HIDE DEF j
  <1>7. Skip(t, i, white) = j
    BY <1>2, <1>5, <1>6, SkipUnique
  <1>8. Skip(t, n + 2, white) = n + 2
    <2> DEFINE e == n + 2
               y == Skip(t, e, white)
    <2>1. e \in 1..(Len(t) + 1)
      BY <1>6
    <2>2. Skipped(t, e, white, y)
      <3> HIDE DEF e
      <3>1. QED BY <1>2, <2>1, SkipProperties
    <2> HIDE DEF y
    <2>3. y \in e..(Len(t) + 1)
      BY <2>2 DEF Skipped
    <2>4. y = e
      BY <1>1, <1>2, <2>3
    <2>5. QED BY <2>4 DEF y
  <1>9. QED BY <1>4, <1>7, <1>8 DEF j, m, t

SpanRec   == [start : Nat, length : Int]
SpanState == [start : Nat, found : Seq(SpanRec)]

SpanStep(s, white, acc, i) ==
    IF s[i] # "." THEN acc
    ELSE [start |-> Skip(s, i + 1, white), found |-> Append(acc.found, Span(acc.start, i))]

SpansRun(f, s, white) ==
    /\ f[0] = [start |-> 1, found |-> <<>>] /\ Spans(s, white) = f[Len(s)]
    /\ \A i \in 1..Len(s) : f[i] = SpanStep(s, white, f[i - 1], i)

\* A step of the loop of compute_spans yields spans.
LEMMA SpanStepTyped ==
  ASSUME NEW S, NEW s \in Seq(S), NEW white, NEW acc \in SpanState, NEW i \in 1..Len(s)
  PROVE  /\ SpanStep(s, white, acc, i) \in SpanState
         /\ i + 1 \in 1..(Len(s) + 1)
         /\ Skip(s, i + 1, white) \in (i + 1)..(Len(s) + 1)
         /\ Span(acc.start, i) \in SpanRec
         /\ Append(acc.found, Span(acc.start, i)) # <<>>
  <1> DEFINE n == Len(s)
             k == Skip(s, i + 1, white)
             p == Span(acc.start, i)
  <1>1. n \in Nat /\ i \in Nat /\ i + 1 \in 1..(n + 1)
    BY LenProperties
  <1>2. k \in (i + 1)..(n + 1)
    <2> DEFINE m == i + 1
    <2>1. m \in 1..(Len(s) + 1)
      BY <1>1
    <2> HIDE DEF m
    <2>2. Skipped(s, m, white, Skip(s, m, white))
      BY <2>1, SkipProperties
    <2>3. QED BY <2>2 DEF Skipped, m
  <1>3. acc.start \in Nat /\ acc.found \in Seq(SpanRec)
    BY DEF SpanState
  <1>4. p \in SpanRec
    BY <1>1, <1>3 DEF Span, SpanRec
  <1> HIDE DEF p, k
  <1>5. Append(acc.found, p) \in Seq(SpanRec) /\ Append(acc.found, p) # <<>>
    BY <1>3, <1>4, AppendProperties
  <1>6. k \in Nat
    BY <1>1, <1>2
  <1>7. [start |-> k, found |-> Append(acc.found, p)] \in SpanState
    BY <1>5, <1>6 DEF SpanState
  <1>8. SpanStep(s, white, acc, i) \in SpanState
    BY <1>7 DEF SpanStep, k, p
  <1>9. QED BY <1>1, <1>2, <1>4, <1>5, <1>8 DEF p, k

\* The loop of Spans.
LEMMA SpansLoop ==
  ASSUME NEW S, NEW s \in Seq(S), NEW white
  PROVE  \E f : SpansRun(f, s, white) /\ f \in [0..Len(s) -> SpanState]
  <1> DEFINE n == Len(s)
             V == SpanState
             a == [start |-> 1, found |-> <<>>]
             F == [p \in (1..n) \X V |-> SpanStep(s, white, p[2], p[1])]
             IsLoop(f) == f = [k \in 0..n |-> IF k = 0 THEN a ELSE SpanStep(s, white, f[k - 1], k)]
  <1>0. a \in V
    BY DEF SpanState
  <1>1. n \in Nat
    BY LenProperties
  <1> HIDE DEF V
  <1>2. ASSUME NEW i \in 1..n, NEW v \in V PROVE SpanStep(s, white, v, i) \in V
    BY SpanStepTyped DEF V
  <1>3. F \in [(1..n) \X V -> V]
    BY <1>2
  <1>4. \A i \in 1..n : \A v \in V : F[<<i, v>>] = SpanStep(s, white, v, i)
    OBVIOUS
  <1> HIDE DEF F, a
  <1>5. PICK g : LoopRuns(g, a, n, F) /\ g \in [0..n -> V]
    <2>1. n \in Nat
      OBVIOUS
    <2> HIDE DEF n
    <2>2. QED BY ONLY <1>0, <1>3, <2>1, LoopValue
  <1>6. \A i \in 1..n : g[i] = SpanStep(s, white, g[i - 1], i)
    <2>1. ASSUME NEW i \in 1..n PROVE g[i] = SpanStep(s, white, g[i - 1], i)
      <3>1. i - 1 \in 0..n /\ g \in [0..n -> V]
        BY <1>1, <1>5
      <3>2. g[i - 1] \in V
        BY <3>1
      <3>3. QED BY <1>4, <1>5, <3>2 DEF LoopRuns
    <2>2. QED BY <2>1
  <1>7. IsLoop(g)
    BY <1>1, <1>5, <1>6 DEF LoopRuns
  <1> DEFINE h == CHOOSE f : IsLoop(f)
  <1>8. IsLoop(h)
    BY <1>7
  <1>9. Spans(s, white) = h[n]
    BY DEF Spans, SpanStep, a
  <1> HIDE DEF h
  <1>10. h[n] = g[n]
    <2>1. h[0] = g[0]
      BY <1>1, <1>5, <1>8 DEF LoopRuns
    <2>2. \A i \in 1..n : h[i - 1] = g[i - 1] => h[i] = g[i]
      <3>1. ASSUME NEW i \in 1..n PROVE h[i] = SpanStep(s, white, h[i - 1], i)
        <4>1. i \in 0..n /\ i # 0
          BY <1>1
        <4>2. QED BY <1>8, <4>1
      <3>2. QED BY <1>6, <3>1
    <2>3. SameRounds(h, g, n)
      BY <2>1, <2>2 DEF SameRounds
    <2>4. n \in Nat
      BY <1>1
    <2> HIDE DEF n
    <2>5. QED BY <2>3, <2>4, LoopSame
  <1>11. QED BY <1>5, <1>6, <1>9, <1>10 DEF SpansRun, LoopRuns, a, V

\* Where the next sentence starts: nothing but white space is skipped to get there.
Ahead(f, s, white, i) ==
    /\ f[i].start \in 1..(Len(s) + 1)
    /\ \A k \in (i + 1)..(f[i].start - 1) : s[k] \in white
    /\ f[i].found = <<>> => f[i].start = 1

\* The loop of compute_spans never looks back over anything but white space.
LEMMA SpansAhead ==
  ASSUME NEW S, NEW s \in Seq(S), NEW white, NEW f, SpansRun(f, s, white),
         f \in [0..Len(s) -> SpanState], NEW i \in 0..Len(s)
  PROVE  Ahead(f, s, white, i)
  <1> DEFINE n == Len(s)
             T == {m \in Nat : m <= n => Ahead(f, s, white, m)}
  <1>1. n \in Nat
    BY LenProperties
  <1>2. f[0] = [start |-> 1, found |-> <<>>]
    BY DEF SpansRun
  <1>3. \A m \in 1..n : f[m] = SpanStep(s, white, f[m - 1], m)
    BY DEF SpansRun
  <1>4. f \in [0..n -> SpanState]
    OBVIOUS
  <1>5. 0 \in T
    <2>1. Ahead(f, s, white, 0)
      BY <1>1, <1>2 DEF Ahead
    <2>2. QED BY <2>1
  <1>6. ASSUME NEW m \in Nat, m \in T PROVE m + 1 \in T
    <2>1. SUFFICES ASSUME m + 1 <= n PROVE Ahead(f, s, white, m + 1)
      OBVIOUS
    <2>2. m \in 0..n /\ m + 1 \in 1..n /\ (m + 1) - 1 = m
      BY <1>1, <2>1
    <2>3. Ahead(f, s, white, m)
      BY <1>1, <1>6, <2>2
    <2>4. f[m + 1] = SpanStep(s, white, f[m], m + 1)
      BY <1>3, <2>2
    <2>5. f[m] \in SpanState
      BY <1>4, <2>2
    <2>6. CASE s[m + 1] # "."
      <3>1. f[m + 1] = f[m]
        BY <2>4, <2>6 DEF SpanStep
      <3>2. \A k \in ((m + 1) + 1)..(f[m].start - 1) : k \in (m + 1)..(f[m].start - 1)
        BY <2>5 DEF SpanState
      <3>3. QED BY <2>3, <3>1, <3>2 DEF Ahead
    <2>7. CASE s[m + 1] = "."
      <3> DEFINE e == m + 1
                 j == Skip(s, e + 1, white)
                 l == Append(f[m].found, Span(f[m].start, e))
      <3>1. f[e] = [start |-> j, found |-> l]
        BY <2>4, <2>7 DEF SpanStep
      <3>2. e \in 1..Len(s)
        BY <2>2
      <3> HIDE DEF e
      <3>3. e + 1 \in 1..(Len(s) + 1) /\ l # <<>>
        BY <2>5, <3>2, SpanStepTyped
      <3>4. Skipped(s, e + 1, white, j)
        <4> DEFINE d == e + 1
        <4>1. d \in 1..(Len(s) + 1)
          BY <3>3
        <4> HIDE DEF d
        <4>2. Skipped(s, d, white, Skip(s, d, white))
          BY <4>1, SkipProperties
        <4>3. QED BY <4>2 DEF d
      <3> HIDE DEF j, l
      <3>5. f[e].start = j /\ f[e].found = l
        BY <3>1
      <3>6. j \in 1..(Len(s) + 1)
        BY <1>1, <3>2, <3>4 DEF Skipped
      <3>7. \A k \in (e + 1)..(j - 1) : s[k] \in white
        BY <3>4 DEF Skipped
      <3>8. Ahead(f, s, white, e)
        BY <3>3, <3>5, <3>6, <3>7 DEF Ahead
      <3>9. QED BY <3>8 DEF e
    <2>8. QED BY <2>6, <2>7
  <1>7. i \in T
    <2> HIDE DEF T
    <2>1. i \in Nat
      BY <1>1
    <2>2. QED BY <1>5, <1>6, <2>1, SetInduction
  <1>8. QED BY <1>1, <1>7

\* A run of Spans on a text and one on the text with a character more.
Match(f, g, n, x, white, i) ==
    /\ f[i].found = g[i].found
    /\ g[i].start = IF f[i].start = n + 1 /\ x \in white /\ f[i].found # <<>>
                    THEN n + 2 ELSE f[i].start

\* One more character behind the text changes nothing before the end of the loop.
LEMMA SpansMatch ==
  ASSUME NEW S, NEW s \in Seq(S), NEW x \in S, NEW white, "." \notin white,
         NEW f, SpansRun(f, s, white), f \in [0..Len(s) -> SpanState],
         NEW g, SpansRun(g, Append(s, x), white)
  PROVE  Match(f, g, Len(s), x, white, Len(s))
  <1> DEFINE n == Len(s)
             t == Append(s, x)
             M(i) == Match(f, g, n, x, white, i)
             T == {m \in Nat : m <= n => M(m)}
  <1>1. n \in Nat
    BY LenProperties
  <1>2. Len(t) = n + 1 /\ \A k \in 1..n : t[k] = s[k]
    BY AppendProperties
  <1>3. f[0] = [start |-> 1, found |-> <<>>] /\ g[0] = [start |-> 1, found |-> <<>>]
    BY DEF SpansRun
  <1>4. \A m \in 1..n : f[m] = SpanStep(s, white, f[m - 1], m)
    BY DEF SpansRun
  <1>5. \A m \in 1..n : g[m] = SpanStep(t, white, g[m - 1], m)
    <2>1. \A m \in 1..n : m \in 1..Len(t)
      BY <1>1, <1>2
    <2>2. QED BY <2>1 DEF SpansRun
  <1>6. 0 \in T
    <2>1. f[0].start = 1 /\ f[0].found = <<>> /\ g[0].start = 1 /\ g[0].found = <<>>
      BY <1>3
    <2>2. M(0)
      BY <2>1 DEF Match
    <2>3. QED BY <2>2
  <1>7. ASSUME NEW m \in Nat, m \in T PROVE m + 1 \in T
    <2>1. SUFFICES ASSUME m + 1 <= n PROVE M(m + 1)
      OBVIOUS
    <2>2. m \in 0..n /\ m + 1 \in 1..n /\ (m + 1) - 1 = m
      BY <1>1, <2>1
    <2>3. M(m)
      BY <1>1, <1>7, <2>2
    <2>4. f[m + 1] = SpanStep(s, white, f[m], m + 1) /\ g[m + 1] = SpanStep(t, white, g[m], m + 1)
      BY <1>4, <1>5, <2>2
    <2>5. f[m] \in SpanState /\ t[m + 1] = s[m + 1]
      BY <1>2, <2>2
    <2>6. CASE s[m + 1] # "."
      <3>1. f[m + 1] = f[m] /\ g[m + 1] = g[m]
        BY <2>4, <2>5, <2>6 DEF SpanStep
      <3>2. QED BY <2>3, <3>1 DEF Match
    <2>7. CASE s[m + 1] = "."
      <3> DEFINE e == m + 1
                 d == e + 1
                 j == Skip(s, d, white)
                 i == Skip(t, d, white)
                 l == Append(f[m].found, Span(f[m].start, e))
      <3>1. Ahead(f, s, white, m)
        BY <2>2, SpansAhead
      <3>2. f[m].start <= m + 1 /\ f[m].start # n + 1
        <4>1. f[m].start \in Nat
          BY <2>5 DEF SpanState
        <4>2. f[m].start <= m + 1
          <5>1. SUFFICES ASSUME m + 1 < f[m].start PROVE FALSE
            BY <4>1
          <5>2. m + 1 \in (m + 1)..(f[m].start - 1)
            BY <4>1, <5>1
          <5>3. s[m + 1] \in white
            BY <3>1, <5>2 DEF Ahead
          <5>4. QED BY <2>7, <5>3
        <4>3. QED BY <1>1, <2>1, <4>1, <4>2
      <3>3. g[m].start = f[m].start /\ g[m].found = f[m].found
        BY <2>3, <3>2 DEF Match
      <3>4. f[e] = [start |-> j, found |-> l]
        BY <2>4, <2>7 DEF SpanStep
      <3>5. g[e] = [start |-> i, found |-> l]
        BY <2>4, <2>5, <2>7, <3>3 DEF SpanStep
      <3>6. e \in 1..Len(s)
        BY <2>2
      <3>7. d \in 1..(Len(s) + 1)
        BY <1>1, <2>1
      <3>8. l # <<>>
        <4> HIDE DEF e
        <4>1. QED BY <2>5, <3>6, SpanStepTyped
      <3> HIDE DEF d, t
      <3>9. i = IF j = n + 1 /\ x \in white THEN n + 2 ELSE j
        BY <3>7, SkipAppend DEF t
      <3> HIDE DEF e, l, i, j, n
      <3>10. f[e].start = j /\ f[e].found = l /\ g[e].start = i /\ g[e].found = l
        BY <3>4, <3>5
      <3>11. M(e)
        BY <3>8, <3>9, <3>10 DEF Match
      <3>12. QED BY <3>11 DEF e
    <2>8. QED BY <2>6, <2>7
  <1>8. n \in T
    <2> HIDE DEF T
    <2>1. QED BY <1>1, <1>6, <1>7, SetInduction
  <1>9. QED BY <1>1, <1>8

\* What Spans makes of one more character.
LEMMA SpansAppend ==
  ASSUME NEW S, NEW s \in Seq(S), NEW x \in S, NEW white, "." \notin white
  PROVE  LET p == Spans(s, white)
             q == Spans(Append(s, x), white)
         IN  /\ p \in SpanState
             /\ p.start \in 1..(Len(s) + 1) /\ (p.found = <<>> => p.start = 1)
             /\ x = "." => /\ q.found = Append(p.found, Span(p.start, Len(s) + 1))
                           /\ q.start = Len(s) + 2
             /\ x # "." => /\ q.found = p.found
                           /\ q.start = IF p.start = Len(s) + 1 /\ x \in white /\ p.found # <<>>
                                        THEN Len(s) + 2 ELSE p.start
  <1> DEFINE n == Len(s)
             t == Append(s, x)
             p == Spans(s, white)
             q == Spans(t, white)
  <1>1. n \in Nat
    BY LenProperties
  <1>2. t \in Seq(S) /\ Len(t) = n + 1 /\ t[n + 1] = x
    BY AppendProperties
  <1>3. PICK f : SpansRun(f, s, white) /\ f \in [0..n -> SpanState]
    BY SpansLoop
  <1>4. PICK g : SpansRun(g, t, white)
    <2> HIDE DEF t
    <2>1. QED BY <1>2, SpansLoop
  <1>5. p = f[n] /\ q = g[n + 1]
    BY <1>2, <1>3, <1>4 DEF SpansRun
  <1>6. p \in SpanState /\ n \in 0..n
    BY <1>1, <1>3, <1>5
  <1>7. Match(f, g, n, x, white, n)
    <2>1. SpansRun(f, s, white)
      BY <1>3
    <2>2. f \in [0..Len(s) -> SpanState]
      BY <1>3
    <2>3. QED BY <1>4, <2>1, <2>2, SpansMatch
  <1>8. Ahead(f, s, white, n)
    BY <1>3, <1>6, SpansAhead
  <1>9. q = SpanStep(t, white, g[n], n + 1)
    <2>1. n + 1 \in 1..Len(t) /\ (n + 1) - 1 = n
      BY <1>1, <1>2
    <2>2. QED BY <1>4, <1>5, <2>1 DEF SpansRun
  <1>10. p.start \in 1..(n + 1) /\ (p.found = <<>> => p.start = 1)
    BY <1>5, <1>8 DEF Ahead
  <1>11. CASE x = "."
    <2>1. g[n].start = p.start /\ g[n].found = p.found
      BY <1>5, <1>7, <1>11 DEF Match
    <2>2. Skip(t, (n + 1) + 1, white) = n + 2
      <3>1. (n + 1) + 1 = n + 2 /\ n + 1 \in 1..(Len(s) + 1)
        BY <1>1
      <3>2. Skip(t, n + 2, white) = n + 2
        BY <3>1, SkipAppend
      <3>3. QED BY <3>1, <3>2, Zenon
    <2> HIDE DEF t, n, p
    <2>3. q = [start |-> n + 2, found |-> Append(p.found, Span(p.start, n + 1))]
      BY <1>2, <1>9, <1>11, <2>1, <2>2 DEF SpanStep
    <2> HIDE DEF q
    <2>4. q.start = n + 2 /\ q.found = Append(p.found, Span(p.start, n + 1))
      BY <2>3
    <2>5. QED BY <1>6, <1>10, <1>11, <2>4 DEF p, q, n, t
  <1>12. CASE x # "."
    <2>1. q = g[n]
      BY <1>2, <1>9, <1>12 DEF SpanStep
    <2>2. /\ q.found = p.found
          /\ q.start = IF p.start = n + 1 /\ x \in white /\ p.found # <<>> THEN n + 2 ELSE p.start
      BY <1>5, <1>7, <2>1 DEF Match
    <2>3. QED BY <1>6, <1>10, <1>12, <2>2
  <1>13. QED BY <1>11, <1>12

\* The empty text has no sentence.
LEMMA SpansNil ==
  ASSUME NEW white
  PROVE  Spans(<<>>, white) = [start |-> 1, found |-> <<>>]
  <1>1. <<>> \in Seq({}) /\ Len(<<>>) = 0
    OBVIOUS
  <1>2. PICK f : SpansRun(f, <<>>, white)
    BY <1>1, SpansLoop
  <1>3. QED BY <1>1, <1>2 DEF SpansRun

Begin(s) == Spans(s, White).start

\* compute_spans reads a text character by character.
LEMMA SpanMachine ==
  ASSUME NEW s \in Seq(Chars), NEW x \in Chars
  PROVE  /\ compute_spans(<<>>) = <<>> /\ Begin(<<>>) = 1
         /\ compute_spans(s) \in Seq(SpanRec)
         /\ Begin(s) \in 1..(Len(s) + 1) /\ (compute_spans(s) = <<>> => Begin(s) = 1)
         /\ x = "." => /\ compute_spans(Append(s, x))
                            = Append(compute_spans(s), Span(Begin(s), Len(s) + 1))
                       /\ Begin(Append(s, x)) = Len(s) + 2
         /\ x # "." => compute_spans(Append(s, x)) = compute_spans(s)
         /\ x # "." /\ Begin(s) = Len(s) + 1 /\ x \in White /\ compute_spans(s) # <<>>
              => Begin(Append(s, x)) = Len(s) + 2
         /\ x # "." /\ ~ (Begin(s) = Len(s) + 1 /\ x \in White /\ compute_spans(s) # <<>>)
              => Begin(Append(s, x)) = Begin(s)
  <1> DEFINE p == Spans(s, White)
             q == Spans(Append(s, x), White)
  <1>0. "." \notin White
    BY PlainChars
  <1>1. /\ p \in SpanState
        /\ p.start \in 1..(Len(s) + 1) /\ (p.found = <<>> => p.start = 1)
        /\ x = "." => /\ q.found = Append(p.found, Span(p.start, Len(s) + 1))
                      /\ q.start = Len(s) + 2
        /\ x # "." => /\ q.found = p.found
                      /\ q.start = IF p.start = Len(s) + 1 /\ x \in White /\ p.found # <<>>
                                   THEN Len(s) + 2 ELSE p.start
    BY <1>0, SpansAppend
  <1>2. /\ Begin(s) = p.start /\ Begin(Append(s, x)) = q.start
        /\ compute_spans(s) = p.found /\ compute_spans(Append(s, x)) = q.found
    BY DEF compute_spans, White, Begin
  <1>3. compute_spans(<<>>) = <<>> /\ Begin(<<>>) = 1
    <2>1. Spans(<<>>, White) = [start |-> 1, found |-> <<>>]
      BY SpansNil
    <2>2. Spans(<<>>, White).start = 1 /\ Spans(<<>>, White).found = <<>>
      BY <2>1
    <2>3. QED BY <2>2 DEF compute_spans, White, Begin
  <1>4. p.found \in Seq(SpanRec)
    BY <1>1 DEF SpanState
  <1> HIDE DEF p, q
  <1>5. QED BY <1>1, <1>2, <1>3, <1>4

\* The loop of handle_write_request sees the same sentences in a text without
\* carriage returns.
LEMMA PlainSpans ==
  ASSUME NEW s \in Seq(Plain)
  PROVE  Spans(s, {" "}) = Spans(s, White)
  <1> DEFINE one == {" "}
             Good(r) == Spans(r, one) = Spans(r, White)
             T == {r \in Seq(Plain) : Good(r)}
  <1>0. /\ "." \notin White /\ "." \notin one
        /\ \A x \in Plain : x \in one <=> x \in White
    BY PlainChars
  <1> HIDE DEF one
  <1>1. <<>> \in T
    <2>1. Good(<<>>)
      BY SpansNil, Zenon
    <2> HIDE DEF Good
    <2>2. QED BY <2>1
  <1>2. ASSUME NEW r \in Seq(Plain), NEW x \in Plain, r \in T PROVE Append(r, x) \in T
    <2> DEFINE t == Append(r, x)
               p == Spans(r, White)
               q1 == Spans(t, one)
               q2 == Spans(t, White)
    <2>1. t \in Seq(Plain)
      BY AppendProperties
    <2>2. Spans(r, one) = p
      BY <1>2
    <2>3. /\ x = "." => /\ q2.found = Append(p.found, Span(p.start, Len(r) + 1))
                        /\ q2.start = Len(r) + 2
          /\ x # "." => /\ q2.found = p.found
                        /\ q2.start = IF p.start = Len(r) + 1 /\ x \in White /\ p.found # <<>>
                                      THEN Len(r) + 2 ELSE p.start
      BY <1>0, SpansAppend
    <2>4. /\ x = "." => /\ q1.found = Append(p.found, Span(p.start, Len(r) + 1))
                        /\ q1.start = Len(r) + 2
          /\ x # "." => /\ q1.found = p.found
                        /\ q1.start = IF p.start = Len(r) + 1 /\ x \in one /\ p.found # <<>>
                                      THEN Len(r) + 2 ELSE p.start
      <3> DEFINE o == Spans(r, one)
      <3>1. /\ x = "." => /\ q1.found = Append(o.found, Span(o.start, Len(r) + 1))
                          /\ q1.start = Len(r) + 2
            /\ x # "." => /\ q1.found = o.found
                          /\ q1.start = IF o.start = Len(r) + 1 /\ x \in one /\ o.found # <<>>
                                        THEN Len(r) + 2 ELSE o.start
        BY <1>0, SpansAppend
      <3>2. o = p
        BY <2>2
      <3> HIDE DEF o, p, q1
      <3>3. QED BY <3>1, <3>2
    <2>5. q1 \in SpanState /\ q2 \in SpanState
      <3> HIDE DEF t
      <3>1. QED BY <1>0, <2>1, SpansAppend
    <2> HIDE DEF p, q1, q2, t
    <2>6. x \in one <=> x \in White
      BY <1>0
    <2>7. q1.start = q2.start
      BY <2>3, <2>4, <2>6
    <2>8. q1.found = q2.found
      BY <2>3, <2>4
    <2>9. q1 = [start |-> q1.start, found |-> q1.found] /\ q2 = [start |-> q2.start, found |-> q2.found]
      BY <2>5 DEF SpanState
    <2>10. q1 = q2
      BY <2>7, <2>8, <2>9, Zenon
    <2>11. Good(t)
      BY <2>10 DEF q1, q2
    <2> HIDE DEF Good
    <2>12. QED BY <2>1, <2>11 DEF t
  <1>3. Good(s)
    <2> HIDE DEF T, Good
    <2>1. Seq(Plain) \subseteq T
      BY <1>1, <1>2, SeqInduction
    <2>2. QED BY <2>1 DEF T
  <1>4. QED BY <1>3 DEF one

\* The beginning of a text is the beginning of a longer one.
LEMMA SubSeqAppend ==
  ASSUME NEW S, NEW s \in Seq(S), NEW x \in S, NEW i \in 1..(Len(s) + 1), NEW m \in 0..Len(s)
  PROVE  /\ SubSeq(Append(s, x), i, m) = SubSeq(s, i, m)
         /\ SubSeq(s, i, m) \in Seq(S)
         /\ SubSeq(Append(s, x), 1, Len(s) + 1) = Append(s, x)
         /\ SubSeq(Append(s, x), i, Len(s) + 1) = Append(SubSeq(s, i, Len(s)), x)
         /\ SubSeq(s, i, Len(s)) \in Seq(S)
  <1> DEFINE n == Len(s)
             t == Append(s, x)
             a == SubSeq(t, i, m)
             b == SubSeq(s, i, m)
             c == SubSeq(t, i, n + 1)
             d == SubSeq(s, i, n)
             l == n - i + 1
  <1>1. n \in Nat /\ m \in Nat /\ m <= n /\ i \in Nat /\ i >= 1 /\ i <= n + 1 /\ \A k \in 1..n : s[k] \in S
    BY LenProperties, ElementOfSeq
  <1>2. t \in Seq(S) /\ Len(t) = n + 1 /\ t[n + 1] = x /\ \A k \in 1..n : t[k] = s[k]
    BY AppendProperties
  <1>3. \A k \in 1..(n + 1) : t[k] \in S
    BY <1>2, ElementOfSeq
  <1> HIDE DEF n, t
  <1>4. /\ a \in Seq(S) /\ Len(a) = (IF i <= m THEN m - i + 1 ELSE 0)
        /\ \A k \in 1..(m - i + 1) : a[k] = t[i + k - 1]
    <2>1. \A k \in i..m : t[k] \in S
      BY <1>1, <1>3
    <2>2. i \in Int /\ m \in Int
      BY <1>1
    <2>3. QED BY <2>1, <2>2, SubSeqProperties
  <1>5. /\ b \in Seq(S) /\ Len(b) = (IF i <= m THEN m - i + 1 ELSE 0)
        /\ \A k \in 1..(m - i + 1) : b[k] = s[i + k - 1]
    <2>1. \A k \in i..m : s[k] \in S
      BY <1>1
    <2>2. i \in Int /\ m \in Int
      BY <1>1
    <2>3. QED BY <2>1, <2>2, SubSeqProperties
  <1>6. a = b
    <2> HIDE DEF a, b
    <2>1. \A k \in 1..Len(a) : a[k] = b[k]
      <3>1. ASSUME NEW k \in 1..Len(a) PROVE a[k] = b[k]
        <4>1. k \in 1..(m - i + 1) /\ i + k - 1 \in 1..n
          BY <1>1, <1>4
        <4>2. QED BY <1>2, <1>4, <1>5, <4>1
      <3>2. QED BY <3>1
    <2>2. Len(a) = Len(b)
      BY <1>4, <1>5
    <2>3. QED BY <1>4, <1>5, <2>1, <2>2, SeqEqual
  <1>7. /\ c \in Seq(S) /\ Len(c) = l + 1
        /\ \A k \in 1..(l + 1) : c[k] = t[i + k - 1]
    <2>1. \A k \in i..(n + 1) : t[k] \in S
      BY <1>1, <1>3
    <2>2. i \in Int /\ n + 1 \in Int /\ i <= n + 1 /\ (n + 1) - i + 1 = l + 1
      BY <1>1
    <2> DEFINE e == n + 1
    <2>3. i \in Int /\ e \in Int /\ \A k \in i..e : t[k] \in S
      BY <2>1, <2>2
    <2> HIDE DEF e
    <2>4. /\ SubSeq(t, i, e) \in Seq(S) /\ Len(SubSeq(t, i, e)) = (IF i <= e THEN e - i + 1 ELSE 0)
          /\ \A k \in 1..(e - i + 1) : SubSeq(t, i, e)[k] = t[i + k - 1]
      BY <2>3, SubSeqProperties
    <2>5. QED BY <2>2, <2>4 DEF e
  <1>8. /\ d \in Seq(S) /\ Len(d) = l
        /\ \A k \in 1..l : d[k] = s[i + k - 1]
    <2>1. \A k \in i..n : s[k] \in S
      BY <1>1
    <2>2. i \in Int /\ n \in Int
      BY <1>1
    <2>3. /\ d \in Seq(S) /\ Len(d) = (IF i <= n THEN n - i + 1 ELSE 0)
          /\ \A k \in 1..(n - i + 1) : d[k] = s[i + k - 1]
      BY <2>1, <2>2, SubSeqProperties
    <2>4. QED BY <1>1, <2>3
  <1>9. c = Append(d, x)
    <2> HIDE DEF c, d
    <2> DEFINE e == Append(d, x)
    <2>1. e \in Seq(S) /\ Len(e) = l + 1 /\ e[l + 1] = x /\ \A k \in 1..l : e[k] = d[k]
      BY <1>8, AppendProperties
    <2> HIDE DEF e
    <2>2. \A k \in 1..Len(c) : c[k] = e[k]
      <3>1. ASSUME NEW k \in 1..l PROVE c[k] = e[k]
        <4>1. k \in 1..(l + 1) /\ i + k - 1 \in 1..n
          BY <1>1
        <4>2. QED BY <1>2, <1>7, <1>8, <2>1, <4>1
      <3>2. c[l + 1] = e[l + 1]
        <4>1. l + 1 \in 1..(l + 1) /\ i + (l + 1) - 1 = n + 1
          BY <1>1
        <4>2. QED BY <1>2, <1>7, <2>1, <4>1
      <3>3. \A k \in 1..Len(c) : k \in 1..l \/ k = l + 1
        BY <1>1, <1>7
      <3>4. QED BY <3>1, <3>2, <3>3
    <2>3. Len(c) = Len(e)
      BY <1>7, <2>1
    <2>4. c = e
      BY <1>7, <2>1, <2>2, <2>3, SeqEqual
    <2>5. QED BY <2>4 DEF e
  <1>10. SubSeq(t, 1, n + 1) = t
    BY <1>2, SubSeqFull
  <1>11. QED BY <1>5, <1>6, <1>8, <1>9, <1>10 DEF n, t

EndOf(span) == span.start + span.length - 1

\* What a span of compute_spans is: a sentence, with k - 1 sentences before it.
Sentence(s, spans, k) ==
    LET a == spans[k].start
        e == EndOf(spans[k])
    IN  /\ a \in 1..Len(s) /\ e \in a..Len(s)
        /\ \A i \in a..e : s[i] = "." <=> i = e
        /\ k = 1 => a = 1
        /\ k # 1 => /\ s[a] \notin White /\ EndOf(spans[k - 1]) \in 0..(a - 1)
                    /\ \A i \in (EndOf(spans[k - 1]) + 1)..(a - 1) : s[i] \in White
        /\ Len(compute_spans(SubSeq(s, 1, a - 1))) = k - 1
        /\ Len(compute_spans(SubSeq(s, 1, e))) = k

\* What is left at the end of the text.
Rest(s, spans, b) ==
    /\ \A i \in b..Len(s) : s[i] # "."
    /\ spans # <<>> => /\ b = Len(s) + 1 \/ s[b] \notin White
                       /\ EndOf(spans[Len(spans)]) \in 0..(b - 1)
                       /\ \A i \in (EndOf(spans[Len(spans)]) + 1)..(b - 1) : s[i] \in White
    /\ Len(compute_spans(SubSeq(s, 1, b - 1))) = Len(spans)

\* A character more changes no sentence that is complete.
LEMMA SentenceKept ==
  ASSUME NEW s \in Seq(Chars), NEW x \in Chars, NEW spans \in Seq(SpanRec),
         NEW spans2, NEW k \in 1..Len(spans), \A i \in 1..Len(spans) : spans2[i] = spans[i],
         Sentence(s, spans, k)
  PROVE  Sentence(Append(s, x), spans2, k)
  <1> DEFINE n == Len(s)
             t == Append(s, x)
             a == spans[k].start
             e == EndOf(spans[k])
  <1>1. n \in Nat /\ k \in Nat /\ Len(spans) \in Nat
    BY LenProperties
  <1>2. Len(t) = n + 1 /\ \A i \in 1..n : t[i] = s[i]
    BY AppendProperties
  <1>3. spans2[k].start = a /\ EndOf(spans2[k]) = e
    OBVIOUS
  <1>4. k # 1 => EndOf(spans2[k - 1]) = EndOf(spans[k - 1])
    <2>1. k # 1 => k - 1 \in 1..Len(spans)
      BY <1>1
    <2>2. QED BY <2>1
  <1>5. a \in 1..n /\ e \in a..n
    BY DEF Sentence
  <1>6. a \in 1..Len(t) /\ e \in a..Len(t)
    BY <1>1, <1>2, <1>5
  <1>7. SubSeq(t, 1, a - 1) = SubSeq(s, 1, a - 1) /\ SubSeq(t, 1, e) = SubSeq(s, 1, e)
    <2> DEFINE c == a - 1
    <2>1. c \in 0..Len(s) /\ e \in 0..Len(s) /\ 1 \in 1..(Len(s) + 1)
      BY <1>1, <1>5
    <2> HIDE DEF a, e, c
    <2>2. SubSeq(t, 1, c) = SubSeq(s, 1, c)
      BY <2>1, SubSeqAppend
    <2>3. SubSeq(t, 1, e) = SubSeq(s, 1, e)
      BY <2>1, SubSeqAppend
    <2>4. QED BY <2>2, <2>3 DEF c
  <1> HIDE DEF t
  <1>8. \A i \in a..e : t[i] = "." <=> i = e
    <2>1. ASSUME NEW i \in a..e PROVE t[i] = "." <=> i = e
      <3>1. i \in 1..n
        BY <1>1, <1>5
      <3>2. t[i] = s[i]
        BY <1>2, <3>1
      <3>3. s[i] = "." <=> i = e
        BY DEF Sentence
      <3>4. QED BY <3>2, <3>3
    <2>2. QED BY <2>1
  <1>9. ASSUME k # 1
        PROVE  /\ t[a] \notin White /\ EndOf(spans[k - 1]) \in 0..(a - 1)
               /\ \A i \in (EndOf(spans[k - 1]) + 1)..(a - 1) : t[i] \in White
    <2>1. t[a] = s[a]
      BY <1>2, <1>5
    <2>2. /\ s[a] \notin White /\ EndOf(spans[k - 1]) \in 0..(a - 1)
          /\ \A i \in (EndOf(spans[k - 1]) + 1)..(a - 1) : s[i] \in White
      BY <1>9 DEF Sentence
    <2>3. k - 1 \in 1..Len(spans)
      BY <1>1, <1>9
    <2>4. ASSUME NEW i \in (EndOf(spans[k - 1]) + 1)..(a - 1) PROVE t[i] \in White
      <3>1. i \in 1..n
        <4> HIDE DEF a, n
        <4>1. EndOf(spans[k - 1]) \in Nat
          BY <2>2
        <4>2. QED BY <1>1, <1>5, <4>1
      <3>2. QED BY <1>2, <2>2, <3>1
    <2>5. QED BY <2>1, <2>2, <2>4
  <1>10. k = 1 => a = 1
    BY DEF Sentence
  <1>11. Len(compute_spans(SubSeq(s, 1, a - 1))) = k - 1 /\ Len(compute_spans(SubSeq(s, 1, e))) = k
    BY DEF Sentence
  <1> HIDE DEF a, e
  <1>12. QED BY <1>3, <1>4, <1>6, <1>7, <1>8, <1>9, <1>10, <1>11 DEF Sentence, t

\* What compute_spans finds in a text.
Parsed(s) ==
    /\ Len(compute_spans(s)) = Dots(s)
    /\ \A k \in 1..Len(compute_spans(s)) : Sentence(s, compute_spans(s), k)
    /\ Rest(s, compute_spans(s), Begin(s))

\* The empty text.
LEMMA ParsedNil == Parsed(<<>>)
  <1>1. <<>> \in Seq(Chars) /\ "x" \in Chars
    BY DEF Chars
  <1>2. compute_spans(<<>>) = <<>> /\ Begin(<<>>) = 1
    BY <1>1, SpanMachine
  <1>3. Len(<<>>) = 0
    OBVIOUS
  <1>4. Dots(<<>>) = 0
    BY <1>3, KeptNil, Zenon DEF Dots
  <1>5. SubSeq(<<>>, 1, 0) = <<>>
    BY SubSeqEmpty
  <1>6. Rest(<<>>, <<>>, 1)
    <2>1. 1 - 1 = 0
      OBVIOUS
    <2>2. Len(compute_spans(SubSeq(<<>>, 1, 1 - 1))) = Len(<<>>)
      BY <1>2, <1>5, <2>1, Zenon
    <2>3. \A i \in 1..Len(<<>>) : FALSE
      BY <1>3
    <2>4. QED BY <2>2, <2>3 DEF Rest
  <1>7. \A k \in 1..Len(compute_spans(<<>>)) : FALSE
    BY <1>2, <1>3
  <1>8. Len(compute_spans(<<>>)) = Dots(<<>>)
    BY <1>2, <1>3, <1>4, Zenon
  <1>9. Rest(<<>>, compute_spans(<<>>), Begin(<<>>))
    BY <1>2, <1>6, Zenon
  <1>10. QED BY <1>7, <1>8, <1>9, Zenon DEF Parsed

\* A delimiter completes a sentence.
LEMMA ParsedDelimiter ==
  ASSUME NEW s \in Seq(Chars), Parsed(s)
  PROVE  Parsed(Append(s, "."))
  <1> DEFINE x == "."
             n == Len(s)
             t == Append(s, x)
             F == compute_spans(s)
             G == compute_spans(t)
             b == Begin(s)
             c == Begin(t)
             m == Len(F)
             p == Span(b, n + 1)
  <1>0. x \in Chars /\ x \notin White
    BY DEF Chars, White
  <1>1. F \in Seq(SpanRec) /\ b \in 1..(n + 1) /\ (F = <<>> => b = 1)
    BY <1>0, SpanMachine
  <1>2. G = Append(F, p) /\ c = n + 2
    BY <1>0, SpanMachine
  <1>3. n \in Nat /\ m \in Nat
    BY <1>1, LenProperties
  <1>4. t \in Seq(Chars) /\ Len(t) = n + 1 /\ t[n + 1] = x /\ \A i \in 1..n : t[i] = s[i]
    BY <1>0, AppendProperties
  <1>5. p \in SpanRec /\ p.start = b /\ EndOf(p) = n + 1
    <2> HIDE DEF b, n
    <2>1. p = [start |-> b, length |-> (n + 1) - b + 1]
      BY DEF Span
    <2>2. b \in Nat
      BY <1>1, <1>3
    <2> HIDE DEF p
    <2>3. QED BY <1>3, <2>1, <2>2 DEF SpanRec, EndOf
  <1>6. Len(G) = m + 1 /\ G[m + 1] = p /\ \A i \in 1..m : G[i] = F[i]
    <2> HIDE DEF F, p
    <2>1. QED BY <1>1, <1>2, <1>5, AppendProperties
  <1>r. Rest(s, F, b)
    BY DEF Parsed
  <1>x. x = "."
    OBVIOUS
  <1>7. \A k \in 1..m : Sentence(t, G, k)
    <2>1. ASSUME NEW k \in 1..m PROVE Sentence(t, G, k)
      <3>1. Sentence(s, F, k)
        BY DEF Parsed
      <3> HIDE DEF F, G, x
      <3>2. \A i \in 1..Len(F) : G[i] = F[i]
        BY <1>6
      <3>3. QED BY <1>0, <1>1, <3>1, <3>2, SentenceKept
    <2>2. QED BY <2>1
  <1>8. Len(compute_spans(SubSeq(t, 1, b - 1))) = m
    <2>1. SubSeq(t, 1, b - 1) = SubSeq(s, 1, b - 1)
      <3> DEFINE d == b - 1
      <3>1. d \in 0..Len(s) /\ 1 \in 1..(Len(s) + 1)
        BY <1>1, <1>3
      <3> HIDE DEF d, x
      <3>2. SubSeq(t, 1, d) = SubSeq(s, 1, d)
        BY <1>0, <3>1, SubSeqAppend
      <3>3. QED BY <3>2 DEF d
    <2>2. QED BY <1>r, <2>1 DEF Rest
  <1>9. SubSeq(t, 1, n + 1) = t
    BY <1>4, SubSeqFull
  <1> HIDE DEF x, t, F, G, b, c, p
  <1>10. \A i \in b..(n + 1) : t[i] = "." <=> i = n + 1
    <2>1. ASSUME NEW i \in b..(n + 1) PROVE t[i] = "." <=> i = n + 1
      <3>1. CASE i = n + 1
        BY <1>4, <1>x, <3>1
      <3>2. CASE i # n + 1
        <4>1. i \in b..n /\ i \in 1..n
          BY <1>1, <1>3, <3>2
        <4>2. s[i] # "."
          BY <1>r, <4>1 DEF Rest
        <4>3. t[i] = s[i]
          BY <1>4, <4>1
        <4>4. QED BY <3>2, <4>2, <4>3
      <3>3. QED BY <3>1, <3>2
    <2>2. QED BY <2>1
  <1>11. ASSUME m + 1 # 1
         PROVE  /\ t[b] \notin White /\ EndOf(F[m]) \in 0..(b - 1)
                /\ \A i \in (EndOf(F[m]) + 1)..(b - 1) : t[i] \in White
    <2>1. F # <<>>
      BY <1>1, <1>3, <1>11, EmptySeq DEF m
    <2>2. /\ b = n + 1 \/ s[b] \notin White
          /\ EndOf(F[m]) \in 0..(b - 1)
          /\ \A i \in (EndOf(F[m]) + 1)..(b - 1) : s[i] \in White
      BY <1>r, <2>1 DEF Rest
    <2>3. t[b] \notin White
      <3>1. CASE b = n + 1
        BY <1>0, <1>4, <3>1
      <3>2. CASE b # n + 1
        <4>1. b \in 1..n
          BY <1>1, <1>3, <3>2
        <4>2. QED BY <1>4, <2>2, <3>2, <4>1
      <3>3. QED BY <3>1, <3>2
    <2>4. ASSUME NEW i \in (EndOf(F[m]) + 1)..(b - 1) PROVE t[i] \in White
      <3>1. i \in 1..n
        <4>1. EndOf(F[m]) \in Nat
          BY <2>2
        <4>2. QED BY <1>1, <1>3, <4>1
      <3>2. QED BY <1>4, <2>2, <3>1
    <2>5. QED BY <2>2, <2>3, <2>4
  <1>12. m + 1 = 1 => b = 1
    <2>1. SUFFICES ASSUME m + 1 = 1 PROVE b = 1
      OBVIOUS
    <2>2. m = 0
      BY <1>3, <2>1
    <2>3. F = <<>>
      BY <1>1, <2>2, EmptySeq DEF m
    <2>4. QED BY <1>1, <2>3
  <1> HIDE DEF m, n
  <1>13. Sentence(t, G, m + 1)
    <2>1. G[m + 1].start = b /\ EndOf(G[m + 1]) = n + 1
      BY <1>5, <1>6
    <2>2. b \in 1..Len(t) /\ n + 1 \in b..Len(t)
      BY <1>1, <1>3, <1>4
    <2>3. (m + 1) - 1 = m
      BY <1>3
    <2>4. Len(compute_spans(SubSeq(t, 1, n + 1))) = m + 1
      BY <1>6, <1>9 DEF G
    <2>5. m + 1 # 1 => EndOf(G[(m + 1) - 1]) = EndOf(F[m])
      <3>1. m + 1 # 1 => m \in 1..m
        BY <1>3
      <3>2. QED BY <1>6, <2>3, <3>1
    <2> DEFINE k == m + 1
    <2>6. Len(compute_spans(SubSeq(t, 1, b - 1))) = k - 1
      BY <1>8, <2>3
    <2>7. k # 1 => /\ t[b] \notin White /\ EndOf(G[k - 1]) \in 0..(b - 1)
                   /\ \A i \in (EndOf(G[k - 1]) + 1)..(b - 1) : t[i] \in White
      BY <1>11, <2>5
    <2>8. G[k].start = b /\ EndOf(G[k]) = n + 1 /\ (k = 1 => b = 1)
          /\ Len(compute_spans(SubSeq(t, 1, n + 1))) = k
      BY <1>12, <2>1, <2>4
    <2> HIDE DEF k
    <2>9. Sentence(t, G, k)
      BY <1>10, <2>2, <2>6, <2>7, <2>8 DEF Sentence
    <2>10. QED BY <2>9 DEF k
  <1>14. \A k \in 1..Len(G) : Sentence(t, G, k)
    <2>1. \A k \in 1..Len(G) : k \in 1..m \/ k = m + 1
      BY <1>3, <1>6
    <2>2. QED BY <1>7, <1>13, <2>1
  <1>15. Rest(t, G, c)
    <2>1. \A i \in c..Len(t) : FALSE
      BY <1>2, <1>3, <1>4
    <2>2. c = Len(t) + 1
      BY <1>2, <1>3, <1>4
    <2>3. EndOf(G[Len(G)]) = n + 1
      BY <1>5, <1>6
    <2>4. n + 1 \in 0..(c - 1) /\ c - 1 = n + 1 /\ \A i \in ((n + 1) + 1)..(c - 1) : FALSE
      BY <1>2, <1>3
    <2>5. Len(compute_spans(SubSeq(t, 1, c - 1))) = Len(G)
      BY <1>9, <2>4 DEF G
    <2>6. QED BY <2>1, <2>2, <2>3, <2>4, <2>5 DEF Rest
  <1>16. Len(G) = Dots(t)
    <2> DEFINE D == {"."}
    <2>1. x \in D
      BY DEF x
    <2>2. Kept(s, D) \in Seq(Chars)
      BY KeptProperties
    <2>3. Kept(t, D) = Append(Kept(s, D), x)
      <3> HIDE DEF D
      <3>1. QED BY <1>0, <2>1, KeptAppend DEF t
    <2>4. Len(Append(Kept(s, D), x)) = Len(Kept(s, D)) + 1
      <3> HIDE DEF D
      <3>1. QED BY <1>0, <2>2, AppendProperties
    <2>5. Dots(t) = Dots(s) + 1
      BY <2>3, <2>4 DEF Dots
    <2>6. m = Dots(s)
      BY DEF Parsed, F, m
    <2>7. QED BY <1>6, <2>5, <2>6
  <1>17. Parsed(t)
    BY <1>14, <1>15, <1>16 DEF Parsed, G, c
  <1>18. QED BY <1>17 DEF t, x

\* Any other character belongs to the incomplete text, or is skipped.
LEMMA ParsedOther ==
  ASSUME NEW s \in Seq(Chars), Parsed(s), NEW x \in Chars, x # "."
  PROVE  Parsed(Append(s, x))
  <1> DEFINE n == Len(s)
             t == Append(s, x)
             F == compute_spans(s)
             b == Begin(s)
             c == Begin(t)
             m == Len(F)
             skip == b = n + 1 /\ x \in White /\ F # <<>>
  <1>1. F \in Seq(SpanRec) /\ b \in 1..(n + 1)
    BY SpanMachine
  <1>2. compute_spans(t) = F /\ (skip => c = n + 2) /\ (~ skip => c = b)
    BY SpanMachine
  <1>3. n \in Nat /\ m \in Nat
    BY <1>1, LenProperties
  <1>4. t \in Seq(Chars) /\ Len(t) = n + 1 /\ t[n + 1] = x /\ \A i \in 1..n : t[i] = s[i]
    BY AppendProperties
  <1>r. Rest(s, F, b)
    BY DEF Parsed
  <1>5. \A k \in 1..m : Sentence(t, F, k)
    <2>1. ASSUME NEW k \in 1..m PROVE Sentence(t, F, k)
      <3>1. Sentence(s, F, k)
        BY DEF Parsed
      <3> HIDE DEF F
      <3>2. \A i \in 1..Len(F) : F[i] = F[i]
        OBVIOUS
      <3>3. QED BY <1>1, <3>1, <3>2, SentenceKept
    <2>2. QED BY <2>1
  <1>8. Len(compute_spans(SubSeq(t, 1, b - 1))) = m
    <2>1. SubSeq(t, 1, b - 1) = SubSeq(s, 1, b - 1)
      <3> DEFINE d == b - 1
      <3>1. d \in 0..Len(s) /\ 1 \in 1..(Len(s) + 1)
        BY <1>1, <1>3
      <3> HIDE DEF d
      <3>2. SubSeq(t, 1, d) = SubSeq(s, 1, d)
        BY <3>1, SubSeqAppend
      <3>3. QED BY <3>2 DEF d
    <2>2. QED BY <1>r, <2>1 DEF Rest
  <1>9. SubSeq(t, 1, n + 1) = t
    BY <1>4, SubSeqFull
  <1>10. Dots(t) = Dots(s)
    <2> DEFINE D == {"."}
    <2>1. x \notin D
      OBVIOUS
    <2>2. Kept(t, D) = Kept(s, D)
      <3> HIDE DEF D
      <3>1. QED BY <2>1, KeptAppend
    <2>3. QED BY <2>2 DEF Dots
  <1> HIDE DEF t, F, b, c, skip
  <1>11. \A i \in b..(n + 1) : t[i] # "."
    <2>1. ASSUME NEW i \in b..(n + 1) PROVE t[i] # "."
      <3>1. CASE i = n + 1
        BY <1>4, <3>1
      <3>2. CASE i # n + 1
        <4>1. i \in b..n /\ i \in 1..n
          BY <1>1, <1>3, <3>2
        <4>2. s[i] # "."
          BY <1>r, <4>1 DEF Rest
        <4>3. t[i] = s[i]
          BY <1>4, <4>1
        <4>4. QED BY <4>2, <4>3
      <3>3. QED BY <3>1, <3>2
    <2>2. QED BY <2>1
  <1>12. ASSUME F # <<>>
         PROVE  /\ b = n + 1 \/ t[b] \notin White
                /\ EndOf(F[m]) \in 0..(b - 1)
                /\ \A i \in (EndOf(F[m]) + 1)..(b - 1) : t[i] \in White
    <2>2. /\ b = n + 1 \/ s[b] \notin White
          /\ EndOf(F[m]) \in 0..(b - 1)
          /\ \A i \in (EndOf(F[m]) + 1)..(b - 1) : s[i] \in White
      BY <1>r, <1>12 DEF Rest
    <2>3. b = n + 1 \/ t[b] \notin White
      <3>2. CASE b # n + 1
        <4>1. b \in 1..n
          BY <1>1, <1>3, <3>2
        <4>2. QED BY <1>4, <2>2, <3>2, <4>1
      <3>3. QED BY <3>2
    <2>4. ASSUME NEW i \in (EndOf(F[m]) + 1)..(b - 1) PROVE t[i] \in White
      <3>1. i \in 1..n
        <4>1. EndOf(F[m]) \in Nat
          BY <2>2
        <4>2. QED BY <1>1, <1>3, <4>1
      <3>2. QED BY <1>4, <2>2, <3>1
    <2>5. QED BY <2>2, <2>3, <2>4
  <1>13. ASSUME skip PROVE Rest(t, compute_spans(t), Begin(t))
    <2>1. b = n + 1 /\ x \in White /\ F # <<>> /\ c = n + 2
      BY <1>2, <1>13 DEF skip
    <2>2. c = Len(t) + 1 /\ c - 1 = n + 1 /\ b - 1 = n /\ \A i \in c..Len(t) : FALSE
      BY <1>3, <1>4, <2>1
    <2>3. EndOf(F[m]) \in 0..(c - 1)
      BY <1>3, <1>12, <2>1, <2>2
    <2>4. ASSUME NEW i \in (EndOf(F[m]) + 1)..(c - 1) PROVE t[i] \in White
      <3>1. EndOf(F[m]) \in Nat
        BY <1>12, <2>1
      <3>2. i \in (EndOf(F[m]) + 1)..(b - 1) \/ i = n + 1
        BY <1>3, <2>2, <3>1
      <3>3. QED BY <1>4, <1>12, <2>1, <3>2
    <2>5. Len(compute_spans(SubSeq(t, 1, c - 1))) = m
      BY <1>2, <1>9, <2>2
    <2>6. Rest(t, F, c)
      BY <2>2, <2>3, <2>4, <2>5 DEF Rest
    <2>7. QED BY <1>2, <2>6 DEF c
  <1>14. ASSUME ~ skip PROVE Rest(t, compute_spans(t), Begin(t))
    <2>1. c = b
      BY <1>2, <1>14
    <2>2. F # <<>> => t[b] \notin White
      <3>1. SUFFICES ASSUME F # <<>> PROVE t[b] \notin White
        OBVIOUS
      <3>2. CASE b = n + 1
        BY <1>4, <1>14, <3>1, <3>2 DEF skip
      <3>3. CASE b # n + 1
        BY <1>12, <3>1, <3>3
      <3>4. QED BY <3>2, <3>3
    <2>3. Rest(t, F, b)
      BY <1>4, <1>8, <1>11, <1>12, <2>2 DEF Rest
    <2>4. QED BY <1>2, <2>1, <2>3 DEF c
  <1>15. Len(compute_spans(t)) = Dots(t)
    BY <1>2, <1>10 DEF Parsed, F
  <1>16. \A k \in 1..Len(compute_spans(t)) : Sentence(t, compute_spans(t), k)
    BY <1>2, <1>5
  <1>17. Parsed(t)
    BY <1>13, <1>14, <1>15, <1>16 DEF Parsed
  <1>18. QED BY <1>17 DEF t

\* Every text is parsed into its sentences.
LEMMA AllParsed ==
  ASSUME NEW s \in Seq(Chars)
  PROVE  Parsed(s)
  <1> DEFINE T == {r \in Seq(Chars) : Parsed(r)}
  <1>1. <<>> \in T
    BY ParsedNil
  <1>2. ASSUME NEW r \in Seq(Chars), NEW x \in Chars, r \in T PROVE Append(r, x) \in T
    <2>1. Append(r, x) \in Seq(Chars) /\ Parsed(r)
      BY <1>2, AppendProperties
    <2>2. Parsed(Append(r, x))
      <3>1. CASE x = "."
        BY <2>1, <3>1, ParsedDelimiter
      <3>2. CASE x # "."
        BY <2>1, <3>2, ParsedOther
      <3>3. QED BY <3>1, <3>2
    <2>3. QED BY <2>1, <2>2
  <1>3. QED
    <2> HIDE DEF T
    <2>1. Seq(Chars) \subseteq T
      BY <1>1, <1>2, SeqInduction
    <2>2. QED BY <2>1 DEF T

\* A text is what is in front of a part of it, the part, and the rest.
LEMMA SplitThree ==
  ASSUME NEW S, NEW s \in Seq(S), NEW a \in 1..(Len(s) + 1), NEW e \in (a - 1)..Len(s)
  PROVE  /\ SubSeq(s, 1, a - 1) \in Seq(S)
         /\ SubSeq(s, e + 1, Len(s)) \in Seq(S)
         /\ SubSeq(s, 1, a - 1) \o SubSeq(s, a, e) = SubSeq(s, 1, e)
         /\ s = SubSeq(s, 1, e) \o SubSeq(s, e + 1, Len(s))
         /\ SubSeq(s, 1, e) \in Seq(S)
  <1> DEFINE n == Len(s)
             d == a - 1
             b == e + 1
  <1>1. n \in Nat /\ a \in Nat /\ e \in Nat /\ d \in Nat /\ b \in Nat
    BY LenProperties
  <1>2. /\ 1 \in 1..(n + 1) /\ d \in (1 - 1)..n /\ e \in d..n /\ d + 1 = a
        /\ e \in (1 - 1)..n /\ n \in e..n /\ b \in 1..(n + 1) /\ n \in (b - 1)..n
    BY <1>1
  <1> HIDE DEF d, b
  <1>3. SubSeq(s, 1, d) \in Seq(S) /\ SubSeq(s, b, n) \in Seq(S) /\ SubSeq(s, 1, e) \in Seq(S)
    BY <1>2, SubSeqAt
  <1>4. SubSeq(s, 1, d) \o SubSeq(s, d + 1, e) = SubSeq(s, 1, e)
    BY <1>2, ConcatAdjacentSubSeq
  <1>5. SubSeq(s, 1, e) \o SubSeq(s, e + 1, n) = SubSeq(s, 1, n)
    BY <1>2, ConcatAdjacentSubSeq
  <1>6. SubSeq(s, 1, n) = s
    BY SubSeqFull
  <1>7. QED BY <1>2, <1>3, <1>4, <1>5, <1>6 DEF d, b

\* Where the spans of a text lie.
LEMMA SpanAt ==
  ASSUME NEW s \in Seq(Chars), NEW k \in 1..Len(compute_spans(s))
  PROVE  LET spans == compute_spans(s)
             a == spans[k].start
             e == EndOf(spans[k])
         IN  /\ Sentence(s, spans, k)
             /\ a \in 1..Len(s) /\ e \in a..Len(s)
             /\ a \in Nat /\ e \in Nat /\ spans[k].length \in Int
             /\ spans[k].start + spans[k].length = e + 1
             /\ SpanText(s, spans[k]) = SubSeq(s, a, e)
  <1> DEFINE spans == compute_spans(s)
             a == spans[k].start
             e == EndOf(spans[k])
  <1>1. Parsed(s)
    BY AllParsed
  <1>2. Sentence(s, spans, k)
    BY <1>1 DEF Parsed
  <1>3. "x" \in Chars
    BY DEF Chars
  <1>4. spans \in Seq(SpanRec)
    BY <1>3, SpanMachine
  <1>5. spans[k] \in SpanRec
    BY <1>4, ElementOfSeq
  <1>6. spans[k].start \in Nat /\ spans[k].length \in Int
    BY <1>5 DEF SpanRec
  <1>7. a \in 1..Len(s) /\ e \in a..Len(s)
    BY <1>2 DEF Sentence
  <1>8. spans[k].start + spans[k].length = e + 1 /\ e \in Nat
    BY <1>6, <1>7 DEF EndOf
  <1>9. SpanText(s, spans[k]) = SubSeq(s, a, e)
    BY DEF SpanText, EndOf
  <1>10. QED BY <1>2, <1>6, <1>7, <1>8, <1>9

\* compute_spans cuts any text into its sentences.
LEMMA TextIsParsed ==
  ASSUME content \in Seq(Chars)
  PROVE  SpansAreSentences
  <1> DEFINE spans == compute_spans(content)
             n == Len(spans)
             From(k) == IF k = 0 THEN 1 ELSE spans[k].start + spans[k].length
             Good(k) == LET s == SpanText(content, spans[k])
                        IN  /\ \A i \in DOMAIN s : s[i] = "." <=> i = Len(s)
                            /\ k > 1 => s[1] \notin {" ", "cr"}
                            /\ \A i \in From(k - 1)..(spans[k].start - 1) : content[i] \in {" ", "cr"}
  <1>1. Parsed(content)
    BY AllParsed
  <1>2. n = Len(Kept(content, {"."}))
    BY <1>1 DEF Parsed, Dots
  <1>3. ASSUME NEW k \in 1..n PROVE Good(k)
    <2> DEFINE a == spans[k].start
               e == EndOf(spans[k])
               s == SpanText(content, spans[k])
    <2>1. /\ Sentence(content, spans, k)
          /\ a \in 1..Len(content) /\ e \in a..Len(content)
          /\ a \in Nat /\ e \in Nat
          /\ s = SubSeq(content, a, e)
      BY SpanAt
    <2>2. Len(content) \in Nat /\ n \in Nat
      <3>1. "x" \in Chars
        BY DEF Chars
      <3>2. spans \in Seq(SpanRec)
        BY <3>1, SpanMachine
      <3>3. QED BY <3>2, LenProperties
    <2>3. a \in 1..(Len(content) + 1) /\ e \in (a - 1)..Len(content)
      BY <2>1, <2>2
    <2>4. \A i \in a..e : content[i] = "." <=> i = e
      BY <2>1 DEF Sentence
    <2>5. /\ k = 1 => a = 1
          /\ k # 1 => /\ content[a] \notin White
                      /\ \A i \in (EndOf(spans[k - 1]) + 1)..(a - 1) : content[i] \in White
      BY <2>1 DEF Sentence
    <2>6. k # 1 => From(k - 1) = EndOf(spans[k - 1]) + 1
      <3>1. SUFFICES ASSUME k # 1 PROVE From(k - 1) = EndOf(spans[k - 1]) + 1
        OBVIOUS
      <3> DEFINE j == k - 1
      <3>2. j \in 1..Len(compute_spans(content)) /\ j # 0
        BY <2>2, <3>1
      <3> HIDE DEF j
      <3>3. spans[j].start + spans[j].length = EndOf(spans[j]) + 1
        BY <3>2, SpanAt
      <3>4. From(j) = EndOf(spans[j]) + 1
        BY <3>2, <3>3
      <3>5. QED BY <3>4 DEF j
    <2>7. k = 1 => From(k - 1) = 1
      OBVIOUS
    <2> HIDE DEF a, e, s, From
    <2>8. /\ s \in Seq(Chars) /\ Len(s) = e - a + 1
          /\ \A i \in 1..(e - a + 1) : s[i] = content[a + i - 1]
      BY <2>1, <2>3, SubSeqAt
    <2>9. DOMAIN s = 1..(e - a + 1)
      BY <2>8, LenProperties
    <2>10. \A i \in DOMAIN s : s[i] = "." <=> i = Len(s)
      <3>1. ASSUME NEW i \in 1..(e - a + 1) PROVE s[i] = "." <=> i = Len(s)
        <4> DEFINE j == a + i - 1
        <4>1. j \in a..e /\ (j = e <=> i = e - a + 1)
          BY <2>1
        <4>2. s[i] = content[j]
          BY <2>8
        <4> HIDE DEF j
        <4>3. QED BY <2>4, <2>8, <4>1, <4>2
      <3>2. QED BY <2>9, <3>1
    <2>11. k > 1 => s[1] \notin White
      <3>1. SUFFICES ASSUME k > 1 PROVE s[1] \notin White
        OBVIOUS
      <3>2. k # 1 /\ 1 \in 1..(e - a + 1) /\ a + 1 - 1 = a
        BY <2>1, <2>2, <3>1
      <3>3. s[1] = content[a + 1 - 1]
        BY <2>8, <3>2
      <3>4. QED BY <2>5, <3>2, <3>3
    <2>12. \A i \in From(k - 1)..(a - 1) : content[i] \in White
      <3>1. CASE k = 1
        BY <2>5, <2>7, <3>1
      <3>2. CASE k # 1
        BY <2>5, <2>6, <3>2
      <3>3. QED BY <3>1, <3>2
    <2>13. QED BY <2>10, <2>11, <2>12 DEF s, a, From, White
  <1> HIDE DEF Good
  <1>4. \A k \in 1..n : Good(k)
    BY <1>3
  <1>5. QED BY <1>2, <1>4 DEF SpansAreSentences, Good

-----------------------------------------------------------------------------
(* The span of a session.                                                  *)

\* What the span of sentence i is in the text s: the part from a to e.
SpanIs(s, i, a, e) ==
    /\ a \in 1..(Len(s) + 1) /\ e \in (a - 1)..Len(s)
    /\ SpanOf(s, i).start = a /\ SpanOf(s, i).length = e - a + 1
    /\ i < Len(compute_spans(s)) =>
         /\ SpanOf(s, i) = compute_spans(s)[i + 1]
         /\ e >= a /\ s[e] = "." /\ Len(compute_spans(SubSeq(s, 1, e))) = i + 1
    /\ i = Len(compute_spans(s)) => a = Begin(s) /\ e = Len(s)
    /\ Len(compute_spans(s)) > 0 => Len(compute_spans(SubSeq(s, 1, a - 1))) = i

\* The incomplete text begins where the search for it that knows only blanks ends.
LEMMA TailIsBegin ==
  ASSUME NEW s \in Seq(Plain), compute_spans(s) # <<>>
  PROVE  LET spans == compute_spans(s)
             n == Len(spans)
         IN  Skip(s, spans[n].start + spans[n].length, {" "}) = Begin(s)
  <1> DEFINE spans == compute_spans(s)
             n == Len(spans)
             e == EndOf(spans[n])
             b == Begin(s)
             one == {" "}
  <1>0. s \in Seq(Chars) /\ "x" \in Chars /\ \A x \in Plain : x \in one <=> x \in White
    BY PlainChars, SeqMonotonic DEF Chars
  <1>1. Parsed(s)
    BY <1>0, AllParsed
  <1>2. Rest(s, spans, b)
    BY <1>1 DEF Parsed
  <1>3. spans \in Seq(SpanRec) /\ b \in 1..(Len(s) + 1)
    BY <1>0, SpanMachine
  <1>4. n \in Nat /\ n # 0 /\ Len(s) \in Nat
    BY <1>3, EmptySeq, LenProperties
  <1>5. n \in 1..Len(compute_spans(s))
    BY <1>4
  <1>6. e \in Nat /\ e <= Len(s) /\ spans[n].start + spans[n].length = e + 1
    <2>1. e \in Nat /\ spans[n].start + spans[n].length = e + 1 /\ e \in spans[n].start..Len(s)
      BY <1>0, <1>5, SpanAt
    <2>2. QED BY <1>4, <2>1
  <1>7. /\ b = Len(s) + 1 \/ s[b] \notin White
        /\ e \in 0..(b - 1)
        /\ \A i \in (e + 1)..(b - 1) : s[i] \in White
    BY <1>2 DEF Rest
  <1>8. \A i \in 1..Len(s) : s[i] \in one <=> s[i] \in White
    BY <1>0, ElementOfSeq
  <1> DEFINE c == e + 1
  <1> HIDE DEF b, e, one, spans, n
  <1>9. Skipped(s, c, one, b)
    <2>1. b \in c..(Len(s) + 1)
      BY <1>3, <1>4, <1>6, <1>7
    <2>2. b > Len(s) \/ s[b] \notin one
      <3>1. CASE b = Len(s) + 1
        BY <1>4, <3>1
      <3>2. CASE b # Len(s) + 1
        <4>1. b \in 1..Len(s)
          BY <1>3, <1>4, <3>2
        <4>2. QED BY <1>7, <1>8, <3>2, <4>1
      <3>3. QED BY <3>1, <3>2
    <2>3. \A k \in c..(b - 1) : s[k] \in one
      <3>1. \A k \in c..(b - 1) : k \in 1..Len(s)
        BY <1>3, <1>4, <1>6
      <3>2. QED BY <1>7, <1>8, <3>1
    <2>4. QED BY <2>1, <2>2, <2>3 DEF Skipped
  <1>10. c \in 1..(Len(s) + 1)
    BY <1>4, <1>6
  <1> HIDE DEF c
  <1>11. Skip(s, c, one) = b
    BY <1>9, <1>10, SkipUnique
  <1>12. spans[n].start + spans[n].length = c
    BY <1>6 DEF c
  <1>13. QED BY <1>11, <1>12 DEF b, one, n, spans

\* The three cases of SpanOf.
LEMMA SpanOfText ==
  ASSUME NEW s \in Seq(Plain), NEW i \in 0..Len(compute_spans(s))
  PROVE  \E a, e : SpanIs(s, i, a, e)
  <1> DEFINE spans == compute_spans(s)
             n == Len(spans)
             b == Begin(s)
             l == Len(s)
  <1>0. s \in Seq(Chars) /\ "x" \in Chars
    BY PlainChars, SeqMonotonic DEF Chars
  <1>1. Parsed(s)
    BY <1>0, AllParsed
  <1>2. spans \in Seq(SpanRec) /\ b \in 1..(l + 1) /\ (spans = <<>> => b = 1)
    BY <1>0, SpanMachine
  <1>3. n \in Nat /\ l \in Nat /\ i \in Nat /\ i <= n
    BY <1>2, LenProperties
  <1>4. CASE n = 0
    <2>1. spans = <<>> /\ b = 1
      BY <1>2, <1>4, EmptySeq
    <2>2. SpanOf(s, i) = [start |-> 1, length |-> l]
      BY <1>4 DEF SpanOf
    <2>3. i = n /\ ~ (i < n) /\ ~ (n > 0) /\ 1 \in 1..(l + 1) /\ l \in (1 - 1)..l /\ l = l - 1 + 1
      BY <1>3, <1>4
    <2>4. SpanOf(s, i).start = 1 /\ SpanOf(s, i).length = l
      BY <2>2
    <2>5. SpanIs(s, i, 1, l)
      BY <2>1, <2>3, <2>4 DEF SpanIs
    <2>6. QED BY <2>5
  <1>5. CASE n # 0 /\ i = n
    <2>1. spans # <<>>
      BY <1>5, EmptySeq
    <2>2. Skip(s, spans[n].start + spans[n].length, {" "}) = b
      BY <2>1, TailIsBegin
    <2>3. SpanOf(s, i) = [start |-> b, length |-> l - b + 1]
      BY <1>5, <2>2 DEF SpanOf
    <2>4. SpanOf(s, i).start = b /\ SpanOf(s, i).length = l - b + 1
      BY <2>3
    <2>5. ~ (i < n) /\ l \in (b - 1)..l
      BY <1>2, <1>3, <1>5
    <2>6. Len(compute_spans(SubSeq(s, 1, b - 1))) = i
      BY <1>1, <1>5 DEF Parsed, Rest
    <2>7. SpanIs(s, i, b, l)
      BY <1>2, <1>5, <2>4, <2>5, <2>6 DEF SpanIs
    <2>8. QED BY <2>7
  <1>6. CASE n # 0 /\ i # n
    <2> DEFINE k == i + 1
               a == spans[k].start
               e == EndOf(spans[k])
    <2>1. k \in 1..Len(compute_spans(s)) /\ i < n /\ k - 1 = i
      BY <1>3, <1>6
    <2>2. SpanOf(s, i) = spans[k]
      BY <1>6 DEF SpanOf
    <2> HIDE DEF k
    <2>3. /\ Sentence(s, spans, k) /\ a \in 1..l /\ e \in a..l
          /\ a \in Nat /\ e \in Nat /\ spans[k].length \in Int
          /\ spans[k].start + spans[k].length = e + 1
      BY <1>0, <2>1, SpanAt
    <2>4. /\ \A j \in a..e : s[j] = "." <=> j = e
          /\ Len(compute_spans(SubSeq(s, 1, a - 1))) = k - 1
          /\ Len(compute_spans(SubSeq(s, 1, e))) = k
      BY <2>3 DEF Sentence
    <2>5. spans[k].length = e - a + 1
      BY <2>3
    <2> HIDE DEF e
    <2>6. e \in a..e /\ e >= a /\ a \in 1..(l + 1) /\ e \in (a - 1)..l
      BY <1>3, <2>3
    <2>7. s[e] = "."
      BY <2>4, <2>6
    <2>8. SpanOf(s, i).start = a /\ SpanOf(s, i).length = e - a + 1
      BY <2>2, <2>5
    <2>9. SpanIs(s, i, a, e)
      BY <1>6, <2>1, <2>2, <2>4, <2>6, <2>7, <2>8 DEF SpanIs, k
    <2>10. QED BY <2>9
  <1>7. QED BY <1>4, <1>5, <1>6

\* What the engine tokenizes is what handle_write_request counts words in.
LEMMA SpanTextIs ==
  ASSUME NEW s \in Seq(Plain), NEW i \in 0..Len(compute_spans(s)),
         NEW a, NEW e, SpanIs(s, i, a, e)
  PROVE  /\ SpanText(s, SpanOf(s, i)) = SubSeq(s, a, e)
         /\ SubSeq(s, a, e) \in Seq(Plain)
         /\ AckedWords(s, i) = CountWords(Cut(SubSeq(s, a, e), SentenceSize))
  <1> DEFINE text == SubSeq(s, a, e)
             spans == compute_spans(s)
  <1>0. Len(s) \in Nat /\ i \in Nat /\ s \in Seq(Chars) /\ "x" \in Chars
    <2>1. Len(s) \in Nat /\ i \in Nat
      BY LenProperties
    <2>2. s \in Seq(Chars)
      BY PlainChars, SeqMonotonic
    <2>3. QED BY <2>1, <2>2 DEF Chars
  <1>1. a \in 1..(Len(s) + 1) /\ e \in (a - 1)..Len(s)
    BY DEF SpanIs
  <1>2. a + (e - a + 1) - 1 = e
    BY <1>0, <1>1
  <1>3. SpanText(s, SpanOf(s, i)) = text
    BY <1>2 DEF SpanIs, SpanText
  <1>4. text \in Seq(Plain)
    BY <1>1, SubSeqAt
  <1>5. Spans(s, {" "}).found = spans /\ Spans(s, {" "}).start = Begin(s)
    BY PlainSpans DEF compute_spans, Begin, White
  <1>6. Len(spans) \in Nat
    BY <1>0, SpanMachine, LenProperties
  <1>7. CASE i < Len(spans)
    <2>1. SpanText(s, spans[i + 1]) = text
      BY <1>3, <1>7 DEF SpanIs
    <2>2. AckedWords(s, i) = CountWords(Cut(text, SentenceSize))
      BY <1>5, <1>7, <2>1 DEF AckedWords
    <2>3. QED BY <1>3, <1>4, <2>2
  <1>8. CASE ~ (i < Len(spans))
    <2>1. i = Len(spans)
      BY <1>0, <1>6, <1>8
    <2>2. SubSeq(s, Begin(s), Len(s)) = text
      BY <2>1 DEF SpanIs
    <2>3. AckedWords(s, i) = CountWords(Cut(text, SentenceSize))
      BY <1>5, <1>8, <2>2 DEF AckedWords
    <2>4. QED BY <1>3, <1>4, <2>3
  <1>9. QED BY <1>7, <1>8

\* The count that goes out with the lock, against the words of the engine.
LEMMA AckCounts ==
  ASSUME NEW s \in Seq(Plain), NEW i \in 0..Len(compute_spans(s))
  PROVE  LET text == SpanText(s, SpanOf(s, i))
             engine == Len(tokenize_words(text))
         IN  /\ AckedWords(s, i) \in Nat /\ engine \in Nat
             /\ AckedWords(s, i) <= engine
             /\ Len(text) <= SentenceSize => AckedWords(s, i) = engine
             /\ tokenize_words(text) \in Lists(Inks)
  <1>1. PICK a, e : SpanIs(s, i, a, e)
    BY SpanOfText
  <1> DEFINE text == SpanText(s, SpanOf(s, i))
             c == Cut(text, SentenceSize)
  <1>2. text = SubSeq(s, a, e) /\ text \in Seq(Plain) /\ AckedWords(s, i) = CountWords(c)
    BY <1>1, SpanTextIs
  <1> HIDE DEF text
  <1>3. SentenceSize \in Nat
    BY TextAssumption
  <1>4. c \in Seq(Plain) /\ (Len(text) <= SentenceSize => c = text)
        /\ Continues(text, c, Plain)
    <2>1. text \in Seq(Plain)
      BY <1>2
    <2>2. QED BY <1>3, <2>1, CutProperties
  <1> HIDE DEF c
  <1>5. PICK t \in Seq(Plain) : text = c \o t
    BY <1>4 DEF Continues
  <1>6. c \in Seq(Chars) /\ t \in Seq(Chars) /\ text \in Seq(Chars)
    BY <1>2, <1>4, PlainChars, SeqMonotonic
  <1>7. Len(Words(c, White)) <= Len(Words(c \o t, White))
    BY <1>6, WordsGrow
  <1>8. CountWords(c) = Len(Words(c, White))
    BY <1>4, PlainWords DEF CountWords
  <1>9. tokenize_words(text) = Words(text, White)
    BY DEF tokenize_words, White
  <1>10. Len(Words(c, White)) \in Nat /\ Len(Words(text, White)) \in Nat
    BY <1>6, WordsTyped
  <1>11. Words(text, White) \in Lists(Inks)
    BY <1>6, WordsTyped DEF Inks
  <1>12. QED BY <1>2, <1>4, <1>5, <1>7, <1>8, <1>9, <1>10, <1>11 DEF text

-----------------------------------------------------------------------------
(* The sentences of a text that grows.                                     *)

\* The incomplete text at the end.
Current(s) == SubSeq(s, Begin(s), Len(s))

\* The sentences are texts, as many as there are delimiters.
LEMMA SentencesTyped ==
  ASSUME NEW s \in Seq(Chars)
  PROVE  /\ Sentences(s) \in Seq(Seq(Chars))
         /\ Len(Sentences(s)) = Len(compute_spans(s))
         /\ Len(Sentences(s)) = Dots(s)
         /\ Len(Sentences(s)) \in Nat
         /\ \A k \in 1..Len(compute_spans(s)) :
               Sentences(s)[k] = SpanText(s, compute_spans(s)[k])
         /\ Current(s) \in Seq(Chars)
         /\ Len(Current(s)) = Len(s) - Begin(s) + 1
  <1> DEFINE F == compute_spans(s)
             n == Len(F)
             T(k) == SpanText(s, F[k])
  <1>1. "x" \in Chars
    BY DEF Chars
  <1>2. F \in Seq(SpanRec) /\ Begin(s) \in 1..(Len(s) + 1)
    BY <1>1, SpanMachine
  <1>3. n \in Nat /\ DOMAIN F = 1..n /\ Len(s) \in Nat
    BY <1>2, LenProperties
  <1>4. ASSUME NEW k \in 1..n PROVE T(k) \in Seq(Chars)
    <2> DEFINE a == F[k].start
               e == EndOf(F[k])
    <2>1. a \in 1..Len(s) /\ e \in a..Len(s) /\ T(k) = SubSeq(s, a, e)
      BY SpanAt
    <2> HIDE DEF a, e
    <2>2. a \in 1..(Len(s) + 1) /\ e \in (a - 1)..Len(s)
      BY <1>3, <2>1
    <2>3. SubSeq(s, a, e) \in Seq(Chars)
      BY <2>2, SubSeqAt
    <2>4. QED BY <2>1, <2>3
  <1>5. Sentences(s) = [k \in 1..n |-> T(k)]
    BY <1>3 DEF Sentences
  <1>6. n = Dots(s)
    BY AllParsed DEF Parsed
  <1> HIDE DEF n, T
  <1>7. [k \in 1..n |-> T(k)] \in Seq(Seq(Chars)) /\ Len([k \in 1..n |-> T(k)]) = n
    BY <1>3, <1>4
  <1>8. \A k \in 1..n : Sentences(s)[k] = T(k)
    BY <1>5
  <1>9. Current(s) \in Seq(Chars) /\ Len(Current(s)) = Len(s) - Begin(s) + 1
    <2> DEFINE b == Begin(s)
               l == Len(s)
    <2>1. b \in 1..(Len(s) + 1) /\ l \in (b - 1)..Len(s)
      BY <1>2, <1>3
    <2> HIDE DEF b, l
    <2>2. SubSeq(s, b, l) \in Seq(Chars) /\ Len(SubSeq(s, b, l)) = l - b + 1
      BY <2>1, SubSeqAt
    <2>3. QED BY <2>2 DEF Current, b, l
  <1>10. QED BY <1>3, <1>5, <1>6, <1>7, <1>8, <1>9 DEF n, T

\* What one more character makes of the sentences and of the incomplete text.
LEMMA SentencesAppend ==
  ASSUME NEW s \in Seq(Chars), NEW x \in Chars
  PROVE  LET t == Append(s, x)
         IN  /\ x = "." => /\ Sentences(t) = Append(Sentences(s), Append(Current(s), x))
                           /\ Current(t) = <<>>
             /\ x # "." => Sentences(t) = Sentences(s)
             /\ x # "." /\ Current(s) = <<>> /\ x \in White /\ Sentences(s) # <<>>
                  => Current(t) = <<>>
             /\ x # "." /\ ~ (Current(s) = <<>> /\ x \in White /\ Sentences(s) # <<>>)
                  => Current(t) = Append(Current(s), x)
  <1> DEFINE t == Append(s, x)
             n == Len(s)
             F == compute_spans(s)
             G == compute_spans(t)
             m == Len(F)
             b == Begin(s)
             R == Seq(Chars)
  <1>1. /\ Sentences(s) \in Seq(R) /\ Len(Sentences(s)) = m /\ m \in Nat
        /\ \A k \in 1..m : Sentences(s)[k] = SpanText(s, F[k])
        /\ Current(s) \in Seq(Chars) /\ Len(Current(s)) = n - b + 1
    BY SentencesTyped
  <1>2. t \in Seq(Chars) /\ Len(t) = n + 1 /\ n \in Nat
    BY AppendProperties, LenProperties
  <1>3. /\ Sentences(t) \in Seq(R) /\ Len(Sentences(t)) = Len(G)
        /\ \A k \in 1..Len(G) : Sentences(t)[k] = SpanText(t, G[k])
    <2> HIDE DEF t
    <2>1. QED BY <1>2, SentencesTyped
  <1>4. /\ F \in Seq(SpanRec) /\ b \in 1..(n + 1)
        /\ x = "." => G = Append(F, Span(b, n + 1)) /\ Begin(t) = n + 2
        /\ x # "." => G = F
        /\ x # "." /\ b = n + 1 /\ x \in White /\ F # <<>> => Begin(t) = n + 2
        /\ x # "." /\ ~ (b = n + 1 /\ x \in White /\ F # <<>>) => Begin(t) = b
    BY SpanMachine
  <1>5. Current(s) = <<>> <=> b = n + 1
    <2>1. Current(s) = <<>> <=> Len(Current(s)) = 0
      BY <1>1, EmptySeq
    <2>2. n - b + 1 = 0 <=> b = n + 1
      BY <1>2, <1>4
    <2>3. QED BY <1>1, <2>1, <2>2
  <1>6. Sentences(s) # <<>> <=> F # <<>>
    <2>1. Sentences(s) = <<>> <=> m = 0
      BY <1>1, EmptySeq
    <2>2. F = <<>> <=> m = 0
      BY <1>4, EmptySeq
    <2>3. QED BY <2>1, <2>2
  <1>7. SubSeq(t, b, n + 1) = Append(Current(s), x)
    <2> DEFINE d == b
    <2>1. d \in 1..(Len(s) + 1) /\ 0 \in 0..Len(s)
      BY <1>2, <1>4
    <2> HIDE DEF d
    <2>2. SubSeq(Append(s, x), d, Len(s) + 1) = Append(SubSeq(s, d, Len(s)), x)
      BY <2>1, SubSeqAppend
    <2>3. QED BY <2>2 DEF d, Current
  <1>8. ASSUME NEW k \in 1..m PROVE SpanText(t, F[k]) = SpanText(s, F[k])
    <2> DEFINE a == F[k].start
               e == EndOf(F[k])
    <2>1. a \in 1..n /\ e \in a..n /\ SpanText(s, F[k]) = SubSeq(s, a, e)
      BY SpanAt
    <2>2. SpanText(t, F[k]) = SubSeq(t, a, e)
      BY DEF SpanText, EndOf
    <2> HIDE DEF a, e
    <2>3. a \in 1..(Len(s) + 1) /\ e \in 0..Len(s)
      BY <1>2, <2>1
    <2>4. SubSeq(t, a, e) = SubSeq(s, a, e)
      BY <2>3, SubSeqAppend
    <2>5. QED BY <2>1, <2>2, <2>4
  <1>9. CASE x = "."
    <2> DEFINE p == Span(b, n + 1)
               c == Append(Current(s), x)
               A == Append(Sentences(s), c)
    <2>1. G = Append(F, p) /\ Begin(t) = n + 2
      BY <1>4, <1>9
    <2>2. p \in SpanRec /\ p.start = b /\ p.start + p.length - 1 = n + 1
      <3> HIDE DEF b, n
      <3>1. p = [start |-> b, length |-> (n + 1) - b + 1]
        BY DEF Span
      <3>2. b \in Nat
        BY <1>2, <1>4
      <3> HIDE DEF p
      <3>3. QED BY <1>2, <3>1, <3>2 DEF SpanRec
    <2>3. Len(G) = m + 1 /\ G[m + 1] = p /\ \A k \in 1..m : G[k] = F[k]
      <3> HIDE DEF F, p, G
      <3>1. QED BY <1>4, <2>1, <2>2, AppendProperties
    <2>4. SpanText(t, p) = c
      BY <1>7, <2>2 DEF SpanText
    <2>5. c \in R
      BY <1>1, AppendProperties
    <2>6. A \in Seq(R) /\ Len(A) = m + 1 /\ A[m + 1] = c /\ \A k \in 1..m : A[k] = Sentences(s)[k]
      <3> HIDE DEF c, R
      <3>1. QED BY <1>1, <2>5, AppendProperties
    <2> HIDE DEF A, c, p, F, G, t, R
    <2>7. \A k \in 1..(m + 1) : Sentences(t)[k] = A[k]
      <3>1. ASSUME NEW k \in 1..m PROVE Sentences(t)[k] = A[k]
        <4>1. k \in 1..Len(G)
          BY <1>1, <2>3
        <4>2. Sentences(t)[k] = SpanText(t, F[k])
          BY <1>3, <2>3, <4>1
        <4>3. QED BY <1>1, <1>8, <2>6, <4>2
      <3>2. Sentences(t)[m + 1] = A[m + 1]
        <4>1. m + 1 \in 1..Len(G)
          BY <1>1, <2>3
        <4>2. QED BY <1>3, <2>3, <2>4, <2>6, <4>1
      <3>3. \A k \in 1..(m + 1) : k \in 1..m \/ k = m + 1
        BY <1>1
      <3>4. QED BY <3>1, <3>2, <3>3
    <2>8. Sentences(t) = A
      <3>1. Len(Sentences(t)) = Len(A) /\ \A k \in 1..Len(Sentences(t)) : Sentences(t)[k] = A[k]
        BY <1>3, <2>3, <2>6, <2>7
      <3>2. QED BY <1>3, <2>6, <3>1, SeqEqual
    <2>9. Current(t) = <<>>
      <3>1. n + 1 < n + 2 /\ n + 1 \in Int /\ n + 2 \in Int
        BY <1>2
      <3>2. SubSeq(t, n + 2, n + 1) = <<>>
        BY <3>1, SubSeqEmpty
      <3>3. QED BY <1>2, <2>1, <3>2 DEF Current
    <2>10. QED BY <1>9, <2>8, <2>9 DEF A, c, t
  <1>10. CASE x # "."
    <2>1. G = F
      BY <1>4, <1>10
    <2>2. Sentences(t) = Sentences(s)
      <3> HIDE DEF t, F, G, R
      <3>1. \A k \in 1..m : Sentences(t)[k] = Sentences(s)[k]
        BY <1>1, <1>3, <1>8, <2>1
      <3>2. Len(Sentences(t)) = Len(Sentences(s)) /\ \A k \in 1..Len(Sentences(t)) : Sentences(t)[k] = Sentences(s)[k]
        BY <1>1, <1>3, <2>1, <3>1
      <3>3. QED BY <1>1, <1>3, <3>2, SeqEqual
    <2> HIDE DEF t, F, G, R, b, n
    <2>3. Current(t) = SubSeq(t, Begin(t), n + 1)
      BY <1>2 DEF Current
    <2>4. CASE b = n + 1 /\ x \in White /\ F # <<>>
      <3>1. n + 1 < n + 2 /\ n + 1 \in Int /\ n + 2 \in Int
        BY <1>2
      <3>2. SubSeq(t, n + 2, n + 1) = <<>>
        BY <3>1, SubSeqEmpty
      <3>3. Current(t) = <<>>
        BY <1>4, <1>10, <2>3, <2>4, <3>2
      <3>4. QED BY <1>5, <1>6, <1>10, <2>2, <2>4, <3>3 DEF t
    <2>5. CASE ~ (b = n + 1 /\ x \in White /\ F # <<>>)
      <3>1. Current(t) = Append(Current(s), x)
        BY <1>4, <1>7, <1>10, <2>3, <2>5
      <3>2. QED BY <1>5, <1>6, <1>10, <2>2, <2>5, <3>1 DEF t
    <2>6. QED BY <2>4, <2>5
  <1>11. QED BY <1>9, <1>10

\* How many sentences there are in two texts put together.
LEMMA SentencesCount ==
  ASSUME NEW p \in Seq(Chars), NEW r \in Seq(Chars)
  PROVE  /\ p \o r \in Seq(Chars)
         /\ Len(Sentences(p \o r)) = Len(Sentences(p)) + Dots(r)
         /\ Len(Sentences(p)) \in Nat /\ Dots(r) \in Nat
         /\ Sentences(p \o r) \in Seq(Seq(Chars)) /\ Sentences(p) \in Seq(Seq(Chars))
  <1> DEFINE q == p \o r
  <1>1. q \in Seq(Chars)
    BY ConcatProperties
  <1>2. Dots(q) = Dots(p) + Dots(r) /\ Dots(p) \in Nat /\ Dots(r) \in Nat
    BY DotsConcat
  <1> HIDE DEF q
  <1>3. Len(Sentences(q)) = Dots(q) /\ Sentences(q) \in Seq(Seq(Chars))
    BY <1>1, SentencesTyped
  <1>4. Len(Sentences(p)) = Dots(p) /\ Sentences(p) \in Seq(Seq(Chars))
    BY SentencesTyped
  <1>5. QED BY <1>1, <1>2, <1>3, <1>4 DEF q

\* The sentences a text has it keeps when the text grows, and gets new ones.
LEMMA SentencesGrow ==
  ASSUME NEW q \in Seq(Chars), NEW x \in Chars
  PROVE  /\ \A j \in 1..Len(Sentences(q)) : Sentences(Append(q, x))[j] = Sentences(q)[j]
         /\ x = "." => /\ Sentences(Append(q, x))[Len(Sentences(q)) + 1] = Append(Current(q), x)
                       /\ Current(Append(q, x)) = <<>>
         /\ Dots(Append(q, x)) = Dots(q) + (IF x = "." THEN 1 ELSE 0)
  <1> DEFINE t == Append(q, x)
             R == Seq(Chars)
             c == Append(Current(q), x)
  <1>1. Sentences(q) \in Seq(R) /\ Current(q) \in R /\ Len(Sentences(q)) = Dots(q) /\ Dots(q) \in Nat
    BY SentencesTyped
  <1>2. c \in R /\ t \in R
    BY <1>1, AppendProperties
  <1>3. /\ x = "." => Sentences(t) = Append(Sentences(q), c) /\ Current(t) = <<>>
        /\ x # "." => Sentences(t) = Sentences(q)
    BY SentencesAppend
  <1>4. Len(Sentences(t)) = Dots(t)
    <2> HIDE DEF t
    <2>1. QED BY <1>2, SentencesTyped
  <1> HIDE DEF c, R, t
  <1>5. CASE x = "."
    <2>1. /\ Len(Append(Sentences(q), c)) = Len(Sentences(q)) + 1
          /\ Append(Sentences(q), c)[Len(Sentences(q)) + 1] = c
          /\ \A j \in 1..Len(Sentences(q)) : Append(Sentences(q), c)[j] = Sentences(q)[j]
      BY <1>1, <1>2, AppendProperties
    <2>2. QED BY <1>1, <1>3, <1>4, <1>5, <2>1 DEF c, t
  <1>6. CASE x # "."
    <2>1. Sentences(t) = Sentences(q)
      BY <1>3, <1>6
    <2>2. Dots(t) = Dots(q) /\ Dots(q) + 0 = Dots(q)
      BY <1>1, <1>4, <2>1
    <2>3. QED BY <1>6, <2>1, <2>2 DEF t
  <1>7. QED BY <1>5, <1>6

\* A text put behind another leaves its sentences alone.
LEMMA SentencesPrefix ==
  ASSUME NEW p \in Seq(Chars), NEW r \in Seq(Chars)
  PROVE  \A j \in 1..Len(Sentences(p)) : Sentences(p \o r)[j] = Sentences(p)[j]
  <1> DEFINE m == Len(Sentences(p))
             Good(b) == \A j \in 1..m : Sentences(p \o b)[j] = Sentences(p)[j]
             T == {b \in Seq(Chars) : Good(b)}
  <1>1. <<>> \in T
    <2>1. p \o <<>> = p /\ <<>> \in Seq(Chars)
      BY ConcatEmptySeq
    <2>2. Good(<<>>)
      BY <2>1
    <2> HIDE DEF Good
    <2>3. QED BY <2>1, <2>2
  <1>2. ASSUME NEW b \in Seq(Chars), NEW x \in Chars, b \in T PROVE Append(b, x) \in T
    <2> DEFINE q == p \o b
               t == Append(b, x)
    <2>1. q \in Seq(Chars) /\ Len(Sentences(q)) = m + Dots(b) /\ m \in Nat /\ Dots(b) \in Nat
      BY SentencesCount
    <2>2. p \o t = Append(q, x) /\ t \in Seq(Chars)
      BY ConcatAppend, AppendProperties
    <2>3. \A j \in 1..m : Sentences(q)[j] = Sentences(p)[j]
      BY <1>2
    <2> HIDE DEF q, t
    <2>4. \A j \in 1..Len(Sentences(q)) : Sentences(Append(q, x))[j] = Sentences(q)[j]
      BY <2>1, SentencesGrow
    <2>5. \A j \in 1..m : j \in 1..Len(Sentences(q))
      BY <2>1
    <2>6. Good(t)
      BY <2>2, <2>3, <2>4, <2>5
    <2> HIDE DEF Good
    <2>7. QED BY <2>2, <2>6 DEF t
  <1>3. Good(r)
    <2> HIDE DEF T, Good
    <2>1. Seq(Chars) \subseteq T
      BY <1>1, <1>2, SeqInduction
    <2>2. QED BY <2>1 DEF T
  <1>4. QED BY <1>3

\* t ends with s.
EndsWith(t, s) == \E u \in Seq(Chars) : t = u \o s

\* Endings of texts.
LEMMA EndsWithFacts ==
  ASSUME NEW t \in Seq(Chars), NEW s \in Seq(Chars), NEW x \in Chars
  PROVE  /\ EndsWith(t, <<>>) /\ EndsWith(t, t)
         /\ EndsWith(t, s) => EndsWith(Append(t, x), Append(s, x))
         /\ EndsWith(<<>>, s) => s = <<>>
  <1>1. t \o <<>> = t /\ <<>> \o t = t /\ <<>> \in Seq(Chars)
    BY ConcatEmptySeq
  <1>2. EndsWith(t, <<>>) /\ EndsWith(t, t)
    BY <1>1, Zenon DEF EndsWith
  <1>3. ASSUME EndsWith(t, s) PROVE EndsWith(Append(t, x), Append(s, x))
    <2>1. PICK u \in Seq(Chars) : t = u \o s
      BY <1>3 DEF EndsWith
    <2>2. u \o Append(s, x) = Append(u \o s, x)
      BY ConcatAppend
    <2>3. Append(t, x) = u \o Append(s, x)
      BY <2>1, <2>2, Zenon
    <2>4. QED BY <2>3, Zenon DEF EndsWith
  <1>4. ASSUME EndsWith(<<>>, s) PROVE s = <<>>
    <2>1. PICK u \in Seq(Chars) : <<>> = u \o s
      BY <1>4, Zenon DEF EndsWith
    <2>2. u \o s = <<>> <=> u = <<>> /\ s = <<>>
      BY ConcatEqualIffEmpty
    <2>3. QED BY <2>1, <2>2, Zenon
  <1>5. QED BY <1>2, <1>3, <1>4

\* The library's word for an ending.
LEMMA EndsWithSuffix ==
  ASSUME NEW t \in Seq(Chars), NEW s \in Seq(Chars), EndsWith(t, s)
  PROVE  IsSuffix(s, t)
  <1>1. PICK u \in Seq(Chars) : t = u \o s
    BY DEF EndsWith
  <1> DEFINE m == Len(u)
             n == Len(s)
             a == Reverse(s)
             b == Reverse(t)
  <1>2. m \in Nat /\ n \in Nat
    BY LenProperties
  <1>3. Len(t) = m + n /\ \A i \in 1..(m + n) : t[i] = IF i <= m THEN u[i] ELSE s[i - m]
    BY <1>1, ConcatProperties
  <1>4. (\A i \in 1..n : s[i] \in Chars) /\ (\A i \in 1..(m + n) : t[i] \in Chars)
    BY <1>3, ElementOfSeq
  <1>5. a = [i \in 1..n |-> s[(n - i) + 1]]
    BY DEF Reverse
  <1>6. b = [i \in 1..(m + n) |-> t[((m + n) - i) + 1]]
    BY <1>3 DEF Reverse
  <1> HIDE DEF a, b, m, n
  <1>7. a \in Seq(Chars) /\ Len(a) = n /\ \A i \in 1..n : a[i] = s[(n - i) + 1]
    <2>1. \A i \in 1..n : s[(n - i) + 1] \in Chars
      BY <1>2, <1>4
    <2>2. QED BY <1>2, <1>5, <2>1
  <1>8. b \in Seq(Chars) /\ Len(b) = m + n /\ \A i \in 1..(m + n) : b[i] = t[((m + n) - i) + 1]
    <2>1. \A i \in 1..(m + n) : t[((m + n) - i) + 1] \in Chars
      BY <1>2, <1>4
    <2>2. QED BY <1>2, <1>6, <2>1
  <1>9. ASSUME NEW i \in 1..n PROVE a[i] = b[i]
    <2> DEFINE j == ((m + n) - i) + 1
    <2>1. i \in 1..(m + n) /\ j \in 1..(m + n) /\ ~ (j <= m) /\ j - m = (n - i) + 1
      BY <1>2
    <2>2. b[i] = t[j]
      BY <1>8, <2>1
    <2> HIDE DEF j
    <2>3. t[j] = s[j - m]
      BY <1>3, <2>1
    <2>4. QED BY <1>7, <2>1, <2>2, <2>3
  <1>10. SubSeq(a, 1, n) = SubSeq(b, 1, n)
    <2>1. 1 \in 1..(Len(a) + 1) /\ n \in (1 - 1)..Len(a) /\ 1 \in 1..(Len(b) + 1) /\ n \in (1 - 1)..Len(b)
      BY <1>2, <1>7, <1>8
    <2>2. /\ SubSeq(a, 1, n) \in Seq(Chars) /\ Len(SubSeq(a, 1, n)) = n - 1 + 1
          /\ \A i \in 1..(n - 1 + 1) : SubSeq(a, 1, n)[i] = a[1 + i - 1]
      BY <1>7, <2>1, SubSeqAt
    <2>3. /\ SubSeq(b, 1, n) \in Seq(Chars) /\ Len(SubSeq(b, 1, n)) = n - 1 + 1
          /\ \A i \in 1..(n - 1 + 1) : SubSeq(b, 1, n)[i] = b[1 + i - 1]
      BY <1>8, <2>1, SubSeqAt
    <2> DEFINE c == SubSeq(a, 1, n)
               d == SubSeq(b, 1, n)
    <2> HIDE DEF c, d
    <2>4. n - 1 + 1 = n /\ \A i \in 1..n : 1 + i - 1 = i
      BY <1>2
    <2>5. Len(c) = Len(d) /\ \A i \in 1..Len(c) : c[i] = d[i]
      BY <1>9, <2>2, <2>3, <2>4 DEF c, d
    <2>6. c = d
      BY <2>2, <2>3, <2>5, SeqEqual DEF c, d
    <2>7. QED BY <2>6 DEF c, d
  <1>11. Len(a) <= Len(b)
    BY <1>2, <1>7, <1>8
  <1>12. IsPrefix(a, b)
    BY <1>7, <1>10, <1>11 DEF IsPrefix
  <1>13. QED BY <1>12 DEF IsSuffix, a, b

\* What the same text r makes behind p and behind q: from the second sentence that
\* ends in r on there is no difference, and the first one is the same but for
\* what q had left behind its last delimiter.
Parallel(p, q, r) ==
    LET m == Len(Sentences(p))
        n == Len(Sentences(q))
        s == Sentences(p \o r)
        t == Sentences(q \o r)
        d == Dots(r)
    IN  /\ \A l \in 2..d : t[n + l] = s[m + l]
        /\ d > 0 => EndsWith(t[n + 1], s[m + 1]) /\ Current(q \o r) = Current(p \o r)
        /\ d = 0 => EndsWith(Current(q \o r), Current(p \o r))

\* One more character, at the same place of both.
LEMMA ParallelAppend ==
  ASSUME NEW p \in Seq(Chars), NEW q \in Seq(Chars), Sentences(p) # <<>>, Sentences(q) # <<>>,
         NEW r \in Seq(Chars), NEW x \in Chars, Parallel(p, q, r)
  PROVE  Parallel(p, q, Append(r, x))
  <1> DEFINE m == Len(Sentences(p))
             n == Len(Sentences(q))
             a == p \o r
             b == q \o r
             z == Append(r, x)
             e == Append(a, x)
             f == Append(b, x)
             S == Sentences(a)
             T == Sentences(b)
             d == Dots(r)
  <1>1. a \in Seq(Chars) /\ Len(S) = m + d /\ m \in Nat /\ d \in Nat /\ S \in Seq(Seq(Chars))
        /\ Sentences(p) \in Seq(Seq(Chars))
    BY SentencesCount
  <1>2. b \in Seq(Chars) /\ Len(T) = n + d /\ n \in Nat /\ T \in Seq(Seq(Chars))
        /\ Sentences(q) \in Seq(Seq(Chars))
    BY SentencesCount
  <1>3. m > 0 /\ n > 0
    <2>1. \A l \in Seq(Seq(Chars)) : l # <<>> => Len(l) > 0
      BY EmptySeq
    <2>2. QED BY <1>1, <1>2, <2>1
  <1>4. S # <<>> /\ T # <<>>
    <2>1. Len(<<>>) = 0
      OBVIOUS
    <2> HIDE DEF S, T, m, n, d
    <2>2. Len(S) # 0 /\ Len(T) # 0
      BY <1>1, <1>2, <1>3
    <2>3. QED BY <2>1, <2>2
  <1>5. p \o z = e /\ q \o z = f
    BY ConcatAppend
  <1>6. /\ \A l \in 2..d : T[n + l] = S[m + l]
        /\ d > 0 => EndsWith(T[n + 1], S[m + 1]) /\ Current(b) = Current(a)
        /\ d = 0 => EndsWith(Current(b), Current(a))
    BY DEF Parallel
  <1>7. Dots(z) = d + (IF x = "." THEN 1 ELSE 0)
    BY SentencesGrow
  <1> HIDE DEF a, b, z, S, T, d
  <1>8. Current(a) \in Seq(Chars) /\ Current(b) \in Seq(Chars)
    BY <1>1, <1>2, SentencesTyped
  <1>9. /\ \A j \in 1..Len(S) : Sentences(e)[j] = S[j]
        /\ x = "." => Sentences(e)[Len(S) + 1] = Append(Current(a), x) /\ Current(e) = <<>>
    BY <1>1, SentencesGrow DEF S
  <1>10. /\ \A j \in 1..Len(T) : Sentences(f)[j] = T[j]
         /\ x = "." => Sentences(f)[Len(T) + 1] = Append(Current(b), x) /\ Current(f) = <<>>
    BY <1>2, SentencesGrow DEF T
  <1>11. /\ x # "." /\ Current(a) = <<>> /\ x \in White => Current(e) = <<>>
         /\ x # "." /\ ~ (Current(a) = <<>> /\ x \in White) => Current(e) = Append(Current(a), x)
    BY <1>1, <1>4, SentencesAppend DEF S
  <1>12. /\ x # "." /\ Current(b) = <<>> /\ x \in White => Current(f) = <<>>
         /\ x # "." /\ ~ (Current(b) = <<>> /\ x \in White) => Current(f) = Append(Current(b), x)
    BY <1>2, <1>4, SentencesAppend DEF T
  <1>13. Current(f) \in Seq(Chars)
    <2>1. f \in Seq(Chars)
      BY <1>2, AppendProperties
    <2> HIDE DEF f
    <2>2. QED BY <2>1, SentencesTyped
  <1> HIDE DEF e, f, m, n
  <1>14. \A l \in 2..d : Sentences(f)[n + l] = Sentences(e)[m + l]
    <2>1. ASSUME NEW l \in 2..d PROVE Sentences(f)[n + l] = Sentences(e)[m + l]
      <3>1. n + l \in 1..Len(T) /\ m + l \in 1..Len(S)
        BY <1>1, <1>2
      <3>2. QED BY <1>6, <1>9, <1>10, <3>1
    <2>2. QED BY <2>1
  <1>15. d > 0 => EndsWith(Sentences(f)[n + 1], Sentences(e)[m + 1])
    <2>1. d > 0 => n + 1 \in 1..Len(T) /\ m + 1 \in 1..Len(S)
      BY <1>1, <1>2
    <2>2. QED BY <1>6, <1>9, <1>10, <2>1
  <1> DEFINE Goal == /\ \A l \in 2..Dots(z) : Sentences(f)[n + l] = Sentences(e)[m + l]
                     /\ Dots(z) > 0 => EndsWith(Sentences(f)[n + 1], Sentences(e)[m + 1]) /\ Current(f) = Current(e)
                     /\ Dots(z) = 0 => EndsWith(Current(f), Current(e))
  <1>16. ASSUME x = "." PROVE Goal
    <2>1. Dots(z) = d + 1
      BY <1>7, <1>16
    <2>2. Current(f) = Current(e)
      BY <1>9, <1>10, <1>16
    <2>3. /\ Sentences(f)[n + (d + 1)] = Append(Current(b), x)
          /\ Sentences(e)[m + (d + 1)] = Append(Current(a), x)
      <3>1. Len(T) + 1 = n + (d + 1) /\ Len(S) + 1 = m + (d + 1)
        BY <1>1, <1>2
      <3>2. QED BY <1>9, <1>10, <1>16, <3>1
    <2>4. \A l \in 2..(d + 1) : Sentences(f)[n + l] = Sentences(e)[m + l]
      <3>1. \A l \in 2..(d + 1) : l \in 2..d \/ (l = d + 1 /\ d > 0)
        BY <1>1
      <3>2. d > 0 => Sentences(f)[n + (d + 1)] = Sentences(e)[m + (d + 1)]
        BY <1>6, <2>3
      <3>3. QED BY <1>14, <3>1, <3>2
    <2>5. EndsWith(Sentences(f)[n + 1], Sentences(e)[m + 1])
      <3>1. CASE d > 0
        BY <1>15, <3>1
      <3>2. CASE ~ (d > 0)
        <4>1. d = 0
          BY <1>1, <3>2
        <4>2. EndsWith(Current(b), Current(a))
          BY <1>6, <4>1
        <4>3. EndsWith(Append(Current(b), x), Append(Current(a), x))
          BY <1>8, <4>2, EndsWithFacts
        <4>4. d + 1 = 1
          BY <4>1
        <4>5. QED BY <2>3, <4>3, <4>4
      <3>3. QED BY <3>1, <3>2
    <2>6. d + 1 > 0 /\ d + 1 # 0
      BY <1>1
    <2>7. QED BY <2>1, <2>2, <2>4, <2>5, <2>6
  <1>17. ASSUME x # "." PROVE Goal
    <2>1. Dots(z) = d
      BY <1>1, <1>7, <1>17
    <2>2. d > 0 => Current(f) = Current(e)
      BY <1>6, <1>11, <1>12, <1>17
    <2>3. ASSUME d = 0 PROVE EndsWith(Current(f), Current(e))
      <3>1. EndsWith(Current(b), Current(a))
        BY <1>6, <2>3
      <3>2. CASE Current(a) = <<>> /\ x \in White
        <4>1. Current(e) = <<>>
          BY <1>11, <1>17, <3>2
        <4>2. EndsWith(Current(f), <<>>)
          BY <1>13, EndsWithFacts
        <4>3. QED BY <4>1, <4>2
      <3>3. CASE ~ (Current(a) = <<>> /\ x \in White)
        <4>1. Current(e) = Append(Current(a), x)
          BY <1>11, <1>17, <3>3
        <4>2. ~ (Current(b) = <<>> /\ x \in White)
          <5>1. SUFFICES ASSUME Current(b) = <<>>, x \in White PROVE FALSE
            OBVIOUS
          <5>2. EndsWith(<<>>, Current(a))
            BY <3>1, <5>1
          <5>3. Current(a) = <<>>
            BY <1>8, <5>2, EndsWithFacts
          <5>4. QED BY <3>3, <5>1, <5>3
        <4>3. Current(f) = Append(Current(b), x)
          BY <1>12, <1>17, <4>2
        <4>4. EndsWith(Append(Current(b), x), Append(Current(a), x))
          BY <1>8, <3>1, EndsWithFacts
        <4>5. QED BY <4>1, <4>3, <4>4
      <3>4. QED BY <3>2, <3>3
    <2>4. QED BY <1>14, <1>15, <2>1, <2>2, <2>3
  <1>18. Goal
    BY <1>16, <1>17
  <1>19. QED BY <1>5, <1>18 DEF Parallel, m, n, z

\* Behind a complete sentence and behind any text with a sentence.
LEMMA AllParallel ==
  ASSUME NEW p \in Seq(Chars), NEW q \in Seq(Chars), Sentences(p) # <<>>, Sentences(q) # <<>>,
         Current(p) = <<>>, NEW r \in Seq(Chars)
  PROVE  Parallel(p, q, r)
  <1> DEFINE Good(b) == Parallel(p, q, b)
             T == {b \in Seq(Chars) : Good(b)}
  <1>1. <<>> \in T
    <2>1. p \o <<>> = p /\ q \o <<>> = q /\ <<>> \in Seq(Chars)
      BY ConcatEmptySeq
    <2>2. Dots(<<>>) = 0
      <3>1. Len(<<>>) = 0
        OBVIOUS
      <3>2. QED BY <3>1, KeptNil, Zenon DEF Dots
    <2>3. Current(q) \in Seq(Chars)
      BY SentencesTyped
    <2>4. EndsWith(Current(q), Current(p))
      <3>1. "x" \in Chars
        BY DEF Chars
      <3>2. EndsWith(Current(q), <<>>)
        BY <2>1, <2>3, <3>1, EndsWithFacts
      <3>3. QED BY <3>2
    <2>5. (\A l \in 2..0 : FALSE) /\ ~ (0 > 0)
      OBVIOUS
    <2>6. Good(<<>>)
      BY <2>1, <2>2, <2>4, <2>5 DEF Parallel
    <2> HIDE DEF Good
    <2>7. QED BY <2>1, <2>6
  <1>2. ASSUME NEW b \in Seq(Chars), NEW x \in Chars, b \in T PROVE Append(b, x) \in T
    <2>1. Append(b, x) \in Seq(Chars) /\ Parallel(p, q, b)
      BY <1>2, AppendProperties
    <2>2. Parallel(p, q, Append(b, x))
      BY <2>1, ParallelAppend
    <2>3. QED BY <2>1, <2>2
  <1>3. Good(r)
    <2> HIDE DEF T, Good
    <2>1. Seq(Chars) \subseteq T
      BY <1>1, <1>2, SeqInduction
    <2>2. QED BY <2>1 DEF T
  <1>4. QED BY <1>3

-----------------------------------------------------------------------------
(* A commit.                                                               *)

\* Nothing is dropped from a sequence of which everything is kept.
LEMMA KeptAll ==
  ASSUME NEW S, NEW G, S \subseteq G, NEW s \in Seq(S)
  PROVE  Kept(s, G) = s
  <1> DEFINE T == {r \in Seq(S) : Kept(r, G) = r}
  <1>1. <<>> \in T
    <2>1. <<>> \in Seq(S)
      OBVIOUS
    <2>2. QED BY <2>1, KeptNil
  <1>2. ASSUME NEW r \in Seq(S), NEW x \in S, r \in T PROVE Append(r, x) \in T
    <2>1. Append(r, x) \in Seq(S) /\ x \in G /\ Kept(r, G) = r
      BY <1>2, AppendProperties
    <2>2. Kept(Append(r, x), G) = Append(Kept(r, G), x)
      BY <2>1, KeptAppend
    <2>3. QED BY <2>1, <2>2
  <1>3. QED
    <2> HIDE DEF T
    <2>1. Seq(S) \subseteq T
      BY <1>1, <1>2, SeqInduction
    <2>2. QED BY <2>1 DEF T

\* join_words writes the words and blanks.
LEMMA JoinedWords ==
  ASSUME NEW ws \in Lists(Inks)
  PROVE  /\ join_words(ws) \in Seq(Plain)
         /\ FlattenSeq(ws) \in Seq(Inks)
         /\ Ink(join_words(ws)) = FlattenSeq(ws)
         /\ Dots(join_words(ws)) = Dots(FlattenSeq(ws))
  <1> DEFINE D == {"."}
  <1>0. Inks \subseteq Plain /\ " " \notin Inks /\ " " \in Plain /\ " " \notin D
    BY PlainChars
  <1>1. Blank \in Seq(Plain)
    <2> DEFINE c == " "
    <2>1. c \in Plain
      BY <1>0
    <2> HIDE DEF c
    <2>2. <<c>> \in Seq(Plain)
      BY <2>1
    <2>3. QED BY <2>2 DEF Blank, c
  <1>2. ws \in Seq(Seq(Plain))
    BY <1>0, ListsAreSeqs
  <1>3. ws \in Seq(Seq(Inks))
    <2>1. Inks \subseteq Inks
      OBVIOUS
    <2>2. QED BY <2>1, ListsAreSeqs
  <1> HIDE DEF D
  <1>4. Kept(Blank, Inks) = <<>> /\ Kept(Blank, D) = <<>>
    BY <1>0, BlankKept
  <1>5. /\ Kept(join_words(ws), Inks) = Kept(FlattenSeq(ws), Inks)
        /\ Kept(join_words(ws), D) = Kept(FlattenSeq(ws), D)
    BY <1>1, <1>2, <1>4, JoinKept
  <1>6. <<>> \in Seq(Plain) /\ <<>> \in Seq(Inks)
    OBVIOUS
  <1>7. join_words(ws) \in Seq(Plain)
    BY <1>1, <1>2, <1>6, JoinAppend
  <1>8. FlattenSeq(ws) \in Seq(Inks)
    BY <1>3, <1>6, FlattenAppend
  <1>9. Kept(FlattenSeq(ws), Inks) = FlattenSeq(ws)
    <2>1. Inks \subseteq Inks
      OBVIOUS
    <2>2. QED BY <1>8, <2>1, KeptAll
  <1>10. Ink(join_words(ws)) = FlattenSeq(ws)
    BY <1>5, <1>9 DEF Ink, Inks, White
  <1>11. Dots(join_words(ws)) = Dots(FlattenSeq(ws))
    BY <1>5 DEF Dots, D
  <1>12. QED BY <1>7, <1>8, <1>10, <1>11

\* The words and the text that a commit of list to sentence i of s makes.
Applied(s, i, list) ==
    apply_updates(tokenize_words(SpanText(s, SpanOf(s, i))), ReceivedOf(list))

Committed(s, i, list) == write_new_content(s, SpanOf(s, i), join_words(Applied(s, i, list).words))

\* The parts of a text around the span of a session.
Before(s, a) == SubSeq(s, 1, a - 1)
Behind(s, e) == SubSeq(s, e + 1, Len(s))

\* What a commit puts where the span was.
CommitParts(s, i, list, a, e) ==
    LET P == Before(s, a)
        M == SubSeq(s, a, e)
        Q == Behind(s, e)
        J == join_words(Applied(s, i, list).words)
    IN  /\ P \in Seq(Plain) /\ M \in Seq(Plain) /\ Q \in Seq(Plain) /\ J \in Seq(Plain)
        /\ s = (P \o M) \o Q /\ P \o M = SubSeq(s, 1, e)
        /\ Committed(s, i, list) = (P \o J) \o Q
        /\ Applied(s, i, list) \in ApplyState
        /\ Applied(s, i, list).words \in Lists(Inks)
        /\ tokenize_words(M) \in Lists(Inks)
        /\ FlattenSeq(tokenize_words(M)) = Ink(M)
        /\ Applied(s, i, list) = apply_updates(tokenize_words(M), ReceivedOf(list))

\* The prefix and the suffix are copied, the words between them joined.
LEMMA CommittedText ==
  ASSUME NEW s \in Seq(Plain), NEW i \in 0..Len(compute_spans(s)), NEW list \in Seq(Update),
         NEW a, NEW e, SpanIs(s, i, a, e)
  PROVE  CommitParts(s, i, list, a, e)
  <1> DEFINE P == Before(s, a)
             M == SubSeq(s, a, e)
             Q == Behind(s, e)
             A == Applied(s, i, list)
             J == join_words(A.words)
             ws == tokenize_words(M)
  <1>1. a \in 1..(Len(s) + 1) /\ e \in (a - 1)..Len(s)
    BY DEF SpanIs
  <1>2. P \in Seq(Plain) /\ Q \in Seq(Plain) /\ P \o M = SubSeq(s, 1, e)
        /\ s = SubSeq(s, 1, e) \o Q
    BY <1>1, SplitThree DEF Before, Behind
  <1>3. SpanText(s, SpanOf(s, i)) = M /\ M \in Seq(Plain)
    BY SpanTextIs
  <1>4. A = apply_updates(ws, ReceivedOf(list))
    BY <1>3 DEF Applied
  <1>5. M \in Seq(Chars)
    BY <1>3, PlainChars, SeqMonotonic
  <1>6. ws = Words(M, White)
    BY DEF tokenize_words, White
  <1>7. FlattenSeq(ws) = Ink(M)
    BY <1>5, <1>6, FlattenWords
  <1>8. ws \in Lists(Inks)
    <2> HIDE DEF M
    <2>1. Words(M, White) \in Lists(Chars \ White)
      BY <1>5, WordsTyped
    <2>2. QED BY <1>6, <2>1 DEF Inks
  <1>9. ReceivedOf(list) \in Seq(Update)
    BY ReceivedTyped
  <1>10. A \in ApplyState /\ A.words \in Lists(Inks)
    <2>1. [index |-> 0, text |-> <<>>] \in Update
      BY DEF Update
    <2> HIDE DEF ws
    <2>2. apply_updates(ws, ReceivedOf(list)) \in ApplyState
      BY <1>8, <1>9, <2>1, ApplyAppend
    <2>3. QED BY <1>4, <2>2 DEF ApplyState
  <1>11. J \in Seq(Plain)
    <2> HIDE DEF A
    <2>1. QED BY <1>10, JoinedWords
  <1>12. Committed(s, i, list) = (P \o J) \o Q
    <2>1. SpanOf(s, i).start = a /\ SpanOf(s, i).start + SpanOf(s, i).length = e + 1
      <3>1. SpanOf(s, i).start = a /\ SpanOf(s, i).length = e - a + 1
        BY DEF SpanIs
      <3>2. Len(s) \in Nat
        BY LenProperties
      <3>3. a + (e - a + 1) = e + 1
        BY <1>1, <3>2
      <3>4. QED BY <3>1, <3>3
    <2>2. QED BY <2>1 DEF Committed, write_new_content, Before, Behind
  <1> HIDE DEF P, M, Q, A, J, ws
  <1>13. s = (P \o M) \o Q
    BY <1>2, Zenon
  <1>14. QED BY <1>2, <1>3, <1>4, <1>7, <1>8, <1>10, <1>11, <1>12, <1>13 DEF P, M, Q, A, J, ws, CommitParts

\* Texts in another order of concatenation.
LEMMA Regroup ==
  ASSUME NEW S, NEW p \in Seq(S), NEW f \in Seq(S), NEW g \in Seq(S), NEW h \in Seq(S),
         NEW q \in Seq(S)
  PROVE  /\ Cat(Cat(p, Cat(f, g)), q) = Cat(Cat(p, f), Cat(g, q))
         /\ Cat(Cat(p, Cat(Cat(f, h), g)), q) = Cat(Cat(Cat(p, f), h), Cat(g, q))
  BY CatAssociates

\* What a commit inserts, and where.
LEMMA CommitPutsIn ==
  ASSUME NEW s \in Seq(Plain), NEW i \in 0..Len(compute_spans(s)), NEW u \in Update,
         Whole(u.text), ~ Applied(s, i, <<u>>).failed
  PROVE  LET span == SpanOf(s, i)
             words == tokenize_words(SpanText(s, span))
             inFront == Ink(SubSeq(s, 1, span.start - 1)) \o FlattenSeq(SubSeq(words, 1, u.index))
             behind == SubSeq(Ink(s), Len(inFront) + 1, Len(Ink(s)))
         IN  Ink(Committed(s, i, <<u>>)) = inFront \o Ink(u.text) \o behind
  <1>0. PICK a, e : SpanIs(s, i, a, e)
    BY SpanOfText
  <1> DEFINE list == <<u>>
             P == Before(s, a)
             M == SubSeq(s, a, e)
             Q == Behind(s, e)
             A == Applied(s, i, list)
             J == join_words(A.words)
             ws == tokenize_words(M)
             us == InsertedWords(u.text)
             f == FlattenSeq(SubSeq(ws, 1, u.index))
             g == FlattenSeq(SubSeq(ws, u.index + 1, Len(ws)))
  <1>1. list \in Seq(Update) /\ list = Append(<<>>, u) /\ <<>> \in Seq(Update)
    OBVIOUS
  <1>2. /\ P \in Seq(Plain) /\ M \in Seq(Plain) /\ Q \in Seq(Plain) /\ J \in Seq(Plain)
        /\ s = (P \o M) \o Q
        /\ Committed(s, i, list) = (P \o J) \o Q
        /\ A.words \in Lists(Inks)
        /\ ws \in Lists(Inks)
        /\ FlattenSeq(ws) = Ink(M)
        /\ A = apply_updates(ws, ReceivedOf(list))
    <2>1. CommitParts(s, i, list, a, e)
      BY <1>0, <1>1, CommittedText
    <2>2. QED BY <2>1, Zenon DEF CommitParts
  <1>3. SpanText(s, SpanOf(s, i)) = M /\ SpanOf(s, i).start = a
    <2>1. SpanOf(s, i).start = a
      BY <1>0 DEF SpanIs
    <2>2. QED BY <1>0, <2>1, SpanTextIs
  <1>4. ReceivedOf(list) = Append(<<>>, u)
    <2>1. ReceivedOf(Append(<<>>, u)) = Append(ReceivedOf(<<>>), ReceivedUpdate(u)) /\ ReceivedOf(<<>>) = <<>>
      BY <1>1, ReceivedAppend
    <2>2. ReceivedUpdate(u) = u
      BY ReceivedUpdateTyped
    <2>3. QED BY <1>1, <2>1, <2>2, Zenon
  <1> DEFINE start == [words |-> ws, failed |-> FALSE]
  <1>5. A = ApplyOne(start, u)
    <2>1. apply_updates(ws, <<>>) = start
          /\ apply_updates(ws, Append(<<>>, u)) = ApplyOne(apply_updates(ws, <<>>), u)
      <3> HIDE DEF ws
      <3>1. QED BY <1>1, <1>2, ApplyAppend
    <2>2. QED BY <1>2, <1>4, <2>1, Zenon
  <1>6. start \in ApplyState /\ ~ start.failed /\ start.words = ws
    <2> HIDE DEF ws
    <2>1. QED BY <1>2 DEF ApplyState
  <1>7. ~ A.failed
    OBVIOUS
  <1> HIDE DEF list, A, start, ws
  <1>8. /\ u.index \in 0..Len(ws) /\ us \in Lists(Inks) /\ u.text \in Seq(Chars)
        /\ A.words = Insert(ws, u.index, us)
    <2>1. /\ start.failed \/ u.index > Len(start.words) => ApplyOne(start, u).failed
          /\ us \in Lists(Inks) /\ u.text \in Seq(Chars)
          /\ ~ (start.failed \/ u.index > Len(start.words)) =>
               /\ u.index \in 0..Len(start.words)
               /\ ApplyOne(start, u).words = Insert(start.words, u.index, us)
      BY <1>6, ApplyOneTyped
    <2>2. ~ (start.failed \/ u.index > Len(start.words))
      BY <1>5, <1>7, <2>1
    <2>3. QED BY <1>5, <1>6, <2>1, <2>2
  <1> DEFINE k == u.index
             h == FlattenSeq(us)
  <1>9. /\ f \in Seq(Inks) /\ g \in Seq(Inks) /\ h \in Seq(Inks)
        /\ FlattenSeq(ws) = f \o g
        /\ FlattenSeq(Insert(ws, k, us)) = (f \o h) \o g
    <2>1. k \in 0..Len(ws) /\ us \in Lists(Inks)
      BY <1>8
    <2> HIDE DEF k, us
    <2>2. LET a1 == FlattenSeq(SubSeq(ws, 1, k))
              b1 == FlattenSeq(SubSeq(ws, k + 1, Len(ws)))
          IN  /\ a1 \in Seq(Inks) /\ b1 \in Seq(Inks) /\ FlattenSeq(us) \in Seq(Inks)
              /\ FlattenSeq(ws) = a1 \o b1
              /\ FlattenSeq(Insert(ws, k, us)) = (a1 \o FlattenSeq(us)) \o b1
      BY <1>2, <2>1, FlattenInsert
    <2>3. QED BY <2>2 DEF k
  <1>10. h = Ink(u.text)
    <2> DEFINE w == u.text
    <2>1. w \in Seq(Chars)
      BY <1>8
    <2> HIDE DEF w
    <2>2. FlattenSeq(Words(w, White)) = Ink(w)
      BY <2>1, FlattenWords
    <2>3. InsertedWords(w) = Words(w, White)
      BY DEF InsertedWords, White
    <2>4. QED BY <2>2, <2>3 DEF w
  <1>11. Ink(J) = (f \o h) \o g
    <2>1. Ink(J) = FlattenSeq(A.words)
      BY <1>2, JoinedWords
    <2> HIDE DEF f, g, h, us, J
    <2>2. QED BY <1>8, <1>9, <2>1, Zenon DEF k
  <1> HIDE DEF P, M, Q, J, f, g, h, us, k
  <1>12. \A x, y \in Seq(Plain) : /\ Ink(x \o y) = Ink(x) \o Ink(y) /\ x \o y \in Seq(Plain)
                                  /\ Ink(x) \in Seq(Plain)
    <2>1. ASSUME NEW x \in Seq(Plain), NEW y \in Seq(Plain)
          PROVE  Kept(x \o y, Inks) = Kept(x, Inks) \o Kept(y, Inks) /\ x \o y \in Seq(Plain)
                 /\ Kept(x, Inks) \in Seq(Plain)
      <3>1. Kept(x \o y, Inks) = Kept(x, Inks) \o Kept(y, Inks)
        BY KeptConcats
      <3>2. x \o y \in Seq(Plain)
        BY ConcatProperties
      <3>3. Kept(x, Inks) \in Seq(Plain)
        BY KeptProperties
      <3>4. QED BY <3>1, <3>2, <3>3
    <2>2. QED BY <2>1 DEF Ink, Inks, White
  <1> DEFINE p == Ink(P)
             q == Ink(Q)
  <1>13. p \in Seq(Plain) /\ q \in Seq(Plain) /\ P \o J \in Seq(Plain) /\ P \o M \in Seq(Plain)
    BY <1>2, <1>12
  <1>14. f \in Seq(Plain) /\ g \in Seq(Plain) /\ h \in Seq(Plain)
    BY <1>9, PlainChars, SeqMonotonic
  <1>15. Ink(s) = (p \o (f \o g)) \o q
    <2>1. Ink((P \o M) \o Q) = Ink(P \o M) \o q /\ Ink(P \o M) = p \o Ink(M)
      BY <1>2, <1>12, <1>13
    <2>2. Ink(M) = f \o g
      BY <1>2, <1>9
    <2> HIDE DEF p, q
    <2>3. QED BY <1>2, <2>1, <2>2, Zenon
  <1>16. Ink(Committed(s, i, list)) = (p \o ((f \o h) \o g)) \o q
    <2>1. Ink((P \o J) \o Q) = Ink(P \o J) \o q /\ Ink(P \o J) = p \o Ink(J)
      BY <1>2, <1>12, <1>13
    <2> HIDE DEF p, q
    <2>2. QED BY <1>2, <1>11, <2>1, Zenon
  <1> HIDE DEF p, q
  <1> DEFINE v == p \o f
             w == g \o q
             z == Ink(s)
  <1>17. v \in Seq(Plain) /\ w \in Seq(Plain) /\ v \o h \in Seq(Plain)
    BY <1>13, <1>14, ConcatProperties
  <1>18. z = v \o w
    <2>1. (p \o (f \o g)) \o q = (p \o f) \o (g \o q)
      <3>1. p \in Seq(Plain) /\ q \in Seq(Plain)
        BY <1>13
      <3>2. Cat(Cat(p, Cat(f, g)), q) = Cat(Cat(p, f), Cat(g, q))
        BY <1>14, <3>1, Regroup
      <3>3. QED BY <3>2, Zenon DEF Cat
    <2>2. QED BY <1>15, <2>1, Zenon
  <1>19. Ink(Committed(s, i, list)) = (v \o h) \o w
    <2>1. (p \o ((f \o h) \o g)) \o q = ((p \o f) \o h) \o (g \o q)
      <3>1. p \in Seq(Plain) /\ q \in Seq(Plain)
        BY <1>13
      <3>2. Cat(Cat(p, Cat(Cat(f, h), g)), q) = Cat(Cat(Cat(p, f), h), Cat(g, q))
        BY <1>14, <3>1, Regroup
      <3>3. QED BY <3>2, Zenon DEF Cat
    <2>2. QED BY <1>16, <2>1, Zenon
  <1> HIDE DEF v, w, z
  <1>20. SubSeq(z, Len(v) + 1, Len(z)) = w
    <2> DEFINE m == Len(v)
               n == Len(w)
               c == m + 1
               d == m + n
    <2>1. m \in Nat /\ n \in Nat /\ Len(z) = d /\ z \in Seq(Plain)
          /\ \A j \in 1..(m + n) : z[j] = IF j <= m THEN v[j] ELSE w[j - m]
      BY <1>17, <1>18, ConcatProperties, LenProperties
    <2> HIDE DEF m, n
    <2>2. c \in 1..(Len(z) + 1) /\ d \in (c - 1)..Len(z) /\ d - c + 1 = n
      BY <2>1
    <2>3. c \in 1..(Len(z) + 1) /\ d \in (c - 1)..Len(z)
      BY <2>2
    <2> DEFINE y == SubSeq(z, c, d)
    <2>4. y \in Seq(Plain) /\ Len(y) = d - c + 1 /\ \A j \in 1..(d - c + 1) : y[j] = z[c + j - 1]
      <3> HIDE DEF c, d
      <3>1. QED BY <2>1, <2>3, SubSeqAt
    <2>5. Len(y) = n /\ \A j \in 1..n : y[j] = z[c + j - 1]
      <3> HIDE DEF y, c, d
      <3>1. QED BY <2>2, <2>4
    <2>6. \A j \in 1..n : c + j - 1 \in 1..(m + n) /\ ~ (c + j - 1 <= m) /\ (c + j - 1) - m = j
      BY <2>1
    <2> HIDE DEF y
    <2>7. \A j \in 1..Len(y) : y[j] = w[j]
      <3>1. ASSUME NEW j \in 1..n PROVE y[j] = w[j]
        <4> DEFINE l == c + j - 1
        <4>1. l \in 1..(m + n) /\ ~ (l <= m) /\ l - m = j /\ y[j] = z[l]
          BY <2>5, <2>6
        <4> HIDE DEF l
        <4>2. QED BY <2>1, <4>1
      <3>2. QED BY <2>5, <3>1
    <2>8. Len(y) = Len(w)
      BY <2>5 DEF n
    <2>9. y = w
      BY <1>17, <2>4, <2>7, <2>8, SeqEqual
    <2>10. QED BY <2>1, <2>9 DEF y, c, m
  <1>21. p = Ink(SubSeq(s, 1, SpanOf(s, i).start - 1))
    BY <1>3 DEF p, P, Before
  <1>22. f = FlattenSeq(SubSeq(tokenize_words(SpanText(s, SpanOf(s, i))), 1, u.index))
    BY <1>3 DEF f, ws
  <1>23. (v \o h) \o w = (v \o Ink(u.text)) \o SubSeq(z, Len(v) + 1, Len(z))
    BY <1>10, <1>20, Zenon
  <1>24. v = Ink(SubSeq(s, 1, SpanOf(s, i).start - 1)) \o
                FlattenSeq(SubSeq(tokenize_words(SpanText(s, SpanOf(s, i))), 1, u.index))
    BY <1>21, <1>22 DEF v
  <1>25. Ink(Committed(s, i, <<u>>)) = (v \o Ink(u.text)) \o SubSeq(Ink(s), Len(v) + 1, Len(Ink(s)))
    BY <1>19, <1>23, Zenon DEF z, list
  <1>26. QED BY <1>24, <1>25, Zenon

\* A commit inserts delimiters into the span, and takes none out.
LEMMA DotsCommitted ==
  ASSUME NEW s, NEW i, NEW list \in Seq(Update), NEW a, NEW e,
         CommitParts(s, i, list, a, e), ~ Applied(s, i, list).failed
  PROVE  Dots(join_words(Applied(s, i, list).words)) = Dots(SubSeq(s, a, e)) + Delimiters(list)
  <1> DEFINE M == SubSeq(s, a, e)
             A == Applied(s, i, list)
             ws == tokenize_words(M)
  <1>1. M \in Seq(Plain) /\ A.words \in Lists(Inks) /\ ws \in Lists(Inks)
        /\ FlattenSeq(ws) = Ink(M) /\ A = apply_updates(ws, ReceivedOf(list))
    BY DEF CommitParts
  <1>2. M \in Seq(Chars)
    BY <1>1, PlainChars, SeqMonotonic
  <1>f. ~ A.failed
    OBVIOUS
  <1> HIDE DEF A, M, ws
  <1>3. Dots(join_words(A.words)) = Dots(FlattenSeq(A.words))
    BY <1>1, JoinedWords
  <1>4. Dots(FlattenSeq(apply_updates(ws, ReceivedOf(list)).words)) = Dots(FlattenSeq(ws)) + Delimiters(list)
    BY <1>1, <1>f, DotsApplied
  <1>5. Dots(Ink(M)) = Dots(M)
    BY <1>2, DotsInk
  <1>6. QED BY <1>1, <1>3, <1>4, <1>5 DEF A, M

\* A text that ends with a delimiter has nothing behind its last sentence.
LEMMA NothingLeft ==
  ASSUME NEW s \in Seq(Chars), NEW e \in 1..Len(s), s[e] = "."
  PROVE  SubSeq(s, 1, e) \in Seq(Chars) /\ Current(SubSeq(s, 1, e)) = <<>>
  <1> DEFINE t == SubSeq(s, 1, e)
  <1>1. Len(s) \in Nat /\ 1 \in 1..(Len(s) + 1) /\ e \in (1 - 1)..Len(s) /\ e - 1 + 1 = e /\ 1 + e - 1 = e
        /\ e \in 1..(e - 1 + 1)
    BY LenProperties
  <1>2. t \in Seq(Chars) /\ Len(t) = e - 1 + 1 /\ \A i \in 1..(e - 1 + 1) : t[i] = s[1 + i - 1]
    BY <1>1, SubSeqAt
  <1> HIDE DEF t
  <1>3. Len(t) = e /\ t[e] = "."
    BY <1>1, <1>2
  <1>4. t # <<>>
    <2>1. Len(<<>>) = 0 /\ e # 0
      OBVIOUS
    <2>2. QED BY <1>3, <2>1
  <1>5. PICK r \in Seq(Chars), x \in Chars : t = Append(r, x)
    BY <1>2, <1>4, SequenceEmptyOrAppend
  <1>6. Len(t) = Len(r) + 1 /\ t[Len(r) + 1] = x
    BY <1>5, AppendProperties
  <1>7. x = "."
    BY <1>3, <1>6
  <1>8. Current(Append(r, x)) = <<>>
    BY <1>7, SentencesAppend
  <1>9. QED BY <1>2, <1>5, <1>8 DEF t

\* What becomes of the sentences of s when the text is t.
OthersStay(s, i, list, t) ==
    LET from == Sentences(s)
        to == Sentences(t)
        k == Delimiters(list)
    IN  /\ Len(to) = Len(from) + k
        /\ \A j \in 1..Smaller(i, Len(from)) : to[j] = from[j]
        /\ \A j \in (i + 2)..Len(from) :
              IF j = i + 2 THEN IsSuffix(from[j], to[j + k]) ELSE to[j + k] = from[j]

\* The sentences in front of the span and behind it, after a commit.
LEMMA CommitLeavesOthers ==
  ASSUME NEW s \in Seq(Plain), NEW i \in 0..Len(compute_spans(s)), NEW list \in Seq(Update),
         ~ Applied(s, i, list).failed
  PROVE  OthersStay(s, i, list, Committed(s, i, list))
  <1>0. PICK a, e : SpanIs(s, i, a, e)
    BY SpanOfText
  <1> DEFINE P == Before(s, a)
             M == SubSeq(s, a, e)
             Q == Behind(s, e)
             J == join_words(Applied(s, i, list).words)
             A == P \o M
             B == P \o J
             t == Committed(s, i, list)
             k == Delimiters(list)
             n == Len(Sentences(s))
  <1>1. CommitParts(s, i, list, a, e)
    BY <1>0, CommittedText
  <1>2. /\ P \in Seq(Plain) /\ M \in Seq(Plain) /\ Q \in Seq(Plain) /\ J \in Seq(Plain)
        /\ s = A \o Q /\ A = SubSeq(s, 1, e) /\ t = B \o Q
    BY <1>1, Zenon DEF CommitParts
  <1>3. /\ P \in Seq(Chars) /\ M \in Seq(Chars) /\ Q \in Seq(Chars) /\ J \in Seq(Chars)
        /\ s \in Seq(Chars)
    BY <1>2, PlainChars, SeqMonotonic
  <1>4. Dots(J) = Dots(M) + k
    BY <1>1, DotsCommitted
  <1>5. k \in Nat
    <2>1. [index |-> 0, text |-> <<>>] \in Update
      BY DEF Update
    <2>2. QED BY <2>1, DelimitersAppend
  <1>s. n = Len(compute_spans(s)) /\ n \in Nat
    BY <1>3, SentencesTyped
  <1>t. i \in Nat /\ i <= n
    BY <1>s
  <1> DEFINE p == Len(Sentences(P))
  <1>p. n > 0 => p = i
    <2>1. p = Len(compute_spans(P))
      <3> HIDE DEF P
      <3>1. QED BY <1>3, SentencesTyped
    <2>2. Len(compute_spans(s)) > 0 => Len(compute_spans(P)) = i
      BY <1>0 DEF SpanIs, Before
    <2>3. QED BY <1>s, <2>1, <2>2
  <1>c. i < n => e \in 1..Len(s) /\ s[e] = "." /\ Len(compute_spans(SubSeq(s, 1, e))) = i + 1
    <2>1. SUFFICES ASSUME i < n PROVE e \in 1..Len(s) /\ s[e] = "." /\ Len(compute_spans(SubSeq(s, 1, e))) = i + 1
      OBVIOUS
    <2>2. /\ a \in 1..(Len(s) + 1) /\ e \in (a - 1)..Len(s) /\ e >= a
          /\ s[e] = "." /\ Len(compute_spans(SubSeq(s, 1, e))) = i + 1
      BY <1>0, <1>s, <2>1 DEF SpanIs
    <2>3. Len(s) \in Nat
      BY <1>3, LenProperties
    <2>4. QED BY <2>2, <2>3
  <1> HIDE DEF P, M, Q, J, k, n, t
  <1>6. A \in Seq(Chars) /\ Len(Sentences(A)) = p + Dots(M) /\ p \in Nat /\ Dots(M) \in Nat
    BY <1>3, SentencesCount
  <1>7. B \in Seq(Chars) /\ Len(Sentences(B)) = p + Dots(J) /\ Dots(J) \in Nat
    BY <1>3, SentencesCount
  <1>q. /\ \A j \in 1..p : Sentences(A)[j] = Sentences(P)[j]
        /\ \A j \in 1..p : Sentences(B)[j] = Sentences(P)[j]
    BY <1>3, SentencesPrefix
  <1>8. A = SubSeq(s, 1, e)
    BY <1>2
  <1> HIDE DEF A, B, p
  <1>9. /\ Len(Sentences(A \o Q)) = Len(Sentences(A)) + Dots(Q) /\ Dots(Q) \in Nat
        /\ \A j \in 1..Len(Sentences(A)) : Sentences(A \o Q)[j] = Sentences(A)[j]
        /\ Sentences(A) \in Seq(Seq(Chars)) /\ Sentences(A \o Q) \in Seq(Seq(Chars))
    BY <1>3, <1>6, SentencesCount, SentencesPrefix
  <1>10. /\ Len(Sentences(B \o Q)) = Len(Sentences(B)) + Dots(Q)
         /\ \A j \in 1..Len(Sentences(B)) : Sentences(B \o Q)[j] = Sentences(B)[j]
         /\ Sentences(B) \in Seq(Seq(Chars)) /\ Sentences(B \o Q) \in Seq(Seq(Chars))
    BY <1>3, <1>7, SentencesCount, SentencesPrefix
  <1> DEFINE from == Sentences(s)
             to == Sentences(t)
             m == Len(Sentences(A))
             l == Len(Sentences(B))
             d == Dots(Q)
  <1>11. from = Sentences(A \o Q) /\ to = Sentences(B \o Q) /\ n = Len(from)
    BY <1>2, Zenon DEF n
  <1>12. n = m + d /\ Len(to) = l + d /\ l = m + k /\ m \in Nat /\ l \in Nat /\ d \in Nat
    <2>1. n = m + d /\ Len(to) = l + d
      BY <1>9, <1>10, <1>11
    <2>2. m = p + Dots(M) /\ l = p + Dots(J)
      BY <1>6, <1>7
    <2>3. p \in Nat /\ Dots(M) \in Nat /\ Dots(J) \in Nat /\ d \in Nat
      BY <1>6, <1>7, <1>9
    <2> HIDE DEF m, l, d, to
    <2>4. l = m + k /\ m \in Nat /\ l \in Nat
      BY <1>4, <1>5, <2>2, <2>3
    <2>5. QED BY <2>1, <2>3, <2>4
  <1>13. p <= m /\ p <= l
    BY <1>6, <1>7
  <1>14. \A j \in 1..p : to[j] = from[j]
    <2> HIDE DEF m, l
    <2>1. ASSUME NEW j \in 1..p PROVE to[j] = from[j]
      <3>1. j \in 1..m /\ j \in 1..l
        BY <1>6, <1>12, <1>13
      <3>2. from[j] = Sentences(P)[j]
        BY <1>9, <1>11, <1>q, <3>1 DEF m
      <3>3. to[j] = Sentences(P)[j]
        BY <1>10, <1>11, <1>q, <3>1 DEF l
      <3>4. QED BY <3>2, <3>3
    <2>2. QED BY <2>1
  <1>15. \A j \in 1..Smaller(i, n) : to[j] = from[j]
    <2>1. ASSUME NEW j \in 1..Smaller(i, n) PROVE j \in 1..p
      BY <1>s, <1>t, <1>p DEF Smaller
    <2>2. QED BY <1>14, <2>1
  <1>16. ASSUME NEW j \in (i + 2)..n
         PROVE  IF j = i + 2 THEN IsSuffix(from[j], to[j + k]) ELSE to[j + k] = from[j]
    <2>1. i < n
      BY <1>s, <1>t
    <2>2. Current(A) = <<>>
      BY <1>3, <1>8, <1>c, <2>1, NothingLeft
    <2>3. m = i + 1
      <3>1. Len(Sentences(A)) = Len(compute_spans(A))
        BY <1>6, SentencesTyped
      <3>2. QED BY <1>8, <1>c, <2>1, <3>1
    <2>4. Sentences(A) # <<>> /\ Sentences(B) # <<>>
      <3> HIDE DEF m, l
      <3>1. m # 0 /\ l # 0 /\ Len(<<>>) = 0
        BY <1>5, <1>12, <1>t, <2>3
      <3>2. QED BY <3>1 DEF m, l
    <2>5. Parallel(A, B, Q)
      BY <1>3, <1>6, <1>7, <2>2, <2>4, AllParallel
    <2>6. /\ \A c \in 2..d : to[l + c] = from[m + c]
          /\ d > 0 => EndsWith(to[l + 1], from[m + 1])
      BY <1>11, <2>5 DEF Parallel
    <2> HIDE DEF m, l, d, from, to
    <2>7. CASE j = i + 2
      <3>1. j = m + 1 /\ j + k = l + 1 /\ d > 0 /\ j \in 1..Len(from) /\ j + k \in 1..Len(to)
        BY <1>5, <1>11, <1>12, <1>t, <1>s, <2>3, <2>7
      <3>2. EndsWith(to[j + k], from[j])
        BY <2>6, <3>1
      <3>3. from \in Seq(Seq(Chars)) /\ to \in Seq(Seq(Chars))
        BY <1>9, <1>10, <1>11
      <3>4. from[j] \in Seq(Chars) /\ to[j + k] \in Seq(Chars)
        BY <3>1, <3>3, ElementOfSeq
      <3>5. IsSuffix(from[j], to[j + k])
        BY <3>2, <3>4, EndsWithSuffix
      <3>6. QED BY <2>7, <3>5
    <2>8. CASE j # i + 2
      <3> DEFINE c == j - m
      <3>1. j = m + c /\ j + k = l + c /\ c \in 2..d
        BY <1>5, <1>12, <1>t, <1>s, <2>3, <2>8
      <3> HIDE DEF c
      <3>2. to[j + k] = from[j]
        BY <2>6, <3>1
      <3>3. QED BY <2>8, <3>2
    <2>9. QED BY <2>7, <2>8
  <1>17. Len(to) = n + k
    <2> HIDE DEF m, l, d, to
    <2>1. QED BY <1>5, <1>12
  <1>18. QED BY <1>11, <1>15, <1>16, <1>17 DEF OthersStay, k, t

-----------------------------------------------------------------------------
(* The invariant.                                                          *)

\* An update the server receives whole and in which the client counts the words right.
Fits(u) == Whole(u.text) /\ ~ StrayReturn(u.text)

\* The client never counts a word more than the engine will have found.
ClientIsBehind ==
    (\A k \in 1..Len(updates) : Fits(updates[k])) =>
        /\ ~ Applied(content, session, updates).failed
        /\ current_word_count <= Len(Applied(content, session, updates).words)

\* An open session is about a sentence of the text or the place behind the last
\* one, for nobody else commits; a commit leaves no carriage return in the text.
Inv ==
    /\ TypeOK
    /\ content \in Seq(Plain)
    /\ session = NoSession => updates = <<>>
    /\ session # NoSession => session \in 0..Len(compute_spans(content)) /\ ClientIsBehind

\* Where a text is counted in, and what a commit makes, are texts.
LEMMA CommitTyped ==
  ASSUME NEW s \in Seq(Plain), NEW i \in 0..Len(compute_spans(s)), NEW list \in Seq(Update)
  PROVE  /\ Committed(s, i, list) \in Seq(Plain)
         /\ Applied(s, i, list) \in ApplyState
  <1>0. PICK a, e : SpanIs(s, i, a, e)
    BY SpanOfText
  <1>1. CommitParts(s, i, list, a, e)
    BY <1>0, CommittedText
  <1> DEFINE P == Before(s, a)
             Q == Behind(s, e)
             J == join_words(Applied(s, i, list).words)
  <1>2. P \in Seq(Plain) /\ Q \in Seq(Plain) /\ J \in Seq(Plain)
        /\ Committed(s, i, list) = (P \o J) \o Q /\ Applied(s, i, list) \in ApplyState
    BY <1>1, Zenon DEF CommitParts
  <1> HIDE DEF P, Q, J
  <1>3. P \o J \in Seq(Plain)
    BY <1>2, ConcatProperties
  <1>4. (P \o J) \o Q \in Seq(Plain)
    BY <1>2, <1>3, ConcatProperties
  <1>5. QED BY <1>2, <1>4, Zenon

\* Before the first update the engine has the words of the sentence.
LEMMA NothingApplied ==
  ASSUME NEW s \in Seq(Plain), NEW i \in 0..Len(compute_spans(s))
  PROVE  /\ ~ Applied(s, i, <<>>).failed
         /\ AckedWords(s, i) \in Nat
         /\ AckedWords(s, i) <= Len(Applied(s, i, <<>>).words)
  <1> DEFINE ws == tokenize_words(SpanText(s, SpanOf(s, i)))
  <1>1. AckedWords(s, i) \in Nat /\ AckedWords(s, i) <= Len(ws) /\ ws \in Lists(Inks)
    BY AckCounts
  <1> HIDE DEF ws
  <1>2. <<>> \in Seq(Update) /\ [index |-> 0, text |-> <<>>] \in Update
    BY DEF Update
  <1>3. apply_updates(ws, <<>>) = [words |-> ws, failed |-> FALSE]
    BY <1>1, <1>2, ApplyAppend
  <1>4. ReceivedOf(<<>>) = <<>>
    BY <1>2, ReceivedAppend
  <1>5. Applied(s, i, <<>>) = [words |-> ws, failed |-> FALSE]
    BY <1>3, <1>4, Zenon DEF Applied, ws
  <1>6. Applied(s, i, <<>>).words = ws /\ Applied(s, i, <<>>).failed = FALSE
    BY <1>5
  <1>7. QED BY <1>1, <1>6

\* Insert adds the new words to the old ones.
LEMMA InsertLength ==
  ASSUME NEW W, NEW ws \in Seq(W), NEW us \in Seq(W), NEW i \in 0..Len(ws)
  PROVE  Len(Insert(ws, i, us)) = Len(ws) + Len(us)
  BY InsertProperties

\* An update the client lets through can be applied, and brings the engine at least
\* as many words as the client has counted.
LEMMA OneMoreApplied ==
  ASSUME NEW s \in Seq(Plain), NEW i \in 0..Len(compute_spans(s)), NEW list \in Seq(Update),
         NEW u \in Update, NEW c \in Nat, Fits(u), u.index <= c,
         ~ Applied(s, i, list).failed, c <= Len(Applied(s, i, list).words)
  PROVE  /\ ~ Applied(s, i, Append(list, u)).failed
         /\ CountWords(u.text) \in Nat
         /\ c + CountWords(u.text) <= Len(Applied(s, i, Append(list, u)).words)
  <1> DEFINE ws == tokenize_words(SpanText(s, SpanOf(s, i)))
             A == Applied(s, i, list)
             B == Applied(s, i, Append(list, u))
             us == InsertedWords(u.text)
             r == ReceivedOf(list)
  <1>1. ws \in Lists(Inks)
    BY AckCounts
  <1>2. A \in ApplyState
    BY CommitTyped
  <1>3. r \in Seq(Update)
    BY ReceivedTyped
  <1>4. ReceivedOf(Append(list, u)) = Append(r, u)
    <2>1. ReceivedOf(Append(list, u)) = Append(r, ReceivedUpdate(u))
      BY ReceivedAppend
    <2>2. ReceivedUpdate(u) = u
      BY ReceivedUpdateTyped DEF Fits
    <2>3. QED BY <2>1, <2>2, Zenon
  <1>5. B = ApplyOne(A, u)
    <2>1. A = apply_updates(ws, r) /\ B = apply_updates(ws, ReceivedOf(Append(list, u)))
      BY DEF Applied
    <2> HIDE DEF A, B, ws, r
    <2>2. apply_updates(ws, Append(r, u)) = ApplyOne(apply_updates(ws, r), u)
      BY <1>1, <1>3, ApplyAppend
    <2>3. QED BY <1>4, <2>1, <2>2, Zenon
  <1>6. ~ A.failed /\ c <= Len(A.words)
    OBVIOUS
  <1> HIDE DEF A, B, ws, r
  <1>7. /\ A.words \in Lists(Inks) /\ Len(A.words) \in Nat
        /\ u.index \in Nat /\ u.text \in Seq(Chars)
        /\ us \in Lists(Inks)
        /\ ~ (A.failed \/ u.index > Len(A.words)) =>
             /\ u.index \in 0..Len(A.words)
             /\ ~ ApplyOne(A, u).failed
             /\ ApplyOne(A, u).words = Insert(A.words, u.index, us)
    BY <1>2, ApplyOneTyped
  <1>8. ~ (A.failed \/ u.index > Len(A.words))
    BY <1>6, <1>7
  <1>9. u.index \in 0..Len(A.words) /\ ~ B.failed /\ B.words = Insert(A.words, u.index, us)
    BY <1>5, <1>7, <1>8, Zenon
  <1>10. Len(B.words) = Len(A.words) + Len(us)
    <2> DEFINE W == Word(Inks)
               k == u.index
               v == A.words
    <2>1. v \in Seq(W)
      BY <1>7 DEF Lists
    <2>2. us \in Seq(W)
      BY <1>7 DEF Lists
    <2>3. k \in 0..Len(v)
      BY <1>9
    <2> HIDE DEF W, k, us, v
    <2>4. Len(Insert(v, k, us)) = Len(v) + Len(us)
      BY <2>1, <2>2, <2>3, InsertLength
    <2>5. QED BY <1>9, <2>4, Zenon DEF k, v
  <1>11. CountWords(u.text) <= Len(us) /\ CountWords(u.text) \in Nat /\ Len(us) \in Nat
    <2> DEFINE w == u.text
    <2>1. w \in Seq(Chars) /\ ~ StrayReturn(w)
      BY <1>7 DEF Fits
    <2> HIDE DEF w
    <2>2. Len(Words(w, {" "})) <= Len(Words(w, White))
      BY <2>1, ClientCountsFewer
    <2>3. Len(Words(w, {" "})) \in Nat /\ Len(Words(w, White)) \in Nat
      BY <2>1, WordsTyped
    <2>4. CountWords(w) = Len(Words(w, {" "})) /\ InsertedWords(w) = Words(w, White)
      BY DEF CountWords, InsertedWords, White
    <2>5. QED BY <2>2, <2>3, <2>4 DEF w
  <1> HIDE DEF us
  <1>12. c + CountWords(u.text) <= Len(B.words)
    BY <1>6, <1>7, <1>10, <1>11
  <1>13. QED BY <1>9, <1>11, <1>12 DEF B

\* The invariant holds of an empty file without a session.
LEMMA InvInit ==
  Init => Inv
  <1>1. SUFFICES ASSUME Init PROVE Inv
    OBVIOUS
  <1>2. <<>> \in Seq(Chars) /\ <<>> \in Seq(Plain) /\ <<>> \in Seq(Update)
    OBVIOUS
  <1>3. TypeOK
    BY <1>1, <1>2 DEF Init, TypeOK, NoCommit
  <1>4. QED BY <1>1, <1>2, <1>3 DEF Init, Inv

\* With the session closed only the text and the histories matter.
LEMMA InvClosed ==
  ASSUME Inv, Closed, content' \in Seq(Plain), refused' \in Seq(Update),
         old' \in [content : Seq(Chars), sentence : Nat \cup {NoSession}, updates : Seq(Update)]
  PROVE  Inv'
  <1>1. content' \in Seq(Chars)
    BY PlainChars, SeqMonotonic
  <1>2. <<>> \in Seq(Update) /\ 0 \in Nat
    OBVIOUS
  <1>3. TypeOK'
    BY <1>1, <1>2 DEF TypeOK, Closed
  <1>4. QED BY <1>3 DEF Inv, Closed

\* Lock keeps the invariant: the client is told no more words than the engine finds.
LEMMA InvLock ==
  ASSUME Inv, NEW i \in 0..MaxLength, Lock(i)
  PROVE  Inv'
  <1>1. session = NoSession /\ updates = <<>> /\ i <= Len(compute_spans(content))
        /\ session' = i /\ current_word_count' = AckedWords(content, i)
        /\ refused' = <<>> /\ old' = NoCommit /\ content' = content /\ updates' = updates
    BY DEF Inv, Lock
  <1>2. content \in Seq(Plain) /\ content \in Seq(Chars) /\ TypeOK
    BY DEF Inv, TypeOK
  <1>3. Len(compute_spans(content)) \in Nat
    BY <1>2, SentencesTyped
  <1>4. i \in Nat
    OBVIOUS
  <1>5. i \in 0..Len(compute_spans(content))
    BY <1>1, <1>3, <1>4
  <1>6. /\ ~ Applied(content, i, <<>>).failed
        /\ AckedWords(content, i) \in Nat
        /\ AckedWords(content, i) <= Len(Applied(content, i, <<>>).words)
    BY <1>2, <1>5, NothingApplied
  <1>7. <<>> \in Seq(Update) /\ <<>> \in Seq(Chars)
    OBVIOUS
  <1>8. NoCommit \in [content : Seq(Chars), sentence : Nat \cup {NoSession}, updates : Seq(Update)]
    BY <1>7 DEF NoCommit
  <1>9. TypeOK'
    BY <1>1, <1>2, <1>4, <1>6, <1>7, <1>8 DEF TypeOK
  <1>10. ClientIsBehind'
    BY <1>1, <1>6 DEF ClientIsBehind
  <1>11. QED BY <1>1, <1>2, <1>4, <1>5, <1>9, <1>10 DEF Inv, NoSession

\* cmd_write keeps the invariant: the count it checks indices against stays behind.
LEMMA InvTypeUpdate ==
  ASSUME Inv, NEW index \in 0..MaxLength, NEW text \in Inputs, TypeUpdate(index, text)
  PROVE  Inv'
  <1> DEFINE u == [index |-> index, text |-> text]
             c == current_word_count
  <1>1. /\ session # NoSession /\ index <= c
        /\ updates' = Append(updates, u) /\ c' = c + CountWords(text)
        /\ content' = content /\ session' = session /\ refused' = refused /\ old' = old
    BY DEF TypeUpdate
  <1>2. /\ content \in Seq(Plain) /\ TypeOK /\ session \in 0..Len(compute_spans(content))
        /\ ClientIsBehind
    BY <1>1 DEF Inv
  <1>3. updates \in Seq(Update) /\ c \in Nat
    BY <1>2 DEF TypeOK
  <1>4. text \in Seq(Chars) /\ index \in Nat
    BY TextAssumption
  <1>5. u \in Update /\ u.text = text /\ u.index = index
    BY <1>4 DEF Update
  <1> HIDE DEF u
  <1>6. /\ Append(updates, u) \in Seq(Update)
        /\ Len(Append(updates, u)) = Len(updates) + 1 /\ Len(updates) \in Nat
        /\ Append(updates, u)[Len(updates) + 1] = u
        /\ \A k \in 1..Len(updates) : Append(updates, u)[k] = updates[k]
    BY <1>3, <1>5, AppendProperties, LenProperties
  <1>7. CountWords(text) \in Nat
    BY <1>4, WordsTyped DEF CountWords
  <1>8. TypeOK'
    BY <1>1, <1>2, <1>3, <1>6, <1>7 DEF TypeOK
  <1>9. ClientIsBehind'
    <2>1. SUFFICES ASSUME \A k \in 1..Len(Append(updates, u)) : Fits(Append(updates, u)[k])
                   PROVE  /\ ~ Applied(content, session, Append(updates, u)).failed
                          /\ c + CountWords(text) <= Len(Applied(content, session, Append(updates, u)).words)
      BY <1>1 DEF ClientIsBehind
    <2>2. Fits(u)
      <3>1. Len(updates) + 1 \in 1..Len(Append(updates, u))
        BY <1>6
      <3>2. QED BY <1>6, <2>1, <3>1
    <2>3. \A k \in 1..Len(updates) : Fits(updates[k])
      <3>1. ASSUME NEW k \in 1..Len(updates) PROVE Fits(updates[k])
        <4>1. k \in 1..Len(Append(updates, u)) /\ Append(updates, u)[k] = updates[k]
          BY <1>6
        <4>2. Fits(Append(updates, u)[k])
          BY <2>1, <4>1
        <4>3. QED BY <4>1, <4>2, Zenon
      <3>2. QED BY <3>1
    <2>4. /\ ~ Applied(content, session, updates).failed
          /\ c <= Len(Applied(content, session, updates).words)
      BY <1>2, <2>3 DEF ClientIsBehind
    <2>5. u.index <= c
      BY <1>1, <1>5
    <2>6. /\ ~ Applied(content, session, Append(updates, u)).failed
          /\ c + CountWords(u.text) <= Len(Applied(content, session, Append(updates, u)).words)
      BY <1>2, <1>3, <1>5, <2>2, <2>4, <2>5, OneMoreApplied
    <2>7. QED BY <1>5, <2>6
  <1>10. QED BY <1>1, <1>2, <1>8, <1>9 DEF Inv

\* What CommitOK does, in terms of the text it starts from.
LEMMA CommitFacts ==
  ASSUME Inv, session # NoSession
  PROVE  /\ content \in Seq(Plain) /\ content \in Seq(Chars)
         /\ session \in 0..Len(compute_spans(content)) /\ session \in Nat
         /\ updates \in Seq(Update)
         /\ CommitOK => /\ content' = Committed(content, session, updates)
                        /\ ~ Applied(content, session, updates).failed
                        /\ old' = [content |-> content, sentence |-> session, updates |-> updates]
                        /\ refused' = refused /\ Closed
         /\ CommitRefused => /\ Applied(content, session, updates).failed
                             /\ refused' = updates /\ Closed
                             /\ content' = content /\ old' = old
  <1>1. content \in Seq(Plain) /\ session \in 0..Len(compute_spans(content)) /\ TypeOK
    BY DEF Inv
  <1>2. content \in Seq(Chars) /\ updates \in Seq(Update)
    BY <1>1 DEF TypeOK
  <1>3. session \in Nat
    BY <1>1
  <1>4. Received = ReceivedOf(updates)
    BY DEF Received, ReceivedOf, ReceivedUpdate
  <1>5. Applied(content, session, updates)
          = apply_updates(tokenize_words(SpanText(content, SpanOf(content, session))), Received)
    BY <1>4 DEF Applied
  <1>6. Committed(content, session, updates)
          = write_new_content(content, SpanOf(content, session),
                              join_words(Applied(content, session, updates).words))
    BY DEF Committed
  <1>7. ASSUME CommitOK
        PROVE  /\ content' = Committed(content, session, updates)
               /\ ~ Applied(content, session, updates).failed
               /\ old' = [content |-> content, sentence |-> session, updates |-> updates]
               /\ refused' = refused /\ Closed
    BY <1>5, <1>6, <1>7, Zenon DEF CommitOK
  <1>8. ASSUME CommitRefused
        PROVE  /\ Applied(content, session, updates).failed
               /\ refused' = updates /\ Closed
               /\ content' = content /\ old' = old
    BY <1>5, <1>8, Zenon DEF CommitRefused
  <1>9. QED BY <1>1, <1>2, <1>3, <1>7, <1>8

\* A commit keeps the invariant: it writes no carriage return.
LEMMA InvCommitOK ==
  ASSUME Inv, CommitOK
  PROVE  Inv'
  <1>1. session # NoSession
    BY DEF CommitOK
  <1>2. /\ content \in Seq(Plain) /\ content \in Seq(Chars)
        /\ session \in 0..Len(compute_spans(content)) /\ session \in Nat
        /\ updates \in Seq(Update)
        /\ content' = Committed(content, session, updates)
        /\ old' = [content |-> content, sentence |-> session, updates |-> updates]
        /\ refused' = refused /\ Closed
    BY <1>1, CommitFacts
  <1>3. content' \in Seq(Plain)
    BY <1>2, CommitTyped
  <1>4. refused' \in Seq(Update)
    BY <1>2 DEF Inv, TypeOK
  <1>5. old' \in [content : Seq(Chars), sentence : Nat \cup {NoSession}, updates : Seq(Update)]
    BY <1>2
  <1>6. QED BY <1>2, <1>3, <1>4, <1>5, InvClosed

\* A refused commit keeps the invariant.
LEMMA InvCommitRefused ==
  ASSUME Inv, CommitRefused
  PROVE  Inv'
  <1>1. session # NoSession
    BY DEF CommitRefused
  <1>2. /\ content \in Seq(Plain) /\ updates \in Seq(Update)
        /\ content' = content /\ refused' = updates /\ old' = old /\ Closed
    BY <1>1, CommitFacts
  <1>3. old' \in [content : Seq(Chars), sentence : Nat \cup {NoSession}, updates : Seq(Update)]
    BY <1>2 DEF Inv, TypeOK
  <1>4. QED BY <1>2, <1>3, InvClosed

\* A client that leaves keeps the invariant.
LEMMA InvAbandon ==
  ASSUME Inv, Abandon
  PROVE  Inv'
  <1>1. content' \in Seq(Plain) /\ refused' \in Seq(Update) /\ Closed
    BY DEF Abandon, Inv, TypeOK
  <1>2. old' \in [content : Seq(Chars), sentence : Nat \cup {NoSession}, updates : Seq(Update)]
    BY DEF Abandon, Inv, TypeOK
  <1>3. QED BY <1>1, <1>2, InvClosed

\* Nothing changes.
LEMMA InvStutters ==
  ASSUME Inv, UNCHANGED vars
  PROVE  Inv'
  <1>1. /\ content' = content /\ session' = session /\ updates' = updates
        /\ current_word_count' = current_word_count /\ refused' = refused /\ old' = old
    BY DEF vars
  <1>2. QED BY <1>1, Zenon DEF Inv, TypeOK, ClientIsBehind

\* The invariant holds in every state of the specification.
LEMMA InvHolds == Spec => []Inv
  <1>1. Inv /\ [Next]_vars => Inv'
    <2>1. SUFFICES ASSUME Inv, [Next]_vars PROVE Inv'
      OBVIOUS
    <2>2. CASE \E i \in 0..MaxLength : Lock(i)
      BY <2>1, <2>2, InvLock
    <2>3. CASE \E index \in 0..MaxLength, text \in Inputs : TypeUpdate(index, text)
      BY <2>1, <2>3, InvTypeUpdate
    <2>4. CASE CommitOK
      BY <2>1, <2>4, InvCommitOK
    <2>5. CASE CommitRefused
      BY <2>1, <2>5, InvCommitRefused
    <2>6. CASE Abandon
      BY <2>1, <2>6, InvAbandon
    <2>7. CASE UNCHANGED vars
      BY <2>1, <2>7, InvStutters
    <2>8. QED BY <2>1, <2>2, <2>3, <2>4, <2>5, <2>6, <2>7 DEF Next
  <1>2. QED BY InvInit, <1>1, PTL DEF Spec

-----------------------------------------------------------------------------
(* What the functions compute.                                             *)

\* The variables hold texts, updates and counts, whatever users type and however
\* the server's buffers cut it.
THEOREM TypeCorrect == Spec => []TypeOK
  <1>1. Inv => TypeOK
    BY DEF Inv
  <1>2. QED BY InvHolds, <1>1, PTL

\* compute_spans cuts every text that sessions can make into its sentences: each
\* ends with its one delimiter and begins behind white space, none is lost.
THEOREM SpansHold == Spec => []SpansAreSentences
  <1>1. Inv => SpansAreSentences
    BY TextIsParsed DEF Inv, TypeOK
  <1>2. QED BY InvHolds, <1>1, PTL

\* The word count handle_write_request sends with the lock is the one the engine
\* will find with functions of its own, or smaller for a sentence cut to a buffer.
THEOREM AckHolds == Spec => []AckCountsEngineWords
  <1>1. Inv => AckCountsEngineWords
    <2>0. SUFFICES ASSUME Inv PROVE AckCountsEngineWords
      OBVIOUS
    <2>1. content \in Seq(Plain)
      BY <2>0 DEF Inv
    <2> DEFINE Good(i) == LET text == SpanText(content, SpanOf(content, i))
                              engine == Len(tokenize_words(text))
                          IN  /\ AckedWords(content, i) <= engine
                              /\ Len(text) <= SentenceSize => AckedWords(content, i) = engine
    <2>2. ASSUME NEW i \in 0..Len(compute_spans(content)) PROVE Good(i)
      BY <2>1, AckCounts
    <2> HIDE DEF Good
    <2>3. \A i \in 0..Len(compute_spans(content)) : Good(i)
      BY <2>2
    <2>4. QED BY <2>3 DEF AckCountsEngineWords, Good
  <1>2. QED BY InvHolds, <1>1, PTL

\* What an update has that may be refused.
LEMMA RefusedUpdate ==
  ASSUME Inv, CommitRefused
  PROVE  AcceptedUpdatesApply'
  <1>1. session # NoSession
    BY DEF CommitRefused
  <1>2. updates \in Seq(Update) /\ refused' = updates /\ Applied(content, session, updates).failed
    BY <1>1, CommitFacts
  <1>3. ClientIsBehind
    BY <1>1 DEF Inv
  <1>4. PICK k \in 1..Len(updates) : ~ Fits(updates[k])
    BY <1>2, <1>3 DEF ClientIsBehind
  <1>5. DOMAIN updates = 1..Len(updates) /\ updates[k] \in Update
    BY <1>2, LenProperties, ElementOfSeq
  <1> DEFINE text == updates[k].text
  <1>6. ~ Whole(text) \/ StrayReturn(text)
    BY <1>4 DEF Fits
  <1>7. k \in DOMAIN refused' /\ refused'[k].text = text
    BY <1>2, <1>5
  <1>8. QED BY <1>6, <1>7 DEF AcceptedUpdatesApply

\* A commit of what cmd_write lets through storage_engine_write refuses only for an
\* update that json_get_string has not got whole (it is longer than the server's
\* buffer or has a double quote in it) or a carriage return at the beginning of
\* what the client takes for a word.
THEOREM AcceptedHolds == Spec => []AcceptedUpdatesApply
  <1>1. Init => AcceptedUpdatesApply
    BY DEF Init, AcceptedUpdatesApply
  <1>2. Inv /\ AcceptedUpdatesApply /\ [Next]_vars => AcceptedUpdatesApply'
    <2>1. SUFFICES ASSUME Inv, AcceptedUpdatesApply, [Next]_vars PROVE AcceptedUpdatesApply'
      OBVIOUS
    <2>2. CASE refused' = <<>>
      BY <2>2 DEF AcceptedUpdatesApply
    <2>3. CASE refused' = refused
      BY <2>1, <2>3 DEF AcceptedUpdatesApply
    <2>4. CASE CommitRefused
      BY <2>1, <2>4, RefusedUpdate
    <2>5. refused' = <<>> \/ refused' = refused \/ CommitRefused
      BY <2>1 DEF Next, Lock, TypeUpdate, CommitOK, Abandon, vars
    <2>6. QED BY <2>2, <2>3, <2>4, <2>5
  <1>3. QED BY InvHolds, <1>1, <1>2, PTL DEF Spec

\* Which steps there are for the text and the history of the last commit.
LEMMA TextSteps ==
  ASSUME [Next]_vars
  PROVE  (content' = content /\ old' = old) \/ old' = NoCommit \/ CommitOK
  BY DEF Next, Lock, TypeUpdate, CommitRefused, Abandon, vars

\* The text after a commit.
LEMMA CommitInserted ==
  ASSUME Inv, CommitOK
  PROVE  CommitInserts'
  <1>1. session # NoSession
    BY DEF CommitOK
  <1>2. /\ content \in Seq(Plain) /\ session \in 0..Len(compute_spans(content))
        /\ updates \in Seq(Update)
        /\ content' = Committed(content, session, updates)
        /\ ~ Applied(content, session, updates).failed
        /\ old' = [content |-> content, sentence |-> session, updates |-> updates]
    BY <1>1, CommitFacts
  <1> DEFINE Put(s, i, u, t) ==
               LET span == SpanOf(s, i)
                   words == tokenize_words(SpanText(s, span))
                   inFront == Ink(SubSeq(s, 1, span.start - 1)) \o FlattenSeq(SubSeq(words, 1, u.index))
                   behind == SubSeq(Ink(s), Len(inFront) + 1, Len(Ink(s)))
               IN  Ink(t) = inFront \o Ink(u.text) \o behind
             u == updates[1]
  <1>3. ASSUME Len(updates) = 1, Whole(u.text) PROVE Put(content, session, u, content')
    <2>1. u \in Update /\ updates = <<u>>
      <3>1. updates \in Seq(Update) /\ Len(updates) = 1
        BY <1>2, <1>3
      <3>2. QED BY ONLY <3>1
    <2> HIDE DEF u
    <2>2. ~ Applied(content, session, <<u>>).failed /\ content' = Committed(content, session, <<u>>)
      BY <1>2, <2>1, Zenon
    <2>3. Whole(u.text)
      BY <1>3
    <2>4. Put(content, session, u, Committed(content, session, <<u>>))
      BY <1>2, <2>1, <2>2, <2>3, CommitPutsIn
    <2> HIDE DEF Put
    <2>5. QED BY <2>2, <2>4, Zenon
  <1>4. old'.content = content /\ old'.sentence = session /\ old'.updates = updates
    BY <1>2
  <1> HIDE DEF Put
  <1>5. (Len(old'.updates) = 1 /\ Whole(old'.updates[1].text))
           => Put(old'.content, old'.sentence, old'.updates[1], content')
    BY <1>3, <1>4, Zenon
  <1>6. QED BY <1>5 DEF CommitInserts, Put

\* storage_engine_write puts the new words where the client's index points and keeps
\* every other character but white space, in its order.
THEOREM InsertsHold == Spec => []CommitInserts
  <1>0. ASSUME old.updates = <<>> PROVE CommitInserts
    BY <1>0 DEF CommitInserts
  <1>1. Init => CommitInserts
    BY <1>0 DEF Init, NoCommit
  <1>2. Inv /\ CommitInserts /\ [Next]_vars => CommitInserts'
    <2>1. SUFFICES ASSUME Inv, CommitInserts, [Next]_vars PROVE CommitInserts'
      OBVIOUS
    <2>2. CASE content' = content /\ old' = old
      BY <2>1, <2>2, Zenon DEF CommitInserts
    <2>3. CASE old' = NoCommit
      <3>1. old'.updates = <<>>
        BY <2>3 DEF NoCommit
      <3>2. Len(<<>>) # 1
        OBVIOUS
      <3>3. Len(old'.updates) # 1
        BY <3>1, <3>2, Zenon
      <3>4. QED BY <3>3, Zenon DEF CommitInserts
    <2>4. CASE CommitOK
      BY <2>1, <2>4, CommitInserted
    <2>5. QED BY <2>1, <2>2, <2>3, <2>4, TextSteps
  <1>3. QED BY InvHolds, <1>1, <1>2, PTL DEF Spec

\* The sentences after a commit.
LEMMA CommitKept ==
  ASSUME Inv, CommitOK
  PROVE  CommitKeepsOtherSentences'
  <1>1. session # NoSession
    BY DEF CommitOK
  <1>2. /\ content \in Seq(Plain) /\ session \in 0..Len(compute_spans(content))
        /\ updates \in Seq(Update)
        /\ content' = Committed(content, session, updates)
        /\ ~ Applied(content, session, updates).failed
        /\ old' = [content |-> content, sentence |-> session, updates |-> updates]
    BY <1>1, CommitFacts
  <1>3. OthersStay(content, session, updates, content')
    <2>1. OthersStay(content, session, updates, Committed(content, session, updates))
      BY <1>2, CommitLeavesOthers
    <2>2. QED BY <1>2, <2>1, Zenon
  <1>4. old'.content = content /\ old'.sentence = session /\ old'.updates = updates
    BY <1>2
  <1>5. OthersStay(old'.content, old'.sentence, old'.updates, content')
    BY <1>3, <1>4, Zenon
  <1>6. QED BY <1>5, Zenon DEF CommitKeepsOtherSentences, OthersStay

\* A commit to one sentence leaves the sentences in front of it and behind it as
\* they were, with as many new ones in between as delimiters have arrived.
THEOREM OthersKept == Spec => []CommitKeepsOtherSentences
  <1>1. Init => CommitKeepsOtherSentences
    BY DEF Init, NoCommit, CommitKeepsOtherSentences
  <1>2. Inv /\ CommitKeepsOtherSentences /\ [Next]_vars => CommitKeepsOtherSentences'
    <2>1. SUFFICES ASSUME Inv, CommitKeepsOtherSentences, [Next]_vars
                   PROVE  CommitKeepsOtherSentences'
      OBVIOUS
    <2>2. CASE content' = content /\ old' = old
      BY <2>1, <2>2, Zenon DEF CommitKeepsOtherSentences
    <2>3. CASE old' = NoCommit
      <3>1. old'.sentence = NoSession
        BY <2>3 DEF NoCommit
      <3>2. QED BY <3>1, Zenon DEF CommitKeepsOtherSentences
    <2>4. CASE CommitOK
      BY <2>1, <2>4, CommitKept
    <2>5. QED BY <2>1, <2>2, <2>3, <2>4, TextSteps
  <1>3. QED BY InvHolds, <1>1, <1>2, PTL DEF Spec
=============================================================================
