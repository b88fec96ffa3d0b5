------------------------------ MODULE DataFacts -------------------------------
(* Facts that the proofs about the algorithms of this code need: that a set   *)
(* of numbers has a least element, that a loop with a measure ends and keeps  *)
(* its invariant, that a recursion over numbers defines a function, and what  *)
(* the operators on sequences return, whatever the sequences hold.            *)
EXTENDS Naturals, FiniteSets, SequencesExt, Functions, FiniteSetTheorems, SequenceTheorems,
        WellFoundedInduction, TLAPS

LEMMA LessRelation == OpToRel(<, Nat) = {ss \in Nat \X Nat : ss[1] < ss[2]}
BY DEF OpToRel

\* Every set of numbers that is not empty has a least element.
LEMMA LeastNumber ==
    ASSUME NEW T \in SUBSET Nat, T # {}
    PROVE  \E x \in T : \A y \in T : x <= y
<1>1. \E x \in T : \A y \in T : ~(<<y, x>> \in OpToRel(<, Nat))
  BY WFMin, NatLessThanWellFounded, Zenon
<1>2. PICK x \in T : \A y \in T : ~(<<y, x>> \in OpToRel(<, Nat))
  BY <1>1
<1>3. \A y \in T : ~(y < x)
  BY <1>2, LessRelation
<1> QED BY <1>3

\* A set of numbers that is not empty and bounded has a greatest element.
LEMMA GreatestNumber ==
    ASSUME NEW n \in Nat, NEW T \in SUBSET (1 .. n), T # {}
    PROVE  \E x \in T : \A y \in T : y <= x
<1> DEFINE R == {k \in Nat : \E y \in T : k = n - y}
<1>1. R \in SUBSET Nat /\ R # {}
  <2>1. PICK y \in T : TRUE
    OBVIOUS
  <2>2. n - y \in R
    BY <2>1
  <2> QED BY <2>2
<1>2. PICK k \in R : \A l \in R : k <= l
  <2> HIDE DEF R
  <2> QED BY <1>1, LeastNumber
<1>3. PICK x \in T : k = n - x
  BY <1>2
<1>4. ASSUME NEW y \in T PROVE y <= x
  <2>1. n - y \in R /\ y \in 1 .. n /\ x \in 1 .. n
    OBVIOUS
  <2>2. k <= n - y
    BY <1>2, <2>1
  <2> QED BY <1>3, <2>1, <2>2
<1> QED BY <1>4

\* A set of numbers that holds each number below which it holds all is Nat.
LEMMA AllNumbers ==
    ASSUME NEW T \in SUBSET Nat, \A n \in Nat : (\A k \in 0 .. n - 1 : k \in T) => n \in T
    PROVE  T = Nat
<1> SUFFICES ASSUME T # Nat PROVE FALSE
  OBVIOUS
<1>1. PICK x \in Nat \ T : \A y \in Nat \ T : x <= y
  BY LeastNumber
<1>2. \A k \in 0 .. x - 1 : k \in T
  BY <1>1
<1> QED BY <1>1, <1>2

----------------------------------------------------------------------------
(* A loop: the states, those where it ends, its step and a measure that goes  *)
(* down with every step.                                                      *)

Goes(S, done, step, m) ==
    /\ done \in SUBSET S /\ step \in [S -> S] /\ m \in [S -> Nat]
    /\ \A s \in S \ done : m[step[s]] < m[s]

\* The function of a loop on the states with a measure below n.
Part(g, n, S, done, step, m) ==
    g = [s \in {t \in S : m[t] < n} |-> IF s \in done THEN s ELSE g[step[s]]]

\* Two parts of the loop agree where both are defined.
LEMMA PartsAgree ==
    ASSUME NEW S, NEW done, NEW step, NEW m, Goes(S, done, step, m),
           NEW g, NEW h, NEW n \in Nat, NEW k \in Nat,
           Part(g, n, S, done, step, m), Part(h, k, S, done, step, m)
    PROVE  \A s \in S : m[s] < n /\ m[s] < k => g[s] = h[s]
<1> DEFINE T == {i \in Nat : \A s \in S : m[s] = i /\ i < n /\ i < k => g[s] = h[s]}
<1>1. ASSUME NEW i \in Nat, \A j \in 0 .. i - 1 : j \in T PROVE i \in T
  <2>1. ASSUME NEW s \in S, m[s] = i, i < n, i < k PROVE g[s] = h[s]
    <3>1. g[s] = (IF s \in done THEN s ELSE g[step[s]]) /\ h[s] = (IF s \in done THEN s ELSE h[step[s]])
      BY <2>1 DEF Part
    <3>2. CASE s \in done
      BY <3>1, <3>2
    <3>3. CASE s \notin done
      <4>1. step[s] \in S /\ m[step[s]] \in Nat /\ m[step[s]] < i
        BY <2>1, <3>3 DEF Goes
      <4>2. m[step[s]] \in T
        BY <1>1, <4>1
      <4>3. g[step[s]] = h[step[s]]
        BY <4>1, <4>2, <2>1
      <4> QED BY <3>1, <3>3, <4>3
    <3> QED BY <3>2, <3>3
  <2> QED BY <2>1
<1>2. T = Nat
  BY <1>1, AllNumbers
<1> QED BY <1>2 DEF Goes

\* The loop as far as the measure n is a function.
LEMMA PartExists ==
    ASSUME NEW S, NEW done, NEW step, NEW m, Goes(S, done, step, m), NEW n \in Nat
    PROVE  \E g : Part(g, n, S, done, step, m)
<1> DEFINE T == {i \in Nat : \E g : Part(g, i, S, done, step, m)}
<1>1. ASSUME NEW i \in Nat, \A j \in 0 .. i - 1 : j \in T PROVE i \in T
  <2>1. CASE i = 0
    <3>1. Part(<<>>, 0, S, done, step, m)
      BY DEF Part, Goes
    <3> QED BY <2>1, <3>1
  <2>2. CASE i > 0
    <3>1. i - 1 \in T
      BY <1>1, <2>2
    <3>2. PICK g : Part(g, i - 1, S, done, step, m)
      BY <3>1
    <3> DEFINE h == [s \in {t \in S : m[t] < i} |-> IF s \in done THEN s ELSE g[step[s]]]
    <3>3. ASSUME NEW s \in S, m[s] < i, s \notin done PROVE g[step[s]] = h[step[s]]
      <4>1. step[s] \in S /\ m[step[s]] \in Nat /\ m[step[s]] < i - 1
        BY <3>3, <2>2 DEF Goes
      <4>2. g[step[s]] = IF step[s] \in done THEN step[s] ELSE g[step[step[s]]]
        BY <3>2, <4>1 DEF Part
      <4> QED BY <4>1, <4>2, <2>2
    <3>4. h = [s \in {t \in S : m[t] < i} |-> IF s \in done THEN s ELSE h[step[s]]]
      <4> HIDE DEF h
      <4>1. h = [s \in {t \in S : m[t] < i} |-> IF s \in done THEN s ELSE g[step[s]]]
        BY DEF h
      <4> QED BY <3>3, <4>1
    <3>5. Part(h, i, S, done, step, m)
      BY <3>4 DEF Part
    <3> QED BY <3>5
  <2> QED BY <2>1, <2>2
<1>2. T = Nat
  BY <1>1, AllNumbers
<1> QED BY <1>2

\* The recursive function of a loop exists.
LEMMA LoopExists ==
    ASSUME NEW S, NEW done, NEW step, NEW m, Goes(S, done, step, m)
    PROVE  \E f : f = [s \in S |-> IF s \in done THEN s ELSE f[step[s]]]
<1> DEFINE part(n) == CHOOSE g : Part(g, n, S, done, step, m)
           f == [s \in S |-> part(m[s] + 1)[s]]
<1>1. \A n \in Nat : Part(part(n), n, S, done, step, m)
  BY PartExists
<1> HIDE DEF part
<1>2. ASSUME NEW s \in S PROVE f[s] = IF s \in done THEN s ELSE f[step[s]]
  <2>1. m[s] \in Nat /\ m[s] + 1 \in Nat /\ m[s] < m[s] + 1
    BY DEF Goes
  <2>2. f[s] = IF s \in done THEN s ELSE part(m[s] + 1)[step[s]]
    BY <1>1, <2>1 DEF Part
  <2>3. CASE s \in done
    BY <2>2, <2>3
  <2>4. CASE s \notin done
    <3>1. step[s] \in S /\ m[step[s]] \in Nat /\ m[step[s]] < m[s]
      BY <2>4 DEF Goes
    <3>2. part(m[s] + 1)[step[s]] = part(m[step[s]] + 1)[step[s]]
      <4>1. m[step[s]] + 1 \in Nat /\ m[step[s]] < m[step[s]] + 1 /\ m[step[s]] < m[s] + 1
        BY <3>1, <2>1
      <4>2. Part(part(m[s] + 1), m[s] + 1, S, done, step, m)
        BY <1>1, <2>1
      <4>3. Part(part(m[step[s]] + 1), m[step[s]] + 1, S, done, step, m)
        BY <1>1, <4>1
      <4> QED BY <4>1, <4>2, <4>3, <2>1, <3>1, PartsAgree
    <3> QED BY <2>2, <2>4, <3>1, <3>2
  <2> QED BY <2>3, <2>4
<1>3. f = [s \in S |-> IF s \in done THEN s ELSE f[step[s]]]
  BY <1>2, Zenon
<1> QED BY <1>3, Zenon

\* What every step keeps holds of the state the loop ends in.
LEMMA LoopKeeps ==
    ASSUME NEW S, NEW done, NEW step, NEW m, Goes(S, done, step, m),
           NEW f, f = [s \in S |-> IF s \in done THEN s ELSE f[step[s]]],
           NEW I \in SUBSET S, \A s \in I \ done : step[s] \in I, NEW start \in I
    PROVE  f[start] \in I \cap done
<1> DEFINE T == {i \in Nat : \A s \in I : m[s] = i => f[s] \in I \cap done}
<1>1. ASSUME NEW i \in Nat, \A j \in 0 .. i - 1 : j \in T PROVE i \in T
  <2>1. ASSUME NEW s \in I, m[s] = i PROVE f[s] \in I \cap done
    <3>0. f[s] = IF s \in done THEN s ELSE f[step[s]]
      OBVIOUS
    <3>1. CASE s \in done
      BY <3>0, <3>1
    <3>2. CASE s \notin done
      <4>1. step[s] \in I /\ m[step[s]] \in Nat /\ m[step[s]] < i
        BY <2>1, <3>2 DEF Goes
      <4>2. m[step[s]] \in 0 .. i - 1
        BY <4>1
      <4>3. m[step[s]] \in T
        BY <1>1, <4>2
      <4> QED BY <3>0, <3>2, <4>1, <4>3
    <3> QED BY <3>1, <3>2
  <2> QED BY <2>1
<1>2. T = Nat
  BY <1>1, AllNumbers
<1> QED BY <1>2 DEF Goes

----------------------------------------------------------------------------
(* A value that is made of the one before it, n times.                        *)
Repeats(g, N, A, a, next) ==
    g \in [0 .. N -> A] /\ g[0] = a /\ \A n \in 1 .. N : g[n] = next[<<n, g[n - 1]>>]

\* A recursion over 0 .. N defines a function.
LEMMA RecursionExists ==
    ASSUME NEW N \in Nat, NEW A, NEW a \in A, NEW next \in [(1 .. N) \X A -> A]
    PROVE  \E g : Repeats(g, N, A, a, next)
<1> DEFINE Up(g, m) == g \in [0 .. m -> A] /\ g[0] = a /\ \A n \in 1 .. m : g[n] = next[<<n, g[n - 1]>>]
           T == {m \in Nat : m <= N => \E g : Up(g, m)}
<1>1. ASSUME NEW m \in Nat, \A k \in 0 .. m - 1 : k \in T PROVE m \in T
  <2>1. CASE m = 0
    <3>1. Up([n \in 0 .. 0 |-> a], 0)
      OBVIOUS
    <3> QED BY <2>1, <3>1
  <2>2. CASE m > 0 /\ m <= N
    <3>0. m - 1 \in 0 .. m - 1 /\ m - 1 <= N
      BY <2>2
    <3>1. m - 1 \in T
      BY ONLY <1>1, <3>0
    <3>2. PICK g : Up(g, m - 1)
      BY <3>0, <3>1
    <3> DEFINE h == [n \in 0 .. m |-> IF n = m THEN next[<<m, g[m - 1]>>] ELSE g[n]]
    <3>3. g[m - 1] \in A /\ m \in 1 .. N
      BY <3>2, <2>2
    <3>4. next[<<m, g[m - 1]>>] \in A
      BY <3>3
    <3>5. h \in [0 .. m -> A] /\ h[0] = a
      BY <3>2, <3>4, <2>2
    <3>6. ASSUME NEW n \in 1 .. m PROVE h[n] = next[<<n, h[n - 1]>>]
      <4>1. CASE n = m
        <5>1. h[n - 1] = g[m - 1] /\ h[n] = next[<<m, g[m - 1]>>]
          BY <4>1, <2>2
        <5> QED BY <4>1, <5>1
      <4>2. CASE n # m
        <5>1. n \in 1 .. m - 1 /\ h[n] = g[n] /\ h[n - 1] = g[n - 1]
          BY <4>2, <2>2
        <5> QED BY <5>1, <3>2
      <4> QED BY <4>1, <4>2
    <3>7. Up(h, m)
      <4> HIDE DEF h
      <4> QED BY <3>5, <3>6
    <3> QED BY <3>7
  <2> QED BY <2>1, <2>2
<1>2. T = Nat
  BY <1>1, AllNumbers
<1>3. N \in T
  BY <1>2
<1> QED BY <1>3 DEF Repeats

----------------------------------------------------------------------------
(* Sequences of anything.                                                     *)


\* The form in which the proofs speak of sequences: no set of elements is given.
IsSequence(s) == s \in Seq(Range(s))

LEMMA SequenceOf == ASSUME NEW S, NEW s \in Seq(S) PROVE IsSequence(s) /\ Range(s) \subseteq S
<1>1. IsSequence(s)
  BY SeqOfRange DEF IsSequence
<1>2. Range(s) \subseteq S
  BY ElementOfSeq, LenProperties DEF Range
<1> QED BY <1>1, <1>2

\* A sequence is a function on 1 .. Len.
LEMMA SequenceParts ==
    ASSUME NEW s, IsSequence(s)
    PROVE  /\ Len(s) \in Nat /\ DOMAIN s = 1 .. Len(s) /\ s = [i \in 1 .. Len(s) |-> s[i]]
           /\ \A i \in 1 .. Len(s) : s[i] \in Range(s)
           /\ \A x \in Range(s) : \E i \in 1 .. Len(s) : s[i] = x
<1>1. Len(s) \in Nat /\ DOMAIN s = 1 .. Len(s) /\ s \in [1 .. Len(s) -> Range(s)]
  BY LenProperties DEF IsSequence
<1> QED BY <1>1 DEF Range

IsMapped(s, t) == t = [i \in DOMAIN s |-> t[i]]

\* A function on the places of a sequence is a sequence.
LEMMA SequenceMapped ==
    ASSUME NEW s, IsSequence(s), NEW t, IsMapped(s, t)
    PROVE  /\ IsSequence(t) /\ Len(t) = Len(s) /\ DOMAIN t = DOMAIN s
           /\ \A x \in Range(t) : \E i \in DOMAIN s : x = t[i]
           /\ \A i \in DOMAIN s : t[i] \in Range(t)
<1>1. Len(s) \in Nat /\ DOMAIN s = 1 .. Len(s)
  BY SequenceParts
<1>2. DOMAIN t = 1 .. Len(s)
  BY <1>1 DEF IsMapped
<1>3. t \in [1 .. Len(s) -> Range(t)]
  BY <1>1, <1>2 DEF Range, IsMapped
<1>4. t \in Seq(Range(t))
  BY <1>1, <1>3
<1>5. Len(t) = Len(s)
  BY <1>1, <1>2, <1>4, LenProperties
<1> QED BY <1>1, <1>2, <1>4, <1>5 DEF IsSequence, Range

LEMMA SequencesJoined ==
    ASSUME NEW s, IsSequence(s), NEW t, IsSequence(t)
    PROVE  IsSequence(s \o t) /\ Range(s \o t) = Range(s) \cup Range(t)
<1> DEFINE S == Range(s) \cup Range(t)
<1>1. s \in Seq(S) /\ t \in Seq(S)
  BY SeqMonotonic DEF IsSequence
<1>2. s \o t \in Seq(S)
  BY <1>1, ConcatProperties
<1>3. Range(s \o t) = S
  BY <1>1, RangeConcatenation
<1> QED BY <1>2, <1>3, SequenceOf

LEMMA SequenceEmpty == IsSequence(<<>>) /\ Range(<<>>) = {}
<1>1. \A S : <<>> \in Seq(S)
  BY EmptySeq
<1>2. IsSequence(<<>>)
  BY <1>1 DEF IsSequence
<1>3. Range(<<>>) = {}
  <2>1. DOMAIN <<>> = {}
    OBVIOUS
  <2> QED BY <2>1 DEF Range
<1> QED BY <1>2, <1>3

LEMMA SequenceSingle == ASSUME NEW x PROVE IsSequence(<<x>>) /\ Range(<<x>>) = {x}
<1>1. <<x>> \in Seq({x}) /\ DOMAIN <<x>> = {1} /\ <<x>>[1] = x
  OBVIOUS
<1>2. IsSequence(<<x>>)
  BY <1>1, SequenceOf
<1> QED BY <1>1, <1>2 DEF Range

LEMMA SequenceAppended ==
    ASSUME NEW s, IsSequence(s), NEW x
    PROVE  /\ IsSequence(Append(s, x)) /\ Range(Append(s, x)) = Range(s) \cup {x}
           /\ Len(Append(s, x)) = Len(s) + 1 /\ Append(s, x)[Len(s) + 1] = x
           /\ \A i \in 1 .. Len(s) : Append(s, x)[i] = s[i]
<1> DEFINE S == Range(s) \cup {x}
<1>1. s \in Seq(S) /\ x \in S
  BY SeqMonotonic DEF IsSequence
<1>2. /\ Append(s, x) \in Seq(S) /\ Len(Append(s, x)) = Len(s) + 1 /\ Append(s, x)[Len(s) + 1] = x
      /\ \A i \in 1 .. Len(s) : Append(s, x)[i] = s[i]
  BY <1>1, AppendProperties
<1>3. Len(s) \in Nat /\ DOMAIN s = 1 .. Len(s) /\ DOMAIN Append(s, x) = 1 .. Len(s) + 1
  BY <1>1, <1>2, LenProperties
<1>4. Range(Append(s, x)) = S
  <2>1. S \subseteq Range(Append(s, x))
    <3>1. ASSUME NEW y \in Range(s) PROVE y \in Range(Append(s, x))
      <4>1. PICK i \in 1 .. Len(s) : s[i] = y
        BY <1>3 DEF Range
      <4>2. i \in 1 .. Len(s) + 1
        BY <1>3
      <4> QED BY <4>1, <4>2, <1>2, <1>3 DEF Range
    <3>2. x \in Range(Append(s, x))
      <4>1. Len(s) + 1 \in 1 .. Len(s) + 1
        BY <1>3
      <4> QED BY <4>1, <1>2, <1>3 DEF Range
    <3> QED BY <3>1, <3>2
  <2> QED BY <1>2, <2>1, SequenceOf
<1> QED BY <1>2, <1>4, SequenceOf

LEMMA SequenceCut ==
    ASSUME NEW s, IsSequence(s), NEW m \in Int, NEW n \in Int, m >= 1, n <= Len(s)
    PROVE  /\ IsSequence(SubSeq(s, m, n)) /\ Range(SubSeq(s, m, n)) = {s[i] : i \in m .. n}
           /\ Len(SubSeq(s, m, n)) = (IF m <= n THEN n - m + 1 ELSE 0)
           /\ \A i \in 1 .. n - m + 1 : SubSeq(s, m, n)[i] = s[m + i - 1]
<1> DEFINE t == SubSeq(s, m, n)
           S == {s[i] : i \in m .. n}
<1>1. /\ t \in Seq(S) /\ Len(t) = (IF m <= n THEN n - m + 1 ELSE 0)
      /\ \A i \in 1 .. n - m + 1 : t[i] = s[m + i - 1]
  BY SubSeqProperties
<1>2. IsSequence(t) /\ Range(t) \subseteq S
  BY <1>1, SequenceOf
<1>3. ASSUME NEW i \in m .. n PROVE s[i] \in Range(t)
  <2>1. DOMAIN t = 1 .. Len(t)
    BY <1>2, SequenceParts
  <2> HIDE DEF t
  <2>2. i - m + 1 \in 1 .. n - m + 1 /\ i - m + 1 \in 1 .. Len(t) /\ m + (i - m + 1) - 1 = i
    BY <1>1
  <2>3. t[i - m + 1] = s[i]
    BY <1>1, <2>2
  <2> QED BY <2>1, <2>2, <2>3 DEF Range
<1> QED BY <1>1, <1>2, <1>3

LEMMA SequenceFront ==
    ASSUME NEW s, IsSequence(s), s # <<>>
    PROVE  /\ IsSequence(Front(s)) /\ Range(Front(s)) \subseteq Range(s) /\ Last(s) \in Range(s)
           /\ Len(s) \in Nat \ {0} /\ Len(Front(s)) = Len(s) - 1 /\ Last(s) = s[Len(s)]
           /\ \A i \in 1 .. Len(s) - 1 : Front(s)[i] = s[i]
<1>1. Len(s) \in Nat /\ \A i \in 1 .. Len(s) : s[i] \in Range(s)
  BY SequenceParts
<1>2. Len(s) # 0
  BY EmptySeq DEF IsSequence
<1>3. /\ IsSequence(SubSeq(s, 1, Len(s) - 1)) /\ Len(SubSeq(s, 1, Len(s) - 1)) = Len(s) - 1
      /\ Range(SubSeq(s, 1, Len(s) - 1)) = {s[i] : i \in 1 .. Len(s) - 1}
      /\ \A i \in 1 .. Len(s) - 1 : SubSeq(s, 1, Len(s) - 1)[i] = s[i]
  <2> DEFINE n == Len(s) - 1
  <2>1. n \in Int /\ 1 \in Int /\ 1 >= 1 /\ n <= Len(s) /\ (n >= 1 \/ n = 0) /\ n - 1 + 1 = n
    <3>1. Len(s) \in Nat /\ Len(s) # 0
      BY <1>1, <1>2
    <3> QED BY ONLY <3>1
  <2> HIDE DEF n
  <2>2. /\ IsSequence(SubSeq(s, 1, n)) /\ Range(SubSeq(s, 1, n)) = {s[i] : i \in 1 .. n}
        /\ Len(SubSeq(s, 1, n)) = (IF 1 <= n THEN n - 1 + 1 ELSE 0)
        /\ \A i \in 1 .. n - 1 + 1 : SubSeq(s, 1, n)[i] = s[1 + i - 1]
    BY <2>1, SequenceCut
  <2>3. Len(SubSeq(s, 1, n)) = n /\ \A i \in 1 .. n : SubSeq(s, 1, n)[i] = s[i]
    BY <2>1, <2>2
  <2> QED BY <2>2, <2>3 DEF n
<1>4. Front(s) = SubSeq(s, 1, Len(s) - 1) /\ Last(s) = s[Len(s)]
  BY DEF Front, Last
<1>5. Range(SubSeq(s, 1, Len(s) - 1)) \subseteq Range(s)
  BY <1>1, <1>3
<1>6. Last(s) \in Range(s)
  BY <1>1, <1>2, <1>4
<1> QED BY <1>1, <1>2, <1>3, <1>4, <1>5, <1>6

LEMMA SequenceTail ==
    ASSUME NEW s, IsSequence(s), s # <<>>
    PROVE  /\ IsSequence(Tail(s)) /\ Range(Tail(s)) \subseteq Range(s) /\ Len(Tail(s)) = Len(s) - 1
           /\ \A i \in 1 .. Len(s) - 1 : Tail(s)[i] = s[i + 1]
<1>1. s \in Seq(Range(s))
  BY DEF IsSequence
<1> QED BY <1>1, HeadTailProperties, SequenceOf

\* FlattenSeq keeps the elements and nothing else.
LEMMA Flattened ==
    ASSUME NEW seqs, IsSequence(seqs), \A i \in DOMAIN seqs : IsSequence(seqs[i])
    PROVE  /\ IsSequence(FlattenSeq(seqs))
           /\ \A x : x \in Range(FlattenSeq(seqs)) <=> \E i \in DOMAIN seqs : x \in Range(seqs[i])
<1> DEFINE N == Len(seqs)
           S == UNION {Range(seqs[i]) : i \in 1 .. N}
           Value(f) == f = [i \in 1 .. N |-> IF i = 1 THEN seqs[i] ELSE f[i - 1] \o seqs[i]]
           flatten == CHOOSE f : Value(f)
           next == [p \in (1 .. N) \X Seq(S) |-> p[2] \o seqs[p[1]]]
<1>1. N \in Nat /\ DOMAIN seqs = 1 .. N
  BY SequenceParts
<1>2. CASE N = 0
  <2>1. seqs = <<>>
    BY <1>2, EmptySeq DEF IsSequence
  <2>2. FlattenSeq(seqs) = <<>>
    BY <1>2, <2>1 DEF FlattenSeq
  <2>3. DOMAIN seqs = {}
    BY <1>1, <1>2
  <2> QED BY <2>2, <2>3, SequenceEmpty
<1>3. CASE N # 0
  <2>1. FlattenSeq(seqs) = flatten[N]
    BY <1>3, Zenon DEF FlattenSeq
  <2>2. \A i \in 1 .. N : seqs[i] \in Seq(S)
    <3>1. ASSUME NEW i \in 1 .. N PROVE seqs[i] \in Seq(S)
      <4>1. seqs[i] \in Seq(Range(seqs[i]))
        BY <1>1 DEF IsSequence
      <4>2. Range(seqs[i]) \subseteq S
        OBVIOUS
      <4> HIDE DEF S
      <4> QED BY <4>1, <4>2, SeqMonotonic
    <3> QED BY <3>1
  <2> HIDE DEF S
  <2>3. next \in [(1 .. N) \X Seq(S) -> Seq(S)]
    <3>1. ASSUME NEW i \in 1 .. N, NEW t \in Seq(S) PROVE t \o seqs[i] \in Seq(S)
      BY <2>2, ConcatProperties
    <3> HIDE DEF N
    <3> QED BY <3>1
  <2>3a. PICK g : Repeats(g, N, Seq(S), <<>>, next)
    <3>1. <<>> \in Seq(S)
      BY EmptySeq
    <3> HIDE DEF next, N
    <3> QED BY <1>1, <2>3, <3>1, RecursionExists
  <2>4. g \in [0 .. N -> Seq(S)] /\ g[0] = <<>> /\ \A n \in 1 .. N : g[n] = next[<<n, g[n - 1]>>]
    <3> HIDE DEF next, N
    <3> QED BY <2>3a DEF Repeats
  <2>5. ASSUME NEW n \in 1 .. N PROVE g[n] = g[n - 1] \o seqs[n]
    <3>1. g[n - 1] \in Seq(S)
      BY <1>1, <2>4
    <3>2. g[n] = next[<<n, g[n - 1]>>]
      BY <2>4
    <3> HIDE DEF N
    <3> QED BY <3>1, <3>2
  <2> DEFINE h == [i \in 1 .. N |-> g[i]]
  <2>6. Value(h)
    <3>1. ASSUME NEW i \in 1 .. N PROVE h[i] = IF i = 1 THEN seqs[i] ELSE h[i - 1] \o seqs[i]
      <4>1. CASE i = 1
        <5>2a. h[i] = g[i]
          OBVIOUS
        <5>2b. g[i] = g[i - 1] \o seqs[i]
          BY <2>5
        <5>0. h[i] = g[i] /\ g[i] = g[i - 1] \o seqs[i] /\ i - 1 = 0
          <6> HIDE DEF h, N
          <6> QED BY <4>1, <5>2a, <5>2b
        <5>1. h[i] = <<>> \o seqs[1]
          BY <4>1, <5>0, <2>4
        <5>2. seqs[1] \in Seq(S)
          BY <4>1, <2>2
        <5>3. <<>> \o seqs[1] = seqs[1]
          BY <5>2, ConcatEmptySeq
        <5> QED BY <4>1, <5>1, <5>3
      <4>2. CASE i # 1
        <5>1. i - 1 \in 1 .. N
          BY <4>2, <1>1
        <5> QED BY <4>2, <5>1, <2>5
      <4> QED BY <4>1, <4>2
    <3> HIDE DEF h
    <3>2. h = [i \in 1 .. N |-> h[i]]
      BY DEF h
    <3>3. h = [i \in 1 .. N |-> IF i = 1 THEN seqs[i] ELSE h[i - 1] \o seqs[i]]
      BY <3>1, <3>2, Zenon
    <3> QED BY <3>3
  <2>7. Value(flatten)
    <3> HIDE DEF Value, h
    <3> QED BY <2>6
  <2> HIDE DEF flatten
  <2>8. \A i \in 1 .. N : flatten[i] = IF i = 1 THEN seqs[i] ELSE flatten[i - 1] \o seqs[i]
    <3> HIDE DEF N
    <3> QED BY <2>7
  <2> DEFINE Upto(n) == /\ IsSequence(flatten[n])
                        /\ \A x : x \in Range(flatten[n]) <=> \E i \in 1 .. n : x \in Range(seqs[i])
             T == {n \in Nat : n \in 1 .. N => Upto(n)}
  <2>9. ASSUME NEW n \in Nat, \A k \in 0 .. n - 1 : k \in T PROVE n \in T
    <3>1. CASE n \notin 1 .. N
      BY <3>1
    <3>2. CASE n = 1 /\ n \in 1 .. N
      <4>1. flatten[1] = seqs[1] /\ 1 .. 1 = {1}
        BY <3>2, <2>8
      <4>2. Upto(1)
        BY <4>1, <3>2, <1>1
      <4> QED BY <3>2, <4>2
    <3>3. CASE n # 1 /\ n \in 1 .. N
      <4>0. n - 1 \in 0 .. n - 1 /\ n - 1 \in 1 .. N
        BY <3>3, <1>1
      <4>1. n - 1 \in T
        BY ONLY <4>0, <2>9
      <4>2. Upto(n - 1)
        BY <4>0, <4>1
      <4>3. flatten[n] = flatten[n - 1] \o seqs[n] /\ IsSequence(seqs[n])
        BY <3>3, <2>8, <1>1
      <4>4. IsSequence(flatten[n]) /\ Range(flatten[n]) = Range(flatten[n - 1]) \cup Range(seqs[n])
        BY <4>2, <4>3, SequencesJoined
      <4>5. \A i : i \in 1 .. n <=> i \in 1 .. n - 1 \/ i = n
        BY <3>3, <1>1
      <4>6. Upto(n)
        BY <4>2, <4>4, <4>5
      <4> QED BY <4>6
    <3> QED BY <3>1, <3>2, <3>3
  <2>10. T = Nat
    <3>1. T \in SUBSET Nat
      OBVIOUS
    <3> HIDE DEF T
    <3> QED BY <3>1, <2>9, AllNumbers
  <2>11. Upto(N)
    <3>1. N \in 1 .. N
      BY <1>1, <1>3
    <3>2. N \in T
      BY <1>1, <2>10
    <3> QED BY <3>1, <3>2
  <2> HIDE DEF N
  <2> QED BY <1>1, <2>1, <2>11
<1> QED BY <1>2, <1>3

\* The last element of a sequence and what is before it.
LEMMA TopOfPath ==
    ASSUME NEW S, NEW path \in Seq(S), path # <<>>
    PROVE  /\ Last(path) \in S /\ Last(path) = path[Len(path)] /\ Len(path) \in Nat \ {0}
           /\ Front(path) \in Seq(S) /\ Len(Front(path)) = Len(path) - 1
           /\ \A i \in 1 .. Len(path) - 1 : Front(path)[i] = path[i]
<1>1. Len(path) \in Nat \ {0} /\ \A i \in 1 .. Len(path) : path[i] \in S
  BY EmptySeq, ElementOfSeq
<1>2. Last(path) = path[Len(path)]
  BY DEF Last
<1> DEFINE n == Len(path) - 1
<1>3. n \in Nat /\ \A i \in 1 .. n : path[i] \in S
  BY <1>1
<1>4. SubSeq(path, 1, n) \in Seq(S) /\ Len(SubSeq(path, 1, n)) = n
         /\ \A i \in 1 .. n : SubSeq(path, 1, n)[i] = path[i]
  <2> HIDE DEF n
  <2> QED BY <1>3, SubSeqProperties
<1> QED BY <1>1, <1>2, <1>4 DEF Front

----------------------------------------------------------------------------
(* What is left to look at of finitely many rows: next[id] is where row id is.  *)

Rows(adj) == IsFiniteSet(DOMAIN adj) /\ \A id \in DOMAIN adj : Len(adj[id]) \in Nat

Positions(next, adj) == UNION {{id} \X (next[id] .. Len(adj[id])) : id \in DOMAIN adj}

LEMMA PositionsFinite ==
    ASSUME NEW adj, Rows(adj), NEW next \in [DOMAIN adj -> Nat]
    PROVE  IsFiniteSet(Positions(next, adj)) /\ Cardinality(Positions(next, adj)) \in Nat
<1> DEFINE row == [id \in DOMAIN adj |-> {id} \X (next[id] .. Len(adj[id]))]
           rows == {row[id] : id \in DOMAIN adj}
<1>1. row \in Surjection(DOMAIN adj, rows)
  BY DEF Surjection
<1>2. IsFiniteSet(rows)
  BY <1>1, FS_Surjection DEF Rows
<1>3. ASSUME NEW id \in DOMAIN adj PROVE IsFiniteSet(row[id])
  <2>1. next[id] \in Int /\ Len(adj[id]) \in Int
    BY DEF Rows
  <2>2. IsFiniteSet(next[id] .. Len(adj[id]))
    BY <2>1, FS_Interval
  <2>3. IsFiniteSet({id} \X (next[id] .. Len(adj[id])))
    BY <2>2, FS_Singleton, FS_Product
  <2> QED BY <2>3
<1>4. IsFiniteSet(UNION rows)
  <2> HIDE DEF row
  <2> QED BY <1>2, <1>3, FS_UNION
<1>5. Positions(next, adj) = UNION rows
  BY DEF Positions
<1> QED BY <1>4, <1>5, FS_CardinalityType

\* A look at a neighbour leaves one position less to look at.
LEMMA PositionsShrink ==
    ASSUME NEW adj, Rows(adj), NEW next \in [DOMAIN adj -> Nat],
           NEW node \in DOMAIN adj, next[node] <= Len(adj[node])
    PROVE  Cardinality(Positions([next EXCEPT ![node] = @ + 1], adj)) = Cardinality(Positions(next, adj)) - 1
<1> DEFINE after == [next EXCEPT ![node] = @ + 1]
<1>1. Len(adj[node]) \in Nat /\ next[node] \in Nat
  BY DEF Rows
<1>2. <<node, next[node]>> \in Positions(next, adj)
  BY <1>1 DEF Positions
<1>3. ASSUME NEW id \in DOMAIN adj
      PROVE  {id} \X (after[id] .. Len(adj[id]))
                = ({id} \X (next[id] .. Len(adj[id]))) \ {<<node, next[node]>>}
  <2>1. Len(adj[id]) \in Nat /\ next[id] \in Nat
    BY DEF Rows
  <2>2. CASE id = node
    BY <2>1, <2>2
  <2>3. CASE id # node
    BY <2>1, <2>3
  <2> QED BY <2>2, <2>3
<1>4. Positions(after, adj) = Positions(next, adj) \ {<<node, next[node]>>}
  BY <1>3 DEF Positions
<1> QED BY <1>2, <1>4, FS_RemoveElement, PositionsFinite
=============================================================================
