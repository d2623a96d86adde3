--------------------------- MODULE SequenceLemmas ---------------------------
(***************************************************************************)
(* Facts about sequences that the proofs about channels need: the elements *)
(* of a sequence, and relations between its earlier and later elements,    *)
(* when something is appended to it or taken from it.                      *)
(***************************************************************************)
EXTENDS Naturals, Sequences, SequenceTheorems, TLAPS

\* What occurs in a sequence.
Elements(s) == {s[i] : i \in 1 .. Len(s)}

\* Any element of s is in relation R to every later one.
Chain(s, R) == \A i, j \in 1 .. Len(s) : i < j => <<s[i], s[j]>> \in R

LEMMA ElementsType ==
  ASSUME NEW S, NEW s \in Seq(S)
  PROVE  Elements(s) \subseteq S
  BY DEF Elements

LEMMA EmptyElements == Elements(<<>>) = {}
  BY DEF Elements

LEMMA HeadTail ==
  ASSUME NEW S, NEW s \in Seq(S), s # <<>>
  PROVE  /\ Head(s) \in S /\ Tail(s) \in Seq(S) /\ Len(Tail(s)) = Len(s) - 1
         /\ Len(s) \in Nat /\ Len(s) > 0
         /\ Head(s) = s[1]
         /\ \A i \in 1 .. Len(Tail(s)) : Tail(s)[i] = s[i + 1]
  OBVIOUS

LEMMA AppendEntries ==
  ASSUME NEW S, NEW s \in Seq(S), NEW x \in S
  PROVE  /\ Append(s, x) \in Seq(S) /\ Len(Append(s, x)) = Len(s) + 1 /\ Len(s) \in Nat
         /\ \A i \in 1 .. Len(s) : Append(s, x)[i] = s[i]
         /\ Append(s, x)[Len(s) + 1] = x
  OBVIOUS

\* What is taken from a sequence leaves the rest in it.
LEMMA TailElements ==
  ASSUME NEW S, NEW s \in Seq(S), s # <<>>
  PROVE  /\ Head(s) \in Elements(s)
         /\ Elements(Tail(s)) \subseteq Elements(s)
  BY HeadTail DEF Elements

LEMMA AppendElements ==
  ASSUME NEW S, NEW s \in Seq(S), NEW x \in S
  PROVE  Elements(Append(s, x)) = Elements(s) \cup {x}
  <1>1. Elements(Append(s, x)) \subseteq Elements(s) \cup {x}
    BY AppendEntries DEF Elements
  <1>2. Elements(s) \subseteq Elements(Append(s, x))
    BY AppendEntries DEF Elements
  <1>3. x \in Elements(Append(s, x))
    BY AppendEntries DEF Elements
  <1> QED  BY <1>1, <1>2, <1>3

LEMMA ChainTail ==
  ASSUME NEW S, NEW s \in Seq(S), s # <<>>, NEW R, Chain(s, R)
  PROVE  Chain(Tail(s), R)
  BY HeadTail DEF Chain

LEMMA ChainAppend ==
  ASSUME NEW S, NEW s \in Seq(S), NEW x \in S, NEW R, Chain(s, R),
         \A y \in Elements(s) : <<y, x>> \in R
  PROVE  Chain(Append(s, x), R)
  <1> SUFFICES ASSUME NEW i \in 1 .. Len(Append(s, x)), NEW j \in 1 .. Len(Append(s, x)), i < j
               PROVE  <<Append(s, x)[i], Append(s, x)[j]>> \in R
    BY DEF Chain
  <1>1. i \in 1 .. Len(s) /\ Append(s, x)[i] = s[i]
    BY AppendEntries
  <1>2. CASE j \in 1 .. Len(s)
    BY <1>1, <1>2, AppendEntries DEF Chain
  <1>3. CASE j = Len(s) + 1
    BY <1>1, <1>3, AppendEntries DEF Elements
  <1> QED  BY <1>2, <1>3, AppendEntries

LEMMA ConcatEntries ==
  ASSUME NEW S, NEW s \in Seq(S), NEW t \in Seq(S)
  PROVE  /\ s \o t \in Seq(S) /\ Len(s \o t) = Len(s) + Len(t)
         /\ Len(s) \in Nat /\ Len(t) \in Nat
         /\ \A i \in 1 .. Len(s) : (s \o t)[i] = s[i]
         /\ \A i \in 1 .. Len(t) : (s \o t)[Len(s) + i] = t[i]
  OBVIOUS

LEMMA ConcatElements ==
  ASSUME NEW S, NEW s \in Seq(S), NEW t \in Seq(S)
  PROVE  Elements(s \o t) = Elements(s) \cup Elements(t)
  <1>1. Elements(s \o t) \subseteq Elements(s) \cup Elements(t)
    <2> SUFFICES ASSUME NEW i \in 1 .. Len(s \o t)
                 PROVE  (s \o t)[i] \in Elements(s) \cup Elements(t)
      BY DEF Elements
    <2>1. CASE i \in 1 .. Len(s)
      BY <2>1, ConcatEntries DEF Elements
    <2>2. CASE i \notin 1 .. Len(s)
      <3>1. i - Len(s) \in 1 .. Len(t) /\ i = Len(s) + (i - Len(s))
        BY <2>2, ConcatEntries
      <3> QED  BY <3>1, ConcatEntries DEF Elements
    <2> QED  BY <2>1, <2>2
  <1>2. Elements(s) \subseteq Elements(s \o t)
    BY ConcatEntries DEF Elements
  <1>3. Elements(t) \subseteq Elements(s \o t)
    <2> SUFFICES ASSUME NEW i \in 1 .. Len(t)
                 PROVE  t[i] \in Elements(s \o t)
      BY DEF Elements
    <2>1. Len(s) + i \in 1 .. Len(s \o t) /\ (s \o t)[Len(s) + i] = t[i]
      BY ConcatEntries
    <2> QED  BY <2>1 DEF Elements
  <1> QED  BY <1>1, <1>2, <1>3

\* A chain of two parts is two chains, and everything in the one is related
\* to everything in the other.
LEMMA ConcatChain ==
  ASSUME NEW S, NEW s \in Seq(S), NEW t \in Seq(S), NEW R
  PROVE  Chain(s \o t, R) <=> /\ Chain(s, R) /\ Chain(t, R)
                             /\ \A x \in Elements(s), y \in Elements(t) : <<x, y>> \in R
  <1>1. ASSUME Chain(s \o t, R)
        PROVE  Chain(s, R)
    BY <1>1, ConcatEntries DEF Chain
  <1>2. ASSUME Chain(s \o t, R)
        PROVE  Chain(t, R)
    <2> SUFFICES ASSUME NEW i \in 1 .. Len(t), NEW j \in 1 .. Len(t), i < j
                 PROVE  <<t[i], t[j]>> \in R
      BY DEF Chain
    <2>1. /\ Len(s) + i \in 1 .. Len(s \o t) /\ Len(s) + j \in 1 .. Len(s \o t)
          /\ Len(s) + i < Len(s) + j
      BY ConcatEntries
    <2>2. <<(s \o t)[Len(s) + i], (s \o t)[Len(s) + j]>> \in R
      BY <1>2, <2>1 DEF Chain
    <2>3. (s \o t)[Len(s) + i] = t[i] /\ (s \o t)[Len(s) + j] = t[j]
      BY ConcatEntries
    <2> QED  BY <2>2, <2>3
  <1>3. ASSUME Chain(s \o t, R), NEW i \in 1 .. Len(s), NEW j \in 1 .. Len(t)
        PROVE  <<s[i], t[j]>> \in R
    <2>1. /\ i \in 1 .. Len(s \o t) /\ Len(s) + j \in 1 .. Len(s \o t)
          /\ i < Len(s) + j
      BY ConcatEntries
    <2>2. <<(s \o t)[i], (s \o t)[Len(s) + j]>> \in R
      BY <1>3, <2>1 DEF Chain
    <2>3. (s \o t)[i] = s[i] /\ (s \o t)[Len(s) + j] = t[j]
      BY ConcatEntries
    <2> QED  BY <2>2, <2>3
  <1>4. ASSUME Chain(s, R), Chain(t, R),
               \A x \in Elements(s), y \in Elements(t) : <<x, y>> \in R
        PROVE  Chain(s \o t, R)
    <2> SUFFICES ASSUME NEW i \in 1 .. Len(s \o t), NEW j \in 1 .. Len(s \o t), i < j
                 PROVE  <<(s \o t)[i], (s \o t)[j]>> \in R
      BY DEF Chain
    <2>1. CASE j \in 1 .. Len(s)
      BY <1>4, <2>1, ConcatEntries DEF Chain
    <2>2. CASE i \in 1 .. Len(s) /\ j \notin 1 .. Len(s)
      <3>1. j - Len(s) \in 1 .. Len(t) /\ j = Len(s) + (j - Len(s))
        BY <2>2, ConcatEntries
      <3>2. (s \o t)[i] = s[i] /\ (s \o t)[j] = t[j - Len(s)]
        BY <2>2, <3>1, ConcatEntries
      <3>3. s[i] \in Elements(s) /\ t[j - Len(s)] \in Elements(t)
        BY <2>2, <3>1 DEF Elements
      <3> QED  BY <1>4, <3>2, <3>3
    <2>3. CASE i \notin 1 .. Len(s) /\ j \notin 1 .. Len(s)
      <3>1. /\ i - Len(s) \in 1 .. Len(t) /\ i = Len(s) + (i - Len(s))
            /\ j - Len(s) \in 1 .. Len(t) /\ j = Len(s) + (j - Len(s))
            /\ i - Len(s) < j - Len(s)
        BY <2>3, ConcatEntries
      <3>2. (s \o t)[i] = t[i - Len(s)] /\ (s \o t)[j] = t[j - Len(s)]
        BY <3>1, ConcatEntries
      <3> QED  BY <1>4, <3>1, <3>2 DEF Chain
    <2> QED  BY <2>1, <2>2, <2>3, ConcatEntries
  <1> QED  BY <1>1, <1>2, <1>3, <1>4 DEF Elements

\* What is taken from the one sequence and appended to the other stays where
\* it was in the two together.
LEMMA MoveHead ==
  ASSUME NEW S, NEW s \in Seq(S), NEW t \in Seq(S), t # <<>>
  PROVE  Append(s, Head(t)) \o Tail(t) = s \o t
  <1> DEFINE u == Append(s, Head(t))
  <1>1. /\ Head(t) \in S /\ Tail(t) \in Seq(S) /\ Len(Tail(t)) = Len(t) - 1
        /\ Len(t) \in Nat /\ Len(t) > 0
        /\ Head(t) = t[1] /\ \A i \in 1 .. Len(t) - 1 : Tail(t)[i] = t[i + 1]
    BY HeadTail
  <1>2. /\ u \in Seq(S) /\ Len(u) = Len(s) + 1 /\ Len(s) \in Nat
        /\ \A i \in 1 .. Len(s) : u[i] = s[i]
        /\ u[Len(s) + 1] = t[1]
    BY <1>1, AppendEntries
  <1>3. /\ u \o Tail(t) \in Seq(S) /\ Len(u \o Tail(t)) = Len(s) + Len(t)
        /\ \A i \in 1 .. Len(s) + 1 : (u \o Tail(t))[i] = u[i]
        /\ \A i \in 1 .. Len(t) - 1 : (u \o Tail(t))[Len(s) + 1 + i] = t[i + 1]
    <2>1. Len(u \o Tail(t)) = Len(u) + Len(Tail(t)) /\ u \o Tail(t) \in Seq(S)
      BY <1>1, <1>2, ConcatEntries
    <2>2. \A i \in 1 .. Len(u) : (u \o Tail(t))[i] = u[i]
      BY <1>1, <1>2, ConcatEntries
    <2>3. \A i \in 1 .. Len(Tail(t)) : (u \o Tail(t))[Len(u) + i] = Tail(t)[i]
      BY <1>1, <1>2, ConcatEntries
    <2> HIDE DEF u
    <2> QED  BY <1>1, <1>2, <2>1, <2>2, <2>3
  <1> HIDE DEF u
  <1>4. ASSUME NEW i \in 1 .. Len(s) + Len(t)
        PROVE  (u \o Tail(t))[i] = (s \o t)[i]
    <2>1. CASE i \in 1 .. Len(s)
      BY <1>2, <1>3, <2>1, ConcatEntries
    <2>2. CASE i = Len(s) + 1
      BY <1>1, <1>2, <1>3, <2>2, ConcatEntries
    <2>3. CASE i \in Len(s) + 2 .. Len(s) + Len(t)
      <3>1. /\ i - Len(s) - 1 \in 1 .. Len(t) - 1 /\ i = Len(s) + 1 + (i - Len(s) - 1)
            /\ i - Len(s) \in 1 .. Len(t) /\ i = Len(s) + (i - Len(s))
            /\ (i - Len(s) - 1) + 1 = i - Len(s)
        BY <1>1, <1>2, <2>3
      <3>2. (u \o Tail(t))[i] = t[i - Len(s)]
        BY <1>3, <3>1
      <3>3. (s \o t)[i] = t[i - Len(s)]
        BY <3>1, ConcatEntries
      <3> QED  BY <3>2, <3>3
    <2> QED  BY <1>1, <1>2, <2>1, <2>2, <2>3
  <1>5. s \o t \in Seq(S) /\ Len(s \o t) = Len(s) + Len(t)
    BY ConcatEntries
  <1>6. u \o Tail(t) = s \o t
    <2>1. Len(s) \in Nat /\ Len(t) \in Nat
      BY <1>1, <1>2
    <2> QED  BY <1>3, <1>4, <1>5, <2>1, SeqEqual
  <1> QED  BY <1>6 DEF u

\* It does not matter whether an element is appended to the second of two
\* sequences or to the two together.
LEMMA AppendConcat ==
  ASSUME NEW S, NEW s \in Seq(S), NEW t \in Seq(S), NEW x \in S
  PROVE  s \o Append(t, x) = Append(s \o t, x)
  <1> DEFINE q == Append(t, x)
             u == s \o t
  <1>1. /\ q \in Seq(S) /\ Len(q) = Len(t) + 1 /\ Len(t) \in Nat
        /\ \A i \in 1 .. Len(t) : q[i] = t[i]
        /\ q[Len(t) + 1] = x
    BY AppendEntries
  <1>2. /\ u \in Seq(S) /\ Len(u) = Len(s) + Len(t) /\ Len(s) \in Nat
        /\ \A i \in 1 .. Len(s) : u[i] = s[i]
        /\ \A i \in 1 .. Len(t) : u[Len(s) + i] = t[i]
    BY ConcatEntries
  <1> HIDE DEF q, u
  <1>3. /\ s \o q \in Seq(S) /\ Len(s \o q) = Len(s) + Len(q)
        /\ \A i \in 1 .. Len(s) : (s \o q)[i] = s[i]
        /\ \A i \in 1 .. Len(q) : (s \o q)[Len(s) + i] = q[i]
    <2>1. q \in Seq(S)
      BY <1>1
    <2> QED  BY <2>1, ConcatEntries
  <1>4. /\ Append(u, x) \in Seq(S) /\ Len(Append(u, x)) = Len(u) + 1
        /\ \A i \in 1 .. Len(u) : Append(u, x)[i] = u[i]
        /\ Append(u, x)[Len(u) + 1] = x
    BY <1>2, AppendEntries
  <1>5. ASSUME NEW i \in 1 .. Len(s \o q)
        PROVE  (s \o q)[i] = Append(u, x)[i]
    <2>1. CASE i \in 1 .. Len(s)
      BY <1>1, <1>2, <1>3, <1>4, <2>1
    <2>2. CASE i \notin 1 .. Len(s) /\ i # Len(s) + Len(t) + 1
      <3>1. /\ i - Len(s) \in 1 .. Len(t) /\ i = Len(s) + (i - Len(s))
            /\ i - Len(s) \in 1 .. Len(q) /\ i \in 1 .. Len(u)
        BY <1>1, <1>2, <1>3, <2>2
      <3>2. (s \o q)[i] = t[i - Len(s)]
        BY <1>1, <1>3, <3>1
      <3>3. Append(u, x)[i] = t[i - Len(s)]
        BY <1>2, <1>4, <3>1
      <3> QED  BY <3>2, <3>3
    <2>3. CASE i = Len(s) + Len(t) + 1
      <3>1. Len(q) \in 1 .. Len(q) /\ i = Len(s) + Len(q) /\ i = Len(u) + 1
        BY <1>1, <1>2, <2>3
      <3> QED  BY <1>1, <1>3, <1>4, <3>1
    <2> QED  BY <2>1, <2>2, <2>3
  <1>6. s \o q = Append(u, x)
    <2>1. Len(s \o q) = Len(Append(u, x))
      BY <1>1, <1>2, <1>3, <1>4
    <2> QED  BY <1>3, <1>4, <1>5, <2>1, SeqEqual
  <1> QED  BY <1>6 DEF q, u
=============================================================================
