--------------------------- MODULE FlattenProofs ---------------------------
(***************************************************************************)
(* What FlattenSeq of the community modules computes, for every sequence   *)
(* of sequences: appending at the end and taking from the front.  These    *)
(* are the facts about a FIFO of words that Download needs.                *)
(***************************************************************************)
EXTENDS SequencesExt, SequenceTheorems, WellFoundedInduction, TLAPS

\* The bytes of the first i of some words.
Partial(words, f) ==
  f = [i \in 1 .. Len(words) |-> IF i = 1 THEN words[i] ELSE f[i - 1] \o words[i]]

\* FlattenSeq is the last of these.
LEMMA FlattenDef ==
  ASSUME NEW words, Len(words) # 0
  PROVE  FlattenSeq(words) = (CHOOSE f : Partial(words, f))[Len(words)]
  BY DEF FlattenSeq, Partial

LEMMA FlattenEmpty == FlattenSeq(<<>>) = <<>>
  BY DEF FlattenSeq

\* A set of numbers has a least one.
LEMMA LeastElement ==
  ASSUME NEW T \in SUBSET Nat, T # {}
  PROVE  \E m \in T : \A n \in T : m <= n
  <1>1. PICK m \in T : \A n \in T : ~ (<<n, m>> \in OpToRel(<, Nat))
    BY NatLessThanWellFounded, WFMin
  <1>2. \A n \in T : ~ (n < m)
    BY <1>1 DEF OpToRel
  <1>3. QED
    BY <1>2

\* What holds of the first of n numbers, and of each after the one before,
\* holds of all: no number is the first in T, the set of those it fails for.
LEMMA NoFirst ==
  ASSUME NEW n \in Nat, NEW T \in SUBSET (1 .. n),
         \A m \in T : m # 1 /\ m - 1 \in T
  PROVE  T = {}
  <1> SUFFICES ASSUME T # {} PROVE FALSE
    OBVIOUS
  <1>1. T \in SUBSET Nat
    OBVIOUS
  <1>2. PICK m \in T : \A k \in T : m <= k
    BY <1>1, LeastElement
  <1>3. m - 1 \in T /\ m \in Nat
    BY <1>1, <1>2
  <1>4. QED
    BY <1>2, <1>3

-----------------------------------------------------------------------------
(* The function that FlattenSeq defines by recursion.                      *)

\* There is one, whatever the sequence.
LEMMA PartialExists ==
  ASSUME NEW words, Len(words) \in Nat
  PROVE  \E f : Partial(words, f)
  <1> DEFINE Step(f, i) == IF i = 1 THEN words[i] ELSE f[i - 1] \o words[i]
             UpTo(n) == \E f : f = [i \in 1 .. n |-> Step(f, i)]
             T == {n \in Nat : ~UpTo(n)}
  <1>1. UpTo(0)
    <2>1. \A f : [i \in 1 .. 0 |-> Step(f, i)] = [i \in {} |-> 0]
      OBVIOUS
    <2> HIDE DEF Step
    <2>2. QED
      BY <2>1
  <1>2. ASSUME NEW n \in Nat, UpTo(n) PROVE UpTo(n + 1)
    <2>1. PICK f : f = [i \in 1 .. n |-> Step(f, i)]
      BY <1>2
    <2> DEFINE g == [i \in 1 .. n + 1 |-> IF i = n + 1 THEN Step(f, n + 1) ELSE f[i]]
    <2>2. \A i \in 1 .. n : g[i] = f[i] /\ f[i] = Step(f, i)
      <3> HIDE DEF Step
      <3>1. \A i \in 1 .. n : f[i] = Step(f, i)
        BY <2>1
      <3>2. \A i \in 1 .. n : i \in 1 .. n + 1 /\ i # n + 1
        OBVIOUS
      <3>3. QED
        BY <3>1, <3>2
    <2>3. g[n + 1] = Step(f, n + 1)
      OBVIOUS
    <2>4. g = [i \in 1 .. n + 1 |-> g[i]]
      OBVIOUS
    <2> HIDE DEF g
    <2>5. ASSUME NEW i \in 1 .. n + 1 PROVE g[i] = Step(g, i)
      <3>1. CASE i = 1
        BY <2>2, <2>3, <3>1
      <3>2. CASE i # 1
        <4>1. i - 1 \in 1 .. n /\ (i \in 1 .. n \/ i = n + 1)
          BY <3>2
        <4>2. g[i - 1] = f[i - 1]
          BY <2>2, <4>1
        <4>3. QED
          BY <2>2, <2>3, <3>2, <4>1, <4>2
      <3>3. QED
        BY <3>1, <3>2
    <2> HIDE DEF Step
    <2>6. g = [i \in 1 .. n + 1 |-> Step(g, i)]
      BY <2>4, <2>5
    <2>7. QED
      BY <2>6
  <1> HIDE DEF UpTo
  <1>3. T = {}
    <2> SUFFICES ASSUME T # {} PROVE FALSE
      OBVIOUS
    <2>1. PICK m \in T : \A n \in T : m <= n
      BY LeastElement
    <2>2. m # 0 /\ m - 1 \in Nat /\ m - 1 \notin T
      BY <1>1, <2>1
    <2>3. QED
      BY <1>2, <2>1, <2>2
  <1>4. UpTo(Len(words))
    BY <1>3
  <1>5. QED
    BY <1>4 DEF UpTo, Partial

\* What it says of each number of words.
LEMMA PartialStep ==
  ASSUME NEW words, NEW f, Partial(words, f)
  PROVE  \A i \in 1 .. Len(words) :
           f[i] = IF i = 1 THEN words[i] ELSE f[i - 1] \o words[i]
  BY DEF Partial

\* It is a sequence of sequences, of the first one, the first two, ...
LEMMA PartialType ==
  ASSUME NEW S, NEW words \in Seq(Seq(S)), NEW f, Partial(words, f)
  PROVE  \A i \in 1 .. Len(words) : f[i] \in Seq(S)
  <1> DEFINE T == {i \in 1 .. Len(words) : f[i] \notin Seq(S)}
  <1>1. Len(words) \in Nat /\ \A i \in 1 .. Len(words) : words[i] \in Seq(S)
    BY LenProperties, ElementOfSeq
  <1>2. \A i \in 1 .. Len(words) :
          f[i] = IF i = 1 THEN words[i] ELSE f[i - 1] \o words[i]
    BY PartialStep
  <1>3. ASSUME NEW m \in T PROVE m # 1 /\ m - 1 \in T
    <2>1. m # 1
      BY <1>1, <1>2
    <2>2. m - 1 \in 1 .. Len(words)
      BY <1>1, <2>1
    <2>3. f[m - 1] \in Seq(S) => f[m - 1] \o words[m] \in Seq(S)
      BY <1>1, ConcatProperties
    <2>4. QED
      BY <1>2, <2>1, <2>2, <2>3
  <1>4. T \in SUBSET (1 .. Len(words))
    OBVIOUS
  <1> HIDE DEF T
  <1>5. T = {}
    BY <1>1, <1>3, <1>4, NoFirst
  <1>6. QED
    BY <1>5 DEF T

\* Sequences that begin alike have the same prefixes.
LEMMA PartialAgree ==
  ASSUME NEW S, NEW words \in Seq(S), NEW more \in Seq(S), NEW f, NEW g,
         Partial(words, f), Partial(more, g), Len(words) <= Len(more),
         \A i \in 1 .. Len(words) : words[i] = more[i]
  PROVE  \A i \in 1 .. Len(words) : f[i] = g[i]
  <1> DEFINE T == {i \in 1 .. Len(words) : f[i] # g[i]}
  <1>1. Len(words) \in Nat /\ Len(more) \in Nat
    BY LenProperties
  <1>2. \A i \in 1 .. Len(words) :
          /\ f[i] = IF i = 1 THEN words[i] ELSE f[i - 1] \o words[i]
          /\ g[i] = IF i = 1 THEN words[i] ELSE g[i - 1] \o words[i]
    <2>1. \A i \in 1 .. Len(words) :
            f[i] = IF i = 1 THEN words[i] ELSE f[i - 1] \o words[i]
      BY PartialStep
    <2>2. \A i \in 1 .. Len(more) :
            g[i] = IF i = 1 THEN more[i] ELSE g[i - 1] \o more[i]
      BY PartialStep
    <2>3. 1 .. Len(words) \subseteq 1 .. Len(more)
      BY <1>1
    <2>4. QED
      BY <2>1, <2>2, <2>3
  <1>3. ASSUME NEW m \in T PROVE m # 1 /\ m - 1 \in T
    <2>1. m # 1
      BY <1>2
    <2>2. m - 1 \in 1 .. Len(words)
      BY <1>1, <2>1
    <2>3. QED
      BY <1>2, <2>1, <2>2
  <1>4. T \in SUBSET (1 .. Len(words))
    OBVIOUS
  <1> HIDE DEF T
  <1>5. T = {}
    BY <1>1, <1>3, <1>4, NoFirst
  <1>6. QED
    BY <1>5 DEF T

\* FlattenSeq is the last of the prefixes.
LEMMA FlattenIsPartial ==
  ASSUME NEW S, NEW words \in Seq(Seq(S)), words # <<>>
  PROVE  \E f : Partial(words, f) /\ FlattenSeq(words) = f[Len(words)]
  <1>1. Len(words) \in Nat \ {0}
    BY EmptySeq
  <1>2. PICK f : f = (CHOOSE g : Partial(words, g))
    OBVIOUS
  <1>3. Partial(words, f)
    BY <1>1, <1>2, PartialExists
  <1>4. QED
    BY <1>1, <1>2, <1>3, FlattenDef

-----------------------------------------------------------------------------
(* What FlattenSeq computes.                                               *)

LEMMA FlattenType ==
  ASSUME NEW S, NEW words \in Seq(Seq(S))
  PROVE  FlattenSeq(words) \in Seq(S)
  <1>1. CASE words = <<>>
    <2>1. <<>> \in Seq(S)
      BY EmptySeq
    <2>2. QED
      BY <1>1, <2>1, FlattenEmpty
  <1>2. CASE words # <<>>
    <2>1. PICK f : Partial(words, f) /\ FlattenSeq(words) = f[Len(words)]
      BY <1>2, FlattenIsPartial
    <2>2. Len(words) \in 1 .. Len(words)
      BY <1>2, EmptySeq
    <2>3. QED
      BY <2>1, <2>2, PartialType
  <1>3. QED
    BY <1>1, <1>2

LEMMA FlattenOne ==
  ASSUME NEW S, NEW word \in Seq(S)
  PROVE  FlattenSeq(<<word>>) = word
  <1> DEFINE words == <<word>>
  <1>1. words \in Seq(Seq(S)) /\ words # <<>> /\ Len(words) = 1 /\ words[1] = word
    OBVIOUS
  <1> HIDE DEF words
  <1>2. PICK f : Partial(words, f) /\ FlattenSeq(words) = f[1]
    BY <1>1, FlattenIsPartial
  <1>3. f[1] = word
    BY <1>1, <1>2 DEF Partial
  <1>4. QED
    BY <1>2, <1>3 DEF words

\* A word put in at the end comes out at the end.
LEMMA FlattenAppend ==
  ASSUME NEW S, NEW words \in Seq(Seq(S)), NEW word \in Seq(S)
  PROVE  FlattenSeq(Append(words, word)) = FlattenSeq(words) \o word
  <1> DEFINE more == Append(words, word)
             n == Len(words)
  <1>1. CASE words = <<>>
    <2>1. Append(words, word) = <<word>>
      BY <1>1
    <2>2. QED
      BY <1>1, <2>1, FlattenOne, FlattenEmpty, ConcatEmptySeq
  <1>2. CASE words # <<>>
    <2>1. /\ more \in Seq(Seq(S)) /\ more # <<>> /\ Len(more) = n + 1
          /\ \A i \in 1 .. n : more[i] = words[i]
          /\ more[n + 1] = word
      BY AppendProperties
    <2>2. n \in Nat \ {0}
      BY <1>2, EmptySeq
    <2> HIDE DEF more, n
    <2>3. PICK f : Partial(words, f) /\ FlattenSeq(words) = f[n]
      BY <1>2, FlattenIsPartial DEF n
    <2>4. PICK g : Partial(more, g) /\ FlattenSeq(more) = g[n + 1]
      BY <2>1, FlattenIsPartial
    <2>5. g[n + 1] = g[n] \o word
      <3>1. n + 1 \in 1 .. Len(more) /\ n + 1 # 1 /\ (n + 1) - 1 = n
        BY <2>1, <2>2
      <3>2. \A i \in 1 .. Len(more) :
              g[i] = IF i = 1 THEN more[i] ELSE g[i - 1] \o more[i]
        BY <2>4, PartialStep
      <3>3. QED
        BY <2>1, <3>1, <3>2
    <2>6. f[n] = g[n]
      <3>1. n \in 1 .. n /\ n <= n + 1
        BY <2>2
      <3>2. \A i \in 1 .. Len(words) : f[i] = g[i]
        <4>1. \A i \in 1 .. Len(words) : words[i] = more[i]
          BY <2>1 DEF n
        <4>2. Len(words) <= Len(more)
          BY <2>1, <2>2 DEF n
        <4>3. QED
          BY <2>1, <2>3, <2>4, <4>1, <4>2, PartialAgree
      <3>3. QED
        BY <3>1, <3>2 DEF n
    <2>7. QED
      BY <2>3, <2>4, <2>5, <2>6 DEF more
  <1>3. QED
    BY <1>1, <1>2

\* The first word comes out first.
LEMMA FlattenTail ==
  ASSUME NEW S, NEW words \in Seq(Seq(S)), words # <<>>
  PROVE  FlattenSeq(words) = Head(words) \o FlattenSeq(Tail(words))
  <1> DEFINE rest == Tail(words)
             n == Len(rest)
  <1>1. /\ rest \in Seq(Seq(S)) /\ Head(words) \in Seq(S) /\ Head(words) = words[1]
        /\ Len(words) = n + 1 /\ n \in Nat
        /\ \A i \in 1 .. n : rest[i] = words[i + 1]
    BY HeadTailProperties, LenProperties
  <1> HIDE DEF rest, n
  <1>2. PICK f : Partial(words, f) /\ FlattenSeq(words) = f[n + 1]
    BY <1>1, FlattenIsPartial
  <1>3. /\ f[1] = words[1]
        /\ \A i \in 1 .. n : f[i + 1] = f[i] \o words[i + 1]
    <2>1. \A i \in 1 .. n + 1 :
            f[i] = IF i = 1 THEN words[i] ELSE f[i - 1] \o words[i]
      <3>1. \A i \in 1 .. Len(words) :
              f[i] = IF i = 1 THEN words[i] ELSE f[i - 1] \o words[i]
        BY <1>2, PartialStep
      <3>2. QED
        BY <1>1, <3>1
    <2>2. 1 \in 1 .. n + 1
      BY <1>1
    <2>3. \A i \in 1 .. n : i + 1 \in 1 .. n + 1 /\ i + 1 # 1 /\ (i + 1) - 1 = i
      BY <1>1
    <2>4. QED
      BY <2>1, <2>2, <2>3
  <1>4. CASE rest = <<>>
    <2>1. n = 0
      BY <1>4, EmptySeq DEF n
    <2>2. QED
      <3>1. FlattenSeq(words) = Head(words)
        BY <1>1, <1>2, <1>3, <2>1
      <3>2. FlattenSeq(Tail(words)) = <<>>
        BY <1>4, FlattenEmpty DEF rest
      <3>3. Head(words) \o <<>> = Head(words)
        BY <1>1, ConcatEmptySeq
      <3>4. QED
        BY <3>1, <3>2, <3>3
  <1>5. CASE rest # <<>>
    <2>1. PICK g : Partial(rest, g) /\ FlattenSeq(rest) = g[n]
      BY <1>1, <1>5, FlattenIsPartial DEF n
    <2>2. n # 0
      BY <1>1, <1>5, EmptySeq DEF n
    <2>3. \A i \in 1 .. n : g[i] = IF i = 1 THEN rest[i] ELSE g[i - 1] \o rest[i]
      BY <2>1 DEF Partial, n
    <2>4. \A i \in 1 .. n : g[i] \in Seq(S) /\ rest[i] \in Seq(S)
      BY <1>1, <2>1, PartialType, ElementOfSeq DEF n
    <2> DEFINE T == {i \in 1 .. n : f[i + 1] # words[1] \o g[i]}
    <2>5. ASSUME NEW m \in T PROVE m # 1 /\ m - 1 \in T
      <3>1. m # 1
        <4> SUFFICES ASSUME m = 1 PROVE FALSE
          OBVIOUS
        <4>1. f[1 + 1] = f[1] \o words[1 + 1] /\ rest[1] = words[1 + 1] /\ g[1] = rest[1]
          BY <1>1, <1>3, <2>3
        <4>2. f[1 + 1] # words[1] \o g[1]
          OBVIOUS
        <4>3. QED
          BY <1>3, <4>1, <4>2
      <3>2. m - 1 \in 1 .. n /\ (m - 1) + 1 = m
        BY <1>1, <3>1
      <3>3. f[m + 1] = f[m] \o rest[m] /\ g[m] = g[m - 1] \o rest[m]
        BY <1>1, <1>3, <2>3, <3>1
      <3>4. (words[1] \o g[m - 1]) \o rest[m] = words[1] \o (g[m - 1] \o rest[m])
        <4>1. words[1] \in Seq(S) /\ g[m - 1] \in Seq(S) /\ rest[m] \in Seq(S)
          BY <1>1, <2>4, <3>2
        <4>2. PICK s \in Seq(S), t \in Seq(S), u \in Seq(S) :
                s = words[1] /\ t = g[m - 1] /\ u = rest[m]
          BY <4>1
        <4> HIDE DEF T
        <4>3. (s \o t) \o u = s \o (t \o u)
          OBVIOUS
        <4>4. QED
          BY <4>2, <4>3
      <3>5. f[m] # words[1] \o g[m - 1]
        BY <3>3, <3>4
      <3>6. QED
        BY <3>1, <3>2, <3>5
    <2>6. T \in SUBSET (1 .. n)
      OBVIOUS
    <2> HIDE DEF T
    <2>7. T = {}
      BY <1>1, <2>5, <2>6, NoFirst
    <2>8. n \in 1 .. n
      BY <1>1, <2>2
    <2>9. f[n + 1] = words[1] \o g[n]
      BY <2>7, <2>8 DEF T
    <2>10. QED
      BY <1>1, <1>2, <2>1, <2>9 DEF rest
  <1>6. QED
    BY <1>4, <1>5
=============================================================================
