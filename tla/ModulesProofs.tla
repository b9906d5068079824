---------------------------- MODULE ModulesProofs ----------------------------
(***************************************************************************)
(* Theorems about loading a program, for every set of projects: the loader *)
(* reaches every declaration, the search finds a cycle of imports exactly  *)
(* when there is one, and the names bound are the declared ones.           *)
(***************************************************************************)
EXTENDS Modules, SequenceTheorems, WellFoundedInduction, TLAPS

-----------------------------------------------------------------------------
(* Induction and recursion *)

\* Induction over the natural numbers, for a set of them.
LEMMA SetInduction ==
  ASSUME NEW S, 0 \in S, \A n \in Nat : n \in S => n + 1 \in S
  PROVE  Nat \subseteq S
<1> DEFINE missing == Nat \ S
<1>1. SUFFICES ASSUME missing # {} PROVE FALSE
  OBVIOUS
<1>2. \E i \in missing : \A j \in missing : ~ (<<j, i>> \in OpToRel(<, Nat))
  <2>1. missing \subseteq Nat /\ missing # {}
    BY <1>1
  <2> HIDE DEF missing
  <2> QED
    BY <2>1, NatLessThanWellFounded, WFMin
<1>3. PICK i \in missing : \A j \in missing : ~ (j < i)
  BY <1>2 DEF OpToRel
<1>4. i # 0
  OBVIOUS
<1>5. i - 1 \in Nat /\ i - 1 < i /\ i = (i - 1) + 1
  BY <1>4
<1>6. i - 1 \in S
  BY <1>3, <1>5
<1> QED
  BY <1>5, <1>6

\* A nonempty set of natural numbers has a least element.
LEMMA LeastElement ==
  ASSUME NEW S, S \subseteq Nat, S # {}
  PROVE  \E i \in S : \A j \in S : i <= j
<1>1. \E i \in S : \A j \in S : ~ (<<j, i>> \in OpToRel(<, Nat))
  BY NatLessThanWellFounded, WFMin
<1>2. \E i \in S : \A j \in S : ~ (j < i)
  BY <1>1 DEF OpToRel
<1> QED
  BY <1>2

\* A function defined by recursion up to n exists, and keeps to its type.
Recursion(g, n, base, step) ==
  g = [k \in 0 .. n |-> IF k = 0 THEN base ELSE step[k][g[k - 1]]]

LEMMA RecursionDefines ==
  ASSUME NEW T, NEW base \in T, NEW step \in [Nat -> [T -> T]], NEW n \in Nat
  PROVE  \E g \in [0 .. n -> T] : Recursion(g, n, base, step)
<1> DEFINE Unfolds(m, g) == \A k \in 0 .. m : g[k] = IF k = 0 THEN base ELSE step[k][g[k - 1]]
           stages == {m \in Nat : \E g \in [0 .. m -> T] : Unfolds(m, g)}
<1>1. 0 \in stages
  <2> DEFINE g == [k \in 0 .. 0 |-> base]
  <2>1. g \in [0 .. 0 -> T] /\ Unfolds(0, g)
    OBVIOUS
  <2> QED
    BY <2>1
<1>2. ASSUME NEW m \in Nat, m \in stages PROVE m + 1 \in stages
  <2>1. PICK g \in [0 .. m -> T] : Unfolds(m, g)
    BY <1>2
  <2> DEFINE h == [k \in 0 .. m + 1 |-> IF k <= m THEN g[k] ELSE step[m + 1][g[m]]]
  <2>2. h \in [0 .. m + 1 -> T]
    <3> SUFFICES ASSUME NEW k \in 0 .. m + 1
                 PROVE  (IF k <= m THEN g[k] ELSE step[m + 1][g[m]]) \in T
      OBVIOUS
    <3>1. m \in 0 .. m /\ g[m] \in T
      BY <2>1
    <3>2. k <= m => k \in 0 .. m /\ g[k] \in T
      BY <2>1
    <3> QED
      BY <3>1, <3>2
  <2>3. \A k \in 0 .. m : h[k] = g[k]
    OBVIOUS
  <2>4. h[m + 1] = step[m + 1][h[m]]
    OBVIOUS
  <2>5. Unfolds(m + 1, h)
    <3> SUFFICES ASSUME NEW k \in 0 .. m + 1
                 PROVE  h[k] = IF k = 0 THEN base ELSE step[k][h[k - 1]]
      OBVIOUS
    <3>1. CASE k = m + 1
      <4>1. k # 0 /\ k - 1 = m
        BY <3>1
      <4> HIDE DEF h
      <4> QED
        BY <2>4, <3>1, <4>1
    <3>2. CASE k # m + 1
      <4>1. k \in 0 .. m /\ (k # 0 => k - 1 \in 0 .. m)
        BY <3>2
      <4> HIDE DEF h
      <4> QED
        BY <2>1, <2>3, <4>1
    <3> QED
      BY <3>1, <3>2
  <2>6. \E f \in [0 .. m + 1 -> T] : Unfolds(m + 1, f)
    <3> HIDE DEF h, Unfolds
    <3> QED
      BY <2>2, <2>5
  <2> QED
    BY <2>6
<1>3. n \in stages
  <2> HIDE DEF stages
  <2> QED
    BY <1>1, <1>2, SetInduction
<1>4. PICK g \in [0 .. n -> T] : Unfolds(n, g)
  BY <1>3
<1>5. g = [k \in 0 .. n |-> IF k = 0 THEN base ELSE step[k][g[k - 1]]]
  BY <1>4
<1> QED
  BY <1>5 DEF Recursion

-----------------------------------------------------------------------------
(* Sequences *)

\* The elements of a sequence with one more at its end.
LEMMA AppendedElements ==
  ASSUME NEW X, NEW s \in Seq(X), NEW x
  PROVE  ToSet(Append(s, x)) = ToSet(s) \cup {x}
<1>1. /\ DOMAIN s = 1 .. Len(s) /\ Len(s) \in Nat
      /\ DOMAIN Append(s, x) = 1 .. (Len(s) + 1)
      /\ \A k \in 1 .. Len(s) : Append(s, x)[k] = s[k]
      /\ Append(s, x)[Len(s) + 1] = x
  OBVIOUS
<1>2. 1 .. (Len(s) + 1) = (1 .. Len(s)) \cup {Len(s) + 1}
  BY <1>1
<1> QED
  BY <1>1, <1>2 DEF ToSet

\* Picked takes the elements at the given positions, and no others.
LEMMA PickedIs ==
  ASSUME NEW X, NEW s \in Seq(X), NEW at \in SUBSET DOMAIN s
  PROVE  /\ Picked(s, at) \in Seq(X)
         /\ ToSet(Picked(s, at)) = {s[k] : k \in at}
<1> DEFINE n == Len(s)
           T == Seq(X)
           step == [k \in Nat |-> [v \in T |-> IF k \in at THEN Append(v, s[k]) ELSE v]]
           Unfolds(g) == g = [k \in 0 .. n |->
             IF k = 0 THEN <<>> ELSE IF k \in at THEN Append(g[k - 1], s[k]) ELSE g[k - 1]]
<1>1. n \in Nat /\ <<>> \in T /\ DOMAIN s = 1 .. n
  OBVIOUS
<1>2. step \in [Nat -> [T -> T]]
  <2> SUFFICES ASSUME NEW k \in Nat, NEW v \in T
               PROVE  (IF k \in at THEN Append(v, s[k]) ELSE v) \in T
    OBVIOUS
  <2> QED
    OBVIOUS
<1>3. PICK g \in [0 .. n -> T] :
        g = [k \in 0 .. n |-> IF k = 0 THEN <<>> ELSE step[k][g[k - 1]]]
  <2> DEFINE base == <<>>
  <2>1. base \in T /\ n \in Nat
    OBVIOUS
  <2> HIDE DEF n, step, T, base
  <2>2. \E g \in [0 .. n -> T] : Recursion(g, n, base, step)
    BY <1>2, <2>1, RecursionDefines
  <2> QED
    BY <2>2 DEF Recursion, base
<1>4. Unfolds(g)
  <2>1. ASSUME NEW k \in 0 .. n, k # 0
        PROVE  step[k][g[k - 1]] = IF k \in at THEN Append(g[k - 1], s[k]) ELSE g[k - 1]
    <3>1. k - 1 \in 0 .. n /\ k \in Nat
      BY <1>1, <2>1
    <3>2. g[k - 1] \in T
      BY <1>3, <3>1
    <3> QED
      BY <3>1, <3>2
  <2> HIDE DEF n, step, T
  <2> QED
    BY <1>3, <2>1
<1> DEFINE upto == CHOOSE f : Unfolds(f)
<1>5. Unfolds(upto)
  <2> HIDE DEF Unfolds
  <2> QED
    BY <1>4
<1>6. Picked(s, at) = upto[n]
  BY DEF Picked
<1>7. \A k \in 0 .. n : upto[k] =
        IF k = 0 THEN <<>> ELSE IF k \in at THEN Append(upto[k - 1], s[k]) ELSE upto[k - 1]
  <2> HIDE DEF n, upto
  <2> QED
    BY <1>5
<1> HIDE DEF upto, Unfolds, T, n, step
<1> DEFINE Right(k) == /\ upto[k] \in Seq(X)
                       /\ ToSet(upto[k]) = {s[j] : j \in at \cap (1 .. k)}
           good == {k \in Nat : k \in 0 .. n => Right(k)}
<1>8. 0 \in good
  <2>1. upto[0] = <<>>
    BY <1>1, <1>7
  <2>2. ToSet(<<>>) = {} /\ at \cap (1 .. 0) = {}
    BY DEF ToSet
  <2>3. {s[j] : j \in at \cap (1 .. 0)} = {}
    BY <2>2
  <2>4. <<>> \in Seq(X)
    OBVIOUS
  <2>5. Right(0)
    BY <2>1, <2>2, <2>3, <2>4
  <2> QED
    BY <2>5
<1>9. ASSUME NEW k \in Nat, k \in good PROVE k + 1 \in good
  <2> SUFFICES ASSUME k + 1 \in 0 .. n PROVE Right(k + 1)
    OBVIOUS
  <2>1. k \in 0 .. n /\ k + 1 # 0 /\ (k + 1) - 1 = k /\ k + 1 \in DOMAIN s
    BY <1>1
  <2>2. Right(k)
    BY <1>9, <2>1
  <2>3. 1 .. (k + 1) = (1 .. k) \cup {k + 1}
    OBVIOUS
  <2>4. CASE k + 1 \in at
    <3>1. upto[k + 1] = Append(upto[k], s[k + 1])
      BY <1>7, <2>1, <2>4
    <3>2. upto[k + 1] \in Seq(X)
      BY <2>1, <2>2, <3>1
    <3>3. ToSet(upto[k + 1]) = ToSet(upto[k]) \cup {s[k + 1]}
      BY <2>1, <2>2, <3>1, AppendedElements
    <3>4. {s[j] : j \in at \cap (1 .. (k + 1))} = {s[j] : j \in at \cap (1 .. k)} \cup {s[k + 1]}
      BY <2>3, <2>4
    <3> QED
      BY <2>2, <3>2, <3>3, <3>4
  <2>5. CASE k + 1 \notin at
    <3>1. upto[k + 1] = upto[k]
      BY <1>7, <2>1, <2>5
    <3>2. at \cap (1 .. (k + 1)) = at \cap (1 .. k)
      BY <2>3, <2>5
    <3> QED
      BY <2>2, <3>1, <3>2
  <2> QED
    BY <2>4, <2>5
<1>10. Right(n)
  <2> HIDE DEF Right
  <2>1. n \in good
    <3> HIDE DEF good
    <3> QED
      BY <1>1, <1>8, <1>9, SetInduction
  <2> QED
    BY <1>1, <2>1
<1>11. at \cap (1 .. n) = at
  BY <1>1
<1> QED
  BY <1>6, <1>10, <1>11

\* The elements of two sequences in a row.
LEMMA JoinedElements ==
  ASSUME NEW X, NEW s \in Seq(X), NEW t \in Seq(X)
  PROVE  s \o t \in Seq(X) /\ ToSet(s \o t) = ToSet(s) \cup ToSet(t)
<1>1. /\ Len(s) \in Nat /\ Len(t) \in Nat
      /\ DOMAIN s = 1 .. Len(s) /\ DOMAIN t = 1 .. Len(t)
      /\ DOMAIN (s \o t) = 1 .. (Len(s) + Len(t))
      /\ \A k \in 1 .. Len(s) : (s \o t)[k] = s[k]
      /\ \A k \in 1 .. Len(t) : (s \o t)[Len(s) + k] = t[k]
  OBVIOUS
<1>2. ASSUME NEW k \in DOMAIN (s \o t) PROVE (s \o t)[k] \in ToSet(s) \cup ToSet(t)
  <2>1. CASE k <= Len(s)
    BY <1>1, <2>1 DEF ToSet
  <2>2. CASE ~ (k <= Len(s))
    <3>1. k - Len(s) \in 1 .. Len(t) /\ k = Len(s) + (k - Len(s))
      BY <1>1, <2>2
    <3>2. (s \o t)[k] = t[k - Len(s)]
      BY <1>1, <3>1
    <3> QED
      BY <1>1, <3>1, <3>2 DEF ToSet
  <2> QED
    BY <2>1, <2>2
<1>3. ToSet(s) \subseteq ToSet(s \o t)
  BY <1>1 DEF ToSet
<1>4. ToSet(t) \subseteq ToSet(s \o t)
  <2> SUFFICES ASSUME NEW k \in 1 .. Len(t) PROVE t[k] \in ToSet(s \o t)
    BY <1>1 DEF ToSet
  <2>1. Len(s) + k \in DOMAIN (s \o t) /\ (s \o t)[Len(s) + k] = t[k]
    BY <1>1
  <2> QED
    BY <2>1 DEF ToSet
<1>5. ToSet(s \o t) \subseteq ToSet(s) \cup ToSet(t)
  BY <1>2 DEF ToSet
<1> QED
  BY <1>3, <1>4, <1>5

\* FlattenSeq loses no element, and makes none up.
LEMMA FlattenIs ==
  ASSUME NEW X, NEW seqs \in Seq(Seq(X))
  PROVE  /\ FlattenSeq(seqs) \in Seq(X)
         /\ \A x : x \in ToSet(FlattenSeq(seqs)) <=> \E k \in DOMAIN seqs : x \in ToSet(seqs[k])
<1> DEFINE n == Len(seqs)
           T == Seq(X)
           Unfolds(f) == f = [i \in 1 .. n |-> IF i = 1 THEN seqs[i] ELSE f[i - 1] \o seqs[i]]
<1>1. /\ n \in Nat /\ DOMAIN seqs = 1 .. n
      /\ \A i \in 1 .. n : seqs[i] \in T
  OBVIOUS
<1>2. CASE n = 0
  <2>1. FlattenSeq(seqs) = seqs /\ DOMAIN seqs = {}
    BY <1>1, <1>2 DEF FlattenSeq
  <2>2. ToSet(seqs) = {}
    BY <2>1 DEF ToSet
  <2>3. seqs = <<>>
    BY <1>2
  <2>4. seqs \in Seq(X)
    BY <2>3
  <2> QED
    BY <2>1, <2>2, <2>4
<1>3. CASE n # 0
  <2> DEFINE step == [k \in Nat |-> [v \in T |-> IF k + 1 \in 1 .. n THEN v \o seqs[k + 1] ELSE v]]
             base == seqs[1]
             m == n - 1
  <2>1. base \in T /\ m \in Nat
    BY <1>1, <1>3
  <2>2. step \in [Nat -> [T -> T]]
    <3> SUFFICES ASSUME NEW k \in Nat, NEW v \in T
                 PROVE  (IF k + 1 \in 1 .. n THEN v \o seqs[k + 1] ELSE v) \in T
      OBVIOUS
    <3>1. k + 1 \in 1 .. n => seqs[k + 1] \in Seq(X)
      BY <1>1
    <3> HIDE DEF n
    <3> QED
      BY <3>1
  <2>3. PICK g \in [0 .. m -> T] : Recursion(g, m, base, step)
    <3> HIDE DEF base, m, step, T
    <3> QED
      BY <2>1, <2>2, RecursionDefines
  <2>4. \A k \in 0 .. m : g[k] = IF k = 0 THEN base ELSE step[k][g[k - 1]]
    BY <2>3 DEF Recursion
  <2>5. \A k \in 1 .. m : g[k] = g[k - 1] \o seqs[k + 1]
    <3> SUFFICES ASSUME NEW k \in 1 .. m PROVE g[k] = g[k - 1] \o seqs[k + 1]
      OBVIOUS
    <3>1. k \in 0 .. m /\ k # 0 /\ k \in Nat /\ k - 1 \in 0 .. m /\ k + 1 \in 1 .. n
      BY <1>1
    <3>2. g[k - 1] \in T
      BY <2>3, <3>1
    <3>3. step[k][g[k - 1]] = g[k - 1] \o seqs[k + 1]
      BY <3>1, <3>2
    <3> HIDE DEF step, m
    <3> QED
      BY <2>4, <3>1, <3>3
  <2> DEFINE h == [i \in 1 .. n |-> g[i - 1]]
  <2>6. Unfolds(h)
    <3>1. ASSUME NEW i \in 1 .. n PROVE g[i - 1] = IF i = 1 THEN seqs[i] ELSE h[i - 1] \o seqs[i]
      <4>1. CASE i = 1
        <5>1. 0 \in 0 .. m /\ i - 1 = 0
          BY <2>1, <4>1
        <5>2. g[0] = base
          BY <2>4, <5>1
        <5> QED
          BY <4>1, <5>1, <5>2
      <4>2. CASE i # 1
        <5>1. i - 1 \in 1 .. m /\ (i - 1) + 1 = i /\ i - 1 \in 1 .. n
          BY <1>1, <4>2
        <5>2. h[i - 1] = g[(i - 1) - 1]
          BY <5>1
        <5>3. g[i - 1] = g[(i - 1) - 1] \o seqs[i]
          BY <2>5, <5>1
        <5> QED
          BY <4>2, <5>2, <5>3
      <4> QED
        BY <4>1, <4>2
    <3> QED
      BY <3>1
  <2> DEFINE flatten == CHOOSE f : Unfolds(f)
  <2>7. Unfolds(flatten)
    <3> HIDE DEF Unfolds, h
    <3> QED
      BY <2>6
  <2>8. FlattenSeq(seqs) = flatten[n]
    BY <1>3 DEF FlattenSeq
  <2>9. \A i \in 1 .. n : flatten[i] = IF i = 1 THEN seqs[i] ELSE flatten[i - 1] \o seqs[i]
    <3> HIDE DEF n, flatten
    <3> QED
      BY <2>7
  <2> HIDE DEF flatten, Unfolds, T, n, step, base, m, h
  <2> DEFINE Right(k) == /\ flatten[k] \in Seq(X)
                         /\ \A x : x \in ToSet(flatten[k]) <=> \E j \in 1 .. k : x \in ToSet(seqs[j])
             good == {k \in Nat : k + 1 \in 1 .. n => Right(k + 1)}
  <2>10. 0 \in good
    <3>1. 1 \in 1 .. n => flatten[1] = seqs[1] /\ seqs[1] \in Seq(X)
      BY <1>1, <2>9 DEF T
    <3>2. 0 + 1 = 1 /\ 1 .. 1 = {1}
      OBVIOUS
    <3> QED
      BY <3>1, <3>2
  <2>11. ASSUME NEW k \in Nat, k \in good PROVE k + 1 \in good
    <3> SUFFICES ASSUME k + 2 \in 1 .. n PROVE Right(k + 2)
      <4>1. (k + 1) + 1 = k + 2 /\ k + 1 \in Nat
        OBVIOUS
      <4> HIDE DEF Right
      <4> QED
        BY <4>1
    <3>1. k + 1 \in 1 .. n /\ (k + 2) - 1 = k + 1 /\ k + 2 # 1
      BY <1>1
    <3>2. Right(k + 1)
      BY <2>11, <3>1
    <3>3. flatten[k + 2] = flatten[k + 1] \o seqs[k + 2] /\ seqs[k + 2] \in Seq(X)
      BY <1>1, <2>9, <3>1 DEF T
    <3>4. flatten[k + 2] \in Seq(X) /\ ToSet(flatten[k + 2]) = ToSet(flatten[k + 1]) \cup ToSet(seqs[k + 2])
      BY <3>2, <3>3, JoinedElements
    <3>5. 1 .. (k + 2) = (1 .. (k + 1)) \cup {k + 2}
      OBVIOUS
    <3> QED
      BY <3>2, <3>4, <3>5
  <2>12. Right(n)
    <3>1. n - 1 \in Nat /\ (n - 1) + 1 = n /\ n \in 1 .. n
      BY <1>1, <1>3
    <3>2. n - 1 \in good
      <4> HIDE DEF good
      <4> QED
        BY <2>10, <2>11, <3>1, SetInduction
    <3> HIDE DEF Right
    <3> QED
      BY <3>1, <3>2
  <2> QED
    BY <1>1, <2>8, <2>12
<1> QED
  BY <1>2, <1>3

\* The least and the greatest number of a set.
LEMMA MinIs ==
  ASSUME NEW S, S \subseteq Nat, S # {}
  PROVE  Min(S) \in S /\ \A k \in S : Min(S) <= k
<1> DEFINE First(x) == \A y \in S : x =< y
<1>1. \E x \in S : First(x)
  BY LeastElement
<1>2. Min(S) = CHOOSE x \in S : First(x)
  BY DEF Min
<1> HIDE DEF First
<1>3. Min(S) \in S /\ First(Min(S))
  BY <1>1, <1>2
<1> QED
  BY <1>3 DEF First

LEMMA MaxIs ==
  ASSUME NEW n \in Nat, NEW S, S \subseteq 1 .. n, S # {}
  PROVE  Max(S) \in S /\ \A k \in S : k <= Max(S)
<1> DEFINE Final(x) == \A y \in S : x >= y
           R == {n - x : x \in S}
<1>1. R \subseteq Nat /\ R # {}
  <2>1. ASSUME NEW x \in S PROVE n - x \in Nat
    <3>1. x \in 1 .. n
      OBVIOUS
    <3> QED
      BY <3>1
  <2>2. PICK x \in S : TRUE
    OBVIOUS
  <2>3. n - x \in R
    OBVIOUS
  <2> QED
    BY <2>1, <2>3
<1>2. PICK r \in R : \A q \in R : r <= q
  <2> HIDE DEF R
  <2> QED
    BY <1>1, LeastElement
<1>3. PICK x \in S : r = n - x
  BY <1>2
<1>4. \A y \in S : n - y \in R
  OBVIOUS
<1>5. Final(x)
  <2> SUFFICES ASSUME NEW y \in S PROVE x >= y
    OBVIOUS
  <2>1. n - x <= n - y
    BY <1>2, <1>3, <1>4
  <2> QED
    BY <2>1
<1>6. Max(S) = CHOOSE y \in S : Final(y)
  BY DEF Max
<1> HIDE DEF Final
<1>7. Max(S) \in S /\ Final(Max(S))
  BY <1>3, <1>5, <1>6
<1> QED
  BY <1>7 DEF Final

\* The last element of a sequence, taken off, put aside for another, or for two.
LEMMA Fronts ==
  ASSUME NEW X, NEW s \in Seq(X), s # <<>>
  PROVE  /\ Front(s) \in Seq(X) /\ Len(Front(s)) = Len(s) - 1
         /\ \A k \in 1 .. (Len(s) - 1) : Front(s)[k] = s[k]
<1>1. Len(s) \in Nat \ {0} /\ Front(s) = SubSeq(s, 1, Len(s) - 1)
  BY DEF Front
<1>2. \A k \in 1 .. (Len(s) - 1) : s[k] \in X
  BY <1>1
<1>3. 1 \in Int /\ Len(s) - 1 \in Int
  BY <1>1
<1>4. /\ SubSeq(s, 1, Len(s) - 1) \in Seq(X)
      /\ Len(SubSeq(s, 1, Len(s) - 1)) = IF 1 <= Len(s) - 1 THEN (Len(s) - 1) - 1 + 1 ELSE 0
      /\ \A k \in 1 .. ((Len(s) - 1) - 1 + 1) : SubSeq(s, 1, Len(s) - 1)[k] = s[1 + k - 1]
  BY <1>2, <1>3, SubSeqProperties
<1>5. (Len(s) - 1) - 1 + 1 = Len(s) - 1 /\ (~ (1 <= Len(s) - 1) => Len(s) - 1 = 0)
  <2>1. \A m \in Nat \ {0} : (m - 1) - 1 + 1 = m - 1 /\ (~ (1 <= m - 1) => m - 1 = 0)
    OBVIOUS
  <2> QED
    BY <1>1, <2>1
<1>6. \A k \in 1 .. (Len(s) - 1) : 1 + k - 1 = k
  BY <1>1
<1> QED
  BY <1>1, <1>4, <1>5, <1>6

Swapped(t, s, x) ==
  /\ Len(t) = Len(s)
  /\ \A k \in 1 .. (Len(s) - 1) : t[k] = s[k]
  /\ t[Len(s)] = x

LEMMA Replaced ==
  ASSUME NEW X, NEW s \in Seq(X), s # <<>>, NEW x \in X
  PROVE  Append(Front(s), x) \in Seq(X) /\ Swapped(Append(Front(s), x), s, x)
<1>1. /\ Front(s) \in Seq(X) /\ Len(Front(s)) = Len(s) - 1
      /\ \A k \in 1 .. (Len(s) - 1) : Front(s)[k] = s[k]
  BY Fronts
<1>2. Len(s) \in Nat \ {0}
  OBVIOUS
<1> QED
  BY <1>1, <1>2 DEF Swapped

Extended(t, s, x, y) ==
  /\ Len(t) = Len(s) + 1
  /\ \A k \in 1 .. (Len(s) - 1) : t[k] = s[k]
  /\ t[Len(s)] = x /\ t[Len(s) + 1] = y

LEMMA Pushed ==
  ASSUME NEW X, NEW s \in Seq(X), s # <<>>, NEW pair \in Seq(X), Len(pair) = 2
  PROVE  Front(s) \o pair \in Seq(X) /\ Extended(Front(s) \o pair, s, pair[1], pair[2])
<1>1. /\ Front(s) \in Seq(X) /\ Len(Front(s)) = Len(s) - 1
      /\ \A k \in 1 .. (Len(s) - 1) : Front(s)[k] = s[k]
  BY Fronts
<1>2. Len(s) \in Nat \ {0}
  OBVIOUS
<1> DEFINE front == Front(s)
           n == Len(s)
<1> HIDE DEF front, n
<1>3. /\ front \o pair \in Seq(X) /\ Len(front \o pair) = Len(front) + Len(pair)
      /\ \A i \in 1 .. (Len(front) + Len(pair)) :
           (front \o pair)[i] = IF i <= Len(front) THEN front[i] ELSE pair[i - Len(front)]
  BY <1>1, ConcatProperties DEF front
<1>4. n \in Nat \ {0} /\ Len(front) = n - 1 /\ Len(front) + Len(pair) = n + 1
  BY <1>1, <1>2 DEF front, n
<1>5. \A i \in 1 .. (n + 1) :
        (front \o pair)[i] = IF i <= n - 1 THEN front[i] ELSE pair[i - (n - 1)]
  BY <1>3, <1>4
<1>6. \A i \in 1 .. (n - 1) : i \in 1 .. (n + 1) /\ i <= n - 1
  BY <1>4
<1>7. /\ n \in 1 .. (n + 1) /\ ~ (n <= n - 1) /\ n - (n - 1) = 1
      /\ n + 1 \in 1 .. (n + 1) /\ ~ (n + 1 <= n - 1) /\ (n + 1) - (n - 1) = 2
  BY <1>4
<1>8. (front \o pair)[n] = pair[1] /\ (front \o pair)[n + 1] = pair[2]
  BY <1>5, <1>7
<1>9. \A k \in 1 .. (n - 1) : (front \o pair)[k] = s[k]
  BY <1>1, <1>5, <1>6 DEF front, n
<1> QED
  BY <1>3, <1>4, <1>8, <1>9 DEF front, n, Extended

LEMMA Appended ==
  ASSUME NEW X, NEW s \in Seq(X), NEW x \in X
  PROVE  /\ Append(s, x) \in Seq(X) /\ Len(Append(s, x)) = Len(s) + 1
         /\ \A k \in 1 .. Len(s) : Append(s, x)[k] = s[k]
         /\ Append(s, x)[Len(s) + 1] = x
         /\ Front(Append(s, x)) = s /\ Last(Append(s, x)) = x
<1> DEFINE t == Append(s, x)
<1>1. /\ t \in Seq(X) /\ Len(t) = Len(s) + 1 /\ Len(s) \in Nat
      /\ \A k \in 1 .. Len(s) : t[k] = s[k]
      /\ t[Len(s) + 1] = x
  OBVIOUS
<1>2. Front(t) = s
  <2> HIDE DEF t
  <2>1. Front(t) \in Seq(X) /\ Len(Front(t)) = Len(s) /\ \A k \in 1 .. Len(s) : Front(t)[k] = s[k]
    BY <1>1, Fronts
  <2> QED
    BY <2>1
<1> QED
  BY <1>1, <1>2 DEF Last

\* The first element of a sequence, and the others.
LEMMA Rests ==
  ASSUME NEW X, NEW s \in Seq(X), s # <<>>
  PROVE  /\ Head(s) \in X /\ Tail(s) \in Seq(X)
         /\ ToSet(s) = {Head(s)} \cup ToSet(Tail(s))
<1>1. /\ Len(s) \in Nat \ {0} /\ DOMAIN s = 1 .. Len(s)
      /\ DOMAIN Tail(s) = 1 .. (Len(s) - 1)
      /\ \A k \in 1 .. (Len(s) - 1) : Tail(s)[k] = s[k + 1]
      /\ Head(s) = s[1] /\ Head(s) \in X /\ Tail(s) \in Seq(X)
  OBVIOUS
<1>2. ASSUME NEW k \in 1 .. Len(s) PROVE s[k] \in {Head(s)} \cup ToSet(Tail(s))
  <2>1. CASE k = 1
    BY <1>1, <2>1
  <2>2. CASE k # 1
    <3>1. k - 1 \in 1 .. (Len(s) - 1) /\ (k - 1) + 1 = k
      BY <1>1, <2>2
    <3>2. Tail(s)[k - 1] = s[k]
      BY <1>1, <3>1
    <3> QED
      BY <1>1, <3>1, <3>2 DEF ToSet
  <2> QED
    BY <2>1, <2>2
<1>3. ASSUME NEW k \in 1 .. (Len(s) - 1) PROVE Tail(s)[k] \in ToSet(s)
  <2>1. k + 1 \in 1 .. Len(s) /\ Tail(s)[k] = s[k + 1]
    BY <1>1
  <2> QED
    BY <1>1, <2>1 DEF ToSet
<1>4. Head(s) \in ToSet(s)
  BY <1>1 DEF ToSet
<1>5. ToSet(s) \subseteq {Head(s)} \cup ToSet(Tail(s))
  BY <1>1, <1>2 DEF ToSet
<1>6. ToSet(Tail(s)) \subseteq ToSet(s)
  BY <1>1, <1>3 DEF ToSet
<1> QED
  BY <1>1, <1>4, <1>5, <1>6

-----------------------------------------------------------------------------
(***************************************************************************)
(* The invariant of the loader.  The stack holds the modules around the    *)
(* one being loaded, each the parent of the next, over files that differ;  *)
(* and every declaration of a file is still to be read, or its module is   *)
(* the next frame or a child, or one of the reasons to go without it holds.*)
(***************************************************************************)
Paths == Seq(Words) \ {<<>>}

ModuleRecords ==
  [path : Paths, file : Seq(Words), items : Seq(Declarations), children : Seq(Nat),
   parent : Nat]

FrameRecords ==
  [id : Nat, path : Paths, file : Seq(Words), chain : Seq(Seq(Words)),
   rest : Seq(Declarations), kept : Seq(Declarations), children : Seq(Nat)]

RootRecords ==
  [path : Paths, file : Seq(Words), chain : Seq(Seq(Words)), text : Texts]

Typed ==
  /\ project \in Projects
  /\ phase \in {"load", "cycles", "names", "done"}
  /\ tops \in Seq(RootRecords)
  /\ frames \in Seq(FrameRecords)
  /\ modules \in Seq(ModuleRecords)
  /\ \A t \in ToSet(tops) : t.file # NoFile => t.file \in Files /\ t.text = project.files[t.file]

ChildrenOf(mods, i) == {c \in 1 .. Len(mods) : mods[c].parent = i}

Placed(mods, i) ==
  /\ mods[i].parent \in 0 .. (i - 1)
  /\ mods[i].parent # 0 => Front(mods[i].path) = mods[mods[i].parent].path
  /\ ToSet(mods[i].children) \subseteq ChildrenOf(mods, i)

Tree == \A i \in Ids : Placed(modules, i)

Framed(mods, stack, k) ==
  /\ stack[k].id \in 1 .. Len(mods)
  /\ stack[k].path = mods[stack[k].id].path
  /\ stack[k].file = mods[stack[k].id].file
  /\ mods[stack[k].id].parent = IF k = 1 THEN 0 ELSE stack[k - 1].id
  /\ ToSet(stack[k].children) \subseteq ChildrenOf(mods, stack[k].id)
  /\ \A j \in 1 .. (k - 1) : stack[j].id < stack[k].id

Stack == \A k \in DOMAIN frames : Framed(modules, frames, k)

Nested ==
  /\ FilesNestOnce
  /\ loading = {frames[k].file : k \in DOMAIN frames} \ {NoFile}
  /\ loading \subseteq Files
  /\ phase # "load" => frames = <<>>

\* Above and Children, of any modules.
Around(mods, i) ==
  LET closed == {some \in SUBSET (1 .. Len(mods)) :
                   i \in some /\ \A j \in some : mods[j].parent \in some \cup {0}}
  IN  {j \in 1 .. Len(mods) : \A some \in closed : j \in some}

Loaded(mods, kids) == {Last(mods[c].path) : c \in kids}

\* The declaration of a module goes without it inside a file of that name.
Enclosing(mods, i, name) ==
  \E j \in Around(mods, i) : mods[j].file # NoFile /\ Last(mods[j].file) = name

\* What a frame, and a module that was loaded, owe to their file.
Declared(files, file) == {d \in ToSet(files[file].items) : IsModule(d)}

Pays(files, mods, stack, k) ==
  stack[k].file \in DOMAIN files =>
    \A d \in Declared(files, stack[k].file) :
      \/ d \in ToSet(stack[k].rest)
      \/ d.name \in Loaded(mods, ToSet(stack[k].children))
      \/ Enclosing(mods, stack[k].id, d.name)
      \/ k < Len(stack) /\ d.name = Last(stack[k + 1].path)

Paid(files, mods, i) ==
  mods[i].file \in DOMAIN files =>
    \A d \in Declared(files, mods[i].file) :
      d.name \in Loaded(mods, ToSet(mods[i].children)) \/ Enclosing(mods, i, d.name)

Accounted ==
  errors = {} =>
    /\ \A k \in DOMAIN frames : Pays(project.files, modules, frames, k)
    /\ \A i \in Ids : (\A k \in DOMAIN frames : frames[k].id # i)
                        => Paid(project.files, modules, i)

LoaderInv == Typed /\ Tree /\ Stack /\ Nested /\ Accounted

-----------------------------------------------------------------------------
(* Steps of the loader *)

\* A module's place is settled when it is allocated.
Grown(old, new) ==
  /\ 1 .. Len(old) \subseteq 1 .. Len(new)
  /\ \A j \in 1 .. Len(old) : /\ new[j].path = old[j].path
                              /\ new[j].file = old[j].file
                              /\ new[j].parent = old[j].parent

Rooted(mods) == \A i \in 1 .. Len(mods) : mods[i].parent \in 0 .. (i - 1)

LEMMA EnclosingKept ==
  ASSUME NEW old, NEW new, Len(old) \in Nat, Rooted(old), Grown(old, new),
         NEW i \in 1 .. Len(old), NEW name, Enclosing(old, i, name)
  PROVE  Enclosing(new, i, name)
<1>1. PICK j \in Around(old, i) : old[j].file # NoFile /\ Last(old[j].file) = name
  BY DEF Enclosing
<1>2. j \in 1 .. Len(old)
  BY DEF Around
<1>3. j \in Around(new, i)
  <2> SUFFICES ASSUME NEW some \in SUBSET (1 .. Len(new)), i \in some,
                      \A m \in some : new[m].parent \in some \cup {0}
               PROVE  j \in some
    BY <1>2 DEF Around, Grown
  <2> DEFINE part == some \cap (1 .. Len(old))
  <2>1. ASSUME NEW m \in part PROVE old[m].parent \in part \cup {0}
    <3>1. old[m].parent \in some \cup {0}
      BY DEF Grown
    <3>2. old[m].parent \in 0 .. (m - 1) /\ m \in 1 .. Len(old)
      BY DEF Rooted
    <3>3. old[m].parent = 0 \/ old[m].parent \in 1 .. Len(old)
      BY <3>2
    <3> QED
      BY <3>1, <3>3
  <2>2. part \in SUBSET (1 .. Len(old)) /\ i \in part
    OBVIOUS
  <2> QED
    BY <2>1, <2>2 DEF Around
<1>4. new[j].file = old[j].file
  BY <1>2 DEF Grown
<1> QED
  BY <1>1, <1>3, <1>4 DEF Enclosing

LEMMA LoadedKept ==
  ASSUME NEW old, NEW new, Grown(old, new), NEW kids, kids \subseteq 1 .. Len(old)
  PROVE  Loaded(new, kids) = Loaded(old, kids)
BY DEF Loaded, Grown

\* The frame being worked on, and the other frames.
LEMMA InnerFrame ==
  ASSUME Typed, Working
  PROVE  /\ Len(frames) \in Nat \ {0} /\ DOMAIN frames = 1 .. Len(frames)
         /\ Inner = frames[Len(frames)] /\ Inner \in FrameRecords
         /\ Inner.rest \in Seq(Declarations) /\ Inner.kept \in Seq(Declarations)
         /\ Inner.children \in Seq(Nat) /\ Inner.id \in Nat /\ Inner.path \in Paths
         /\ Inner.file \in Seq(Words) /\ Inner.chain \in Seq(Seq(Words))
<1>1. frames \in Seq(FrameRecords) /\ frames # <<>>
  BY DEF Typed, Working
<1>2. Len(frames) \in Nat \ {0} /\ DOMAIN frames = 1 .. Len(frames)
  BY <1>1
<1>3. Inner = frames[Len(frames)] /\ Inner \in FrameRecords
  BY <1>1, <1>2 DEF Inner, Last
<1> QED
  BY <1>2, <1>3 DEF FrameRecords

\* One declaration is done with: the frame goes on with the next.
Advances(frame) ==
  /\ Working /\ Inner.rest # <<>>
  /\ frames' = Append(Front(frames), frame)
  /\ frame \in FrameRecords
  /\ frame.id = Inner.id /\ frame.path = Inner.path /\ frame.file = Inner.file
  /\ frame.children = Inner.children /\ frame.rest = Tail(Inner.rest)
  /\ errors \subseteq errors'
  /\ IsModule(Todo) => errors' # {} \/ Enclosing(modules, Inner.id, Todo.name)
  /\ UNCHANGED <<project, phase, tops, loading, modules>>

LEMMA AdvanceKeeps ==
  ASSUME LoaderInv, NEW frame, Advances(frame)
  PROVE  LoaderInv'
<1> USE DEF LoaderInv
<1> DEFINE n == Len(frames)
<1>1. /\ n \in Nat \ {0} /\ DOMAIN frames = 1 .. n /\ Inner = frames[n]
      /\ Inner.rest \in Seq(Declarations)
  BY InnerFrame DEF Advances
<1>2. /\ frames' \in Seq(FrameRecords) /\ DOMAIN frames' = 1 .. n /\ Len(frames') = n
      /\ \A k \in 1 .. (n - 1) : frames'[k] = frames[k]
      /\ frames'[n] = frame
  <2>1. frames \in Seq(FrameRecords) /\ frames # <<>> /\ frame \in FrameRecords
    BY DEF Advances, Working, Typed
  <2>2. Append(Front(frames), frame) \in Seq(FrameRecords) /\ Swapped(Append(Front(frames), frame), frames, frame)
    BY <2>1, Replaced
  <2> QED
    BY <2>2 DEF Advances, Swapped
<1>3. \A k \in 1 .. n : /\ frames'[k].id = frames[k].id
                        /\ frames'[k].path = frames[k].path
                        /\ frames'[k].file = frames[k].file
                        /\ frames'[k].children = frames[k].children
  <2> SUFFICES ASSUME NEW k \in 1 .. n
               PROVE  /\ frames'[k].id = frames[k].id
                      /\ frames'[k].path = frames[k].path
                      /\ frames'[k].file = frames[k].file
                      /\ frames'[k].children = frames[k].children
    OBVIOUS
  <2>1. CASE k = n
    <3>1. frames'[k] = frame /\ frames[k] = Inner
      BY <1>1, <1>2, <2>1
    <3> QED
      BY <3>1 DEF Advances
  <2>2. CASE k # n
    <3>1. k \in 1 .. (n - 1)
      <4> HIDE DEF n
      <4> QED
        BY <1>1, <2>2
    <3> QED
      BY <1>2, <3>1
  <2> QED
    BY <2>1, <2>2
<1> HIDE DEF n
<1>4. Typed'
  BY <1>2 DEF Typed, Advances, Files
<1>5. Tree'
  BY DEF Tree, Advances, Ids
<1>6. Stack'
  <2>1. SUFFICES ASSUME NEW k \in 1 .. n PROVE Framed(modules, frames', k)
    BY <1>2 DEF Stack, Advances
  <2>2. k # 1 => frames'[k - 1].id = frames[k - 1].id
    BY <1>1, <1>3
  <2>3. \A j \in 1 .. (k - 1) : frames'[j].id = frames[j].id
    BY <1>1, <1>3
  <2>4. Framed(modules, frames, k)
    BY <1>1 DEF Stack
  <2> QED
    BY <1>3, <2>2, <2>3, <2>4 DEF Framed
<1>7. Nested'
  <2>1. FilesNestOnce'
    BY <1>1, <1>2, <1>3 DEF Nested, FilesNestOnce
  <2>2. {frames'[k].file : k \in DOMAIN frames'} = {frames[k].file : k \in DOMAIN frames}
    BY <1>1, <1>2, <1>3
  <2>3. phase' = "load"
    BY DEF Advances, Working
  <2> QED
    BY <2>1, <2>2, <2>3 DEF Nested, Advances, Files
<1>8. Accounted'
  <2> SUFFICES ASSUME errors' = {} PROVE Accounted'
    BY DEF Accounted
  <2>1. errors = {} /\ project' = project /\ modules' = modules /\ tops' = tops
    BY DEF Advances
  <2>2. Len(frames') = n /\ Len(frames) = n
    BY <1>2 DEF n
  <2>3. ASSUME NEW k \in 1 .. n, frames'[k].file \in DOMAIN project.files,
               NEW d \in Declared(project.files, frames'[k].file)
        PROVE  \/ d \in ToSet(frames'[k].rest)
               \/ d.name \in Loaded(modules, ToSet(frames'[k].children))
               \/ Enclosing(modules, frames'[k].id, d.name)
               \/ k < Len(frames') /\ d.name = Last(frames'[k + 1].path)
    <3>1. frames[k].file \in DOMAIN project.files /\ d \in Declared(project.files, frames[k].file)
      BY <1>3, <2>3
    <3>2. \/ d \in ToSet(frames[k].rest)
          \/ d.name \in Loaded(modules, ToSet(frames[k].children))
          \/ Enclosing(modules, frames[k].id, d.name)
          \/ k < Len(frames) /\ d.name = Last(frames[k + 1].path)
      BY <1>1, <2>1, <3>1 DEF Accounted, Pays
    <3>3. frames'[k].children = frames[k].children /\ frames'[k].id = frames[k].id
      BY <1>3
    <3>4. k < n => frames'[k + 1].path = frames[k + 1].path /\ frames'[k].rest = frames[k].rest
      BY <1>1, <1>2, <1>3
    <3>5. CASE k = n /\ d \in ToSet(frames[k].rest)
      <4>1. d = Todo \/ d \in ToSet(frames'[k].rest)
        <5>1. ToSet(Inner.rest) = {Head(Inner.rest)} \cup ToSet(Tail(Inner.rest))
          BY <1>1, Rests DEF Advances
        <5>2. frames'[k].rest = Tail(Inner.rest)
          BY <1>2, <3>5 DEF Advances
        <5> QED
          BY <1>1, <3>5, <5>1, <5>2 DEF Todo
      <4>2. d = Todo => Enclosing(modules, Inner.id, d.name)
        BY DEF Advances, Declared
      <4>3. Inner.id = frames[k].id
        BY <1>1, <3>5
      <4> QED
        BY <3>3, <4>1, <4>2, <4>3
    <3>6. CASE k < n \/ d \notin ToSet(frames[k].rest)
      BY <2>2, <3>2, <3>3, <3>4, <3>6
    <3> QED
      BY <1>1, <3>5, <3>6
  <2>4. ASSUME NEW i \in Ids, \A k \in DOMAIN frames' : frames'[k].id # i
        PROVE  Paid(project.files, modules, i)
    <3>1. \A k \in DOMAIN frames : frames[k].id # i
      BY <1>1, <1>2, <1>3, <2>4
    <3> QED
      BY <2>1, <3>1 DEF Accounted
  <2>6. \A k \in 1 .. n : Pays(project.files, modules, frames', k)
    BY <2>3 DEF Pays
  <2> QED
    BY <1>2, <2>1, <2>4, <2>6 DEF Accounted, Ids
<1> QED
  BY <1>4, <1>5, <1>6, <1>7, <1>8


\* No file of a project is the file of no module.
LEMMA ProjectFiles ==
  ASSUME Typed
  PROVE  /\ IsProject(project) /\ NoFile \notin Files /\ Files \subseteq Seq(Words)
         /\ \A file \in Files : project.files[file] \in Texts
<1>1. IsProject(project)
  BY ProjectsAssumption DEF Typed
<1> QED
  BY <1>1 DEF IsProject, Files

\* A module is allocated, and its frame opened on the stack.
Opens(module, frame) ==
  /\ phase = "load"
  /\ module \in ModuleRecords /\ frame \in FrameRecords
  /\ module.children = <<>> /\ module.parent = IF frames = <<>> THEN 0 ELSE Inner.id
  /\ module.parent # 0 => Front(module.path) = Inner.path
  /\ module.file = NoFile \/ module.file \in Files \ loading
  /\ errors = {} /\ module.file \in Files => frame.rest = project.files[module.file].items
  /\ frame.id = Len(modules) + 1 /\ frame.path = module.path /\ frame.file = module.file
  /\ frame.children = <<>>
  /\ modules' = Append(modules, module)
  /\ loading' = IF module.file = NoFile THEN loading ELSE loading \cup {module.file}
  /\ frames' \in Seq(FrameRecords) /\ Len(frames') = Len(frames) + 1
  /\ \A k \in 1 .. Len(frames) : /\ frames'[k].id = frames[k].id
                                 /\ frames'[k].path = frames[k].path
                                 /\ frames'[k].file = frames[k].file
                                 /\ frames'[k].children = frames[k].children
                                 /\ k # Len(frames) => frames'[k].rest = frames[k].rest
  /\ frames'[Len(frames) + 1] = frame
  /\ frames # <<>> => /\ Inner.rest # <<>> /\ Todo.name = Last(module.path)
                      /\ frames'[Len(frames)].rest = Tail(Inner.rest)
  /\ tops' \in Seq(RootRecords) /\ ToSet(tops') \subseteq ToSet(tops)
  /\ UNCHANGED <<project, phase, errors>>

LEMMA OpenKeeps ==
  ASSUME LoaderInv, NEW module, NEW frame, Opens(module, frame)
  PROVE  LoaderInv'
<1> USE DEF LoaderInv
<1> DEFINE n == Len(frames)
           m == Len(modules)
<1>1. /\ n \in Nat /\ DOMAIN frames = 1 .. n /\ m \in Nat
      /\ frames # <<>> => /\ n # 0 /\ Inner = frames[n] /\ Inner.rest \in Seq(Declarations)
                          /\ Inner.id = frames[n].id /\ Inner.path = frames[n].path
  <2>1. n \in Nat /\ DOMAIN frames = 1 .. n /\ m \in Nat
    BY DEF Typed
  <2>2. frames # <<>> => Working
    BY DEF Working, Opens
  <2>3. frames # <<>> => n # 0
    BY DEF Typed
  <2> QED
    BY <2>1, <2>2, <2>3, InnerFrame
<1>2. DOMAIN frames' = 1 .. (n + 1) /\ Len(frames') = n + 1
  <2>1. frames' \in Seq(FrameRecords) /\ Len(frames') = n + 1
    BY DEF Opens
  <2> HIDE DEF n
  <2> QED
    BY <2>1
<1>3. /\ modules' \in Seq(ModuleRecords) /\ Len(modules') = m + 1
      /\ \A i \in 1 .. m : modules'[i] = modules[i]
      /\ modules'[m + 1] = module
  BY Appended DEF Typed, Opens
<1>4. 1 .. (m + 1) = (1 .. m) \cup {m + 1} /\ 1 .. (n + 1) = (1 .. n) \cup {n + 1}
  BY <1>1
<1>5. Grown(modules, modules')
  BY <1>1, <1>3 DEF Grown
<1>6. Rooted(modules)
  BY DEF Tree, Rooted, Placed, Ids
<1>7. \A i \in 1 .. m : ChildrenOf(modules, i) \subseteq ChildrenOf(modules', i)
  BY <1>3, <1>4 DEF ChildrenOf
<1>8. \A k \in 1 .. n : Framed(modules, frames, k)
  BY <1>1 DEF Stack
<1>9. ToSet(<<>>) = {}
  BY DEF ToSet
<1>10. Typed'
  BY <1>3 DEF Typed, Opens, Files
<1> HIDE DEF n, m
<1>11. Tree'
  <2> SUFFICES ASSUME NEW i \in 1 .. (m + 1) PROVE Placed(modules', i)
    BY <1>3 DEF Tree, Ids
  <2>1. CASE i \in 1 .. m
    <3>1. Placed(modules, i)
      BY <2>1 DEF Tree, Ids, m
    <3>2. modules'[i] = modules[i]
      BY <1>3, <2>1
    <3>3. modules[i].parent # 0 => modules[i].parent \in 1 .. m
      BY <1>1, <2>1, <3>1 DEF Placed
    <3>4. modules[i].parent # 0 => modules'[modules[i].parent] = modules[modules[i].parent]
      BY <1>3, <3>3
    <3> QED
      BY <1>7, <2>1, <3>1, <3>2, <3>4 DEF Placed
  <2>2. CASE i = m + 1
    <3>1. modules'[i] = module
      BY <1>3, <2>2
    <3>2. module.parent # 0 => /\ frames # <<>> /\ module.parent = frames[n].id
                               /\ Front(module.path) = frames[n].path
      <4>1. CASE frames = <<>>
        BY <4>1 DEF Opens
      <4>2. CASE frames # <<>>
        BY <1>1, <4>2 DEF Opens
      <4> QED
        BY <4>1, <4>2
    <3>3. frames # <<>> => n \in 1 .. n /\ frames[n].id \in 1 .. m
                           /\ frames[n].path = modules[frames[n].id].path
      BY <1>1, <1>8 DEF Framed, m
    <3>4. module.parent # 0 => /\ module.parent \in 1 .. m
                               /\ Front(module.path) = modules[module.parent].path
      BY <3>2, <3>3
    <3>5. module.parent # 0 => modules'[module.parent] = modules[module.parent]
      BY <1>3, <3>4
    <3>6. ToSet(module.children) = {}
      BY <1>9 DEF Opens
    <3>7. module.parent \in 0 .. (i - 1)
      BY <1>1, <2>2, <3>4
    <3> QED
      BY <3>1, <3>4, <3>5, <3>6, <3>7 DEF Placed
  <2> QED
    BY <1>4, <2>1, <2>2
<1>12. Stack'
  <2> SUFFICES ASSUME NEW k \in 1 .. (n + 1) PROVE Framed(modules', frames', k)
    BY <1>2 DEF Stack
  <2>1. CASE k \in 1 .. n
    <3>1. Framed(modules, frames, k)
      BY <1>8, <2>1
    <3>2. modules'[frames[k].id] = modules[frames[k].id]
      BY <1>3, <3>1 DEF Framed, m
    <3>3. k # 1 => k - 1 \in 1 .. n
      BY <1>1, <2>1
    <3>4. \A j \in 1 .. (k - 1) : j \in 1 .. n
      BY <1>1, <2>1
    <3>5. \A j \in 1 .. n : /\ frames'[j].id = frames[j].id
                            /\ frames'[j].path = frames[j].path
                            /\ frames'[j].file = frames[j].file
                            /\ frames'[j].children = frames[j].children
      BY DEF Opens, n
    <3>6. frames[k].id \in 1 .. m /\ frames[k].id \in 1 .. Len(modules')
      BY <1>3, <1>4, <3>1 DEF Framed, m
    <3>7. ToSet(frames[k].children) \subseteq ChildrenOf(modules', frames[k].id)
      BY <1>7, <3>1, <3>6 DEF Framed
    <3>8. modules[frames[k].id].parent = IF k = 1 THEN 0 ELSE frames'[k - 1].id
      BY <3>1, <3>3, <3>5 DEF Framed
    <3>9. \A j \in 1 .. (k - 1) : frames'[j].id < frames'[k].id
      BY <2>1, <3>1, <3>4, <3>5 DEF Framed
    <3> QED
      BY <2>1, <3>1, <3>2, <3>5, <3>6, <3>7, <3>8, <3>9 DEF Framed
  <2>2. CASE k = n + 1
    <3>1. frames'[k] = frame
      BY <2>2 DEF Opens, n
    <3>2. frame.id = m + 1 /\ modules'[m + 1] = module /\ m + 1 \in 1 .. Len(modules')
      BY <1>1, <1>3 DEF Opens, m
    <3>3. module.parent = IF k = 1 THEN 0 ELSE frames'[k - 1].id
      <4>1. k = 1 <=> frames = <<>>
        <5>1. frames \in Seq(FrameRecords)
          BY DEF Typed
        <5> QED
          BY <1>1, <2>2, <5>1 DEF n
      <4>2. k # 1 => /\ k - 1 = n /\ n \in 1 .. n
        BY <1>1, <2>2
      <4>3. k # 1 => frames'[n].id = frames[n].id
        BY <4>2 DEF Opens, n
      <4> QED
        BY <1>1, <4>1, <4>2, <4>3 DEF Opens
    <3>4. \A j \in 1 .. (k - 1) : frames'[j].id < m + 1
      <4> SUFFICES ASSUME NEW j \in 1 .. n PROVE frames'[j].id < m + 1
        BY <1>1, <2>2
      <4>1. frames'[j].id = frames[j].id /\ frames[j].id \in 1 .. m
        BY <1>8 DEF Opens, Framed, m, n
      <4> QED
        BY <1>1, <4>1
    <3>5. ToSet(frame.children) = {}
      BY <1>9 DEF Opens
    <3> QED
      BY <3>1, <3>2, <3>3, <3>4, <3>5 DEF Framed, Opens
  <2> QED
    BY <1>4, <2>1, <2>2
<1>13. Nested'
  <2>1. \A k \in 1 .. n : frames'[k].file = frames[k].file
    BY DEF Opens, n
  <2>2. frames'[n + 1].file = module.file
    BY DEF Opens, n
  <2>3. module.file = NoFile \/ \A k \in 1 .. n : frames[k].file # module.file
    BY <1>1 DEF Nested, Opens
  <2>4. FilesNestOnce'
    <3> SUFFICES ASSUME NEW j \in 1 .. (n + 1), NEW k \in 1 .. (n + 1), j # k,
                        frames'[j].file # NoFile
                 PROVE  frames'[j].file # frames'[k].file
      BY <1>2 DEF FilesNestOnce
    <3>1. CASE j \in 1 .. n /\ k \in 1 .. n
      BY <1>1, <2>1, <3>1 DEF Nested, FilesNestOnce
    <3>2. CASE j = n + 1
      <4>1. k \in 1 .. n
        BY <1>4, <3>2
      <4> QED
        BY <2>1, <2>2, <2>3, <3>2, <4>1
    <3>3. CASE k = n + 1
      <4>1. j \in 1 .. n
        BY <1>4, <3>3
      <4> QED
        BY <2>1, <2>2, <2>3, <3>3, <4>1
    <3> QED
      BY <1>4, <3>1, <3>2, <3>3
  <2>5. {frames'[k].file : k \in 1 .. (n + 1)} = {frames[k].file : k \in 1 .. n} \cup {module.file}
    BY <1>4, <2>1, <2>2
  <2>6. loading = {frames[k].file : k \in 1 .. n} \ {NoFile} /\ loading \subseteq Files
    BY <1>1 DEF Nested
  <2>7. loading' = {frames'[k].file : k \in 1 .. (n + 1)} \ {NoFile}
    BY <2>5, <2>6 DEF Opens
  <2>8. loading' \subseteq Files'
    BY <2>6 DEF Opens, Files
  <2>9. phase' = "load"
    BY DEF Opens
  <2> QED
    BY <1>2, <2>4, <2>7, <2>8, <2>9 DEF Nested
<1>14. Accounted'
  <2> SUFFICES ASSUME errors' = {} PROVE Accounted'
    BY DEF Accounted
  <2>1. errors = {} /\ project' = project
    BY DEF Opens
  <2>3. ASSUME NEW k \in 1 .. n PROVE Pays(project.files, modules', frames', k)
    <3> SUFFICES ASSUME frames'[k].file \in DOMAIN project.files,
                        NEW d \in Declared(project.files, frames'[k].file)
                 PROVE  \/ d \in ToSet(frames'[k].rest)
                        \/ d.name \in Loaded(modules', ToSet(frames'[k].children))
                        \/ Enclosing(modules', frames'[k].id, d.name)
                        \/ k < Len(frames') /\ d.name = Last(frames'[k + 1].path)
      BY DEF Pays
    <3>1. /\ frames'[k].id = frames[k].id /\ frames'[k].path = frames[k].path
          /\ frames'[k].file = frames[k].file /\ frames'[k].children = frames[k].children
      BY DEF Opens, n
    <3>2. \/ d \in ToSet(frames[k].rest)
          \/ d.name \in Loaded(modules, ToSet(frames[k].children))
          \/ Enclosing(modules, frames[k].id, d.name)
          \/ k < n /\ d.name = Last(frames[k + 1].path)
      BY <1>1, <2>1, <3>1 DEF Accounted, Pays, n
    <3>3. Framed(modules, frames, k)
      BY <1>8
    <3>4. ToSet(frames[k].children) \subseteq 1 .. m
      BY <3>3 DEF Framed, ChildrenOf, m
    <3>5. Loaded(modules', ToSet(frames[k].children)) = Loaded(modules, ToSet(frames[k].children))
      BY <1>5, <3>4, LoadedKept DEF m
    <3>6. Enclosing(modules, frames[k].id, d.name) => Enclosing(modules', frames[k].id, d.name)
      BY <1>1, <1>5, <1>6, <3>3, EnclosingKept DEF Framed, m
    <3>7. k < n => frames'[k + 1].path = frames[k + 1].path /\ frames'[k].rest = frames[k].rest
      <4>1. k < n => k + 1 \in 1 .. n /\ k # n
        BY <1>1
      <4> QED
        BY <4>1 DEF Opens, n
    <3>8. CASE k < n
      <4>1. k < Len(frames')
        BY <1>1, <1>2, <3>8
      <4> QED
        BY <3>1, <3>2, <3>5, <3>6, <3>7, <3>8, <4>1
    <3>9. CASE ~ (k < n)
      <4>1. k = n /\ n # 0 /\ n < Len(frames')
        BY <1>1, <1>2, <3>9
      <4>2. frames # <<>>
        BY <4>1 DEF n
      <4>3. d \in ToSet(frames[k].rest) => d = Todo \/ d \in ToSet(frames'[k].rest)
        <5>1. ToSet(Inner.rest) = {Head(Inner.rest)} \cup ToSet(Tail(Inner.rest))
          BY <1>1, <4>2, Rests, SMTT(30) DEF Opens
        <5>2. frames'[k].rest = Tail(Inner.rest) /\ Inner = frames[k]
          BY <1>1, <4>1, <4>2 DEF Opens, n
        <5> QED
          BY <5>1, <5>2 DEF Todo
      <4>4. Todo.name = Last(frames'[k + 1].path)
        BY <4>1, <4>2 DEF Opens, n
      <4> QED
        BY <3>1, <3>2, <3>5, <3>6, <4>1, <4>3, <4>4
    <3> QED
      BY <3>8, <3>9
  <2>4. Pays(project.files, modules', frames', n + 1)
    <3>1. frames'[n + 1] = frame
      BY DEF Opens, n
    <3>2. frame.file \in DOMAIN project.files => frame.rest = project.files[frame.file].items
      BY <2>1 DEF Opens, Files
    <3> QED
      BY <3>1, <3>2 DEF Pays, Declared
  <2>5. ASSUME NEW i \in 1 .. (m + 1), \A k \in DOMAIN frames' : frames'[k].id # i
        PROVE  Paid(project.files, modules', i)
    <3>1. frames'[n + 1].id = m + 1
      BY DEF Opens, n, m
    <3>2. i \in 1 .. m
      BY <1>1, <1>2, <1>4, <2>5, <3>1, SMTT(30)
    <3>3. \A k \in DOMAIN frames : frames[k].id # i
      BY <1>1, <1>2, <1>4, <2>5 DEF Opens, n
    <3>4. Paid(project.files, modules, i)
      BY <2>1, <3>2, <3>3 DEF Accounted, Ids, m
    <3>5. modules'[i] = modules[i]
      BY <1>3, <3>2
    <3>6. ToSet(modules[i].children) \subseteq 1 .. m
      BY <3>2 DEF Tree, Placed, Ids, ChildrenOf, m
    <3>7. Loaded(modules', ToSet(modules[i].children)) = Loaded(modules, ToSet(modules[i].children))
      BY <1>5, <3>6, LoadedKept DEF m
    <3>8. \A name : Enclosing(modules, i, name) => Enclosing(modules', i, name)
      BY <1>1, <1>5, <1>6, <3>2, EnclosingKept DEF m
    <3> QED
      BY <3>4, <3>5, <3>7, <3>8 DEF Paid
  <2>6. \A k \in DOMAIN frames' : Pays(project.files, modules', frames', k)
    BY <1>2, <1>4, <2>3, <2>4
  <2> QED
    BY <1>3, <2>1, <2>5, <2>6 DEF Accounted, Ids
<1> QED
  BY <1>10, <1>11, <1>12, <1>13, <1>14

\* A frame closes: its module is complete, and a child of the frame below.
LEMMA CloseKeeps ==
  ASSUME LoaderInv, Close
  PROVE  LoaderInv'
<1> USE DEF LoaderInv
<1> DEFINE n == Len(frames)
           m == Len(modules)
           top == Inner.id
<1>1. /\ n \in Nat \ {0} /\ DOMAIN frames = 1 .. n /\ Inner = frames[n]
      /\ Inner.rest = <<>> /\ Inner.kept \in Seq(Declarations) /\ Inner.children \in Seq(Nat)
      /\ top \in Nat /\ m \in Nat
  BY InnerFrame DEF Close, Typed
<1>2. \A k \in 1 .. n : Framed(modules, frames, k)
  BY <1>1 DEF Stack
<1>3. top \in 1 .. m /\ modules[top].path = frames[n].path /\ modules[top].file = frames[n].file
      /\ ToSet(Inner.children) \subseteq ChildrenOf(modules, top)
  BY <1>1, <1>2 DEF Framed
<1>4. /\ modules' \in Seq(ModuleRecords) /\ Len(modules') = m
      /\ \A i \in 1 .. m : /\ modules'[i].path = modules[i].path
                           /\ modules'[i].file = modules[i].file
                           /\ modules'[i].parent = modules[i].parent
                           /\ i # top => modules'[i].children = modules[i].children
      /\ modules'[top].children = Inner.children
  <2> DEFINE mod == [modules[top] EXCEPT !.items = Inner.kept, !.children = Inner.children]
  <2>1. modules \in Seq(ModuleRecords) /\ modules[top] \in ModuleRecords
    BY <1>1, <1>3 DEF Typed
  <2>2. /\ mod \in ModuleRecords /\ mod.children = Inner.children
        /\ mod.path = modules[top].path /\ mod.file = modules[top].file
        /\ mod.parent = modules[top].parent
    BY <1>1, <2>1 DEF ModuleRecords
  <2>3. modules' = [modules EXCEPT ![top] = mod]
    BY <2>1 DEF Close, ModuleRecords
  <2> HIDE DEF mod, top
  <2>4. /\ modules' \in Seq(ModuleRecords) /\ Len(modules') = m
        /\ \A i \in 1 .. m : modules'[i] = IF i = top THEN mod ELSE modules[i]
    BY <1>3, <2>1, <2>2, <2>3, ExceptSeq
  <2> QED
    BY <1>3, <2>2, <2>4
<1>5. /\ frames' \in Seq(FrameRecords) /\ DOMAIN frames' = 1 .. (n - 1) /\ Len(frames') = n - 1
      /\ \A k \in 1 .. (n - 1) : /\ frames'[k].id = frames[k].id
                                 /\ frames'[k].path = frames[k].path
                                 /\ frames'[k].file = frames[k].file
                                 /\ frames'[k].rest = frames[k].rest
                                 /\ ToSet(frames'[k].children) =
                                      ToSet(frames[k].children)
                                        \cup (IF k = n - 1 THEN {top} ELSE {})
  <2>1. CASE n = 1
    <3>1. frames' = <<>>
      BY <2>1 DEF Close
    <3> DEFINE none == <<>>
    <3>2. none \in Seq(FrameRecords) /\ DOMAIN none = 1 .. 0 /\ Len(none) = 0
      OBVIOUS
    <3> QED
      BY <2>1, <3>1, <3>2
  <2>2. CASE n # 1
    <3> DEFINE stack == Front(frames)
               frame == [frames[n - 1] EXCEPT !.children = Append(@, top)]
    <3>1. /\ stack \in Seq(FrameRecords) /\ Len(stack) = n - 1
          /\ \A k \in 1 .. (n - 1) : stack[k] = frames[k]
      BY <1>1, Fronts, Zenon DEF Typed, Close, Working
    <3>2. n - 1 \in 1 .. (n - 1) /\ n - 1 \in 1 .. n
      <4> HIDE DEF n
      <4> QED
        BY <1>1, <2>2
    <3>3. frames[n - 1] \in FrameRecords /\ frames[n - 1].children \in Seq(Nat)
      <4>1. frames \in Seq(FrameRecords)
        BY DEF Typed
      <4>2. frames[n - 1] \in FrameRecords
        BY <3>2, <4>1, ElementOfSeq
      <4> QED
        BY <4>2 DEF FrameRecords
    <3>4. /\ frame \in FrameRecords /\ frame.id = frames[n - 1].id
          /\ frame.path = frames[n - 1].path /\ frame.file = frames[n - 1].file
          /\ frame.rest = frames[n - 1].rest
          /\ frame.children = Append(frames[n - 1].children, top)
      <4> DEFINE kids == Append(frames[n - 1].children, top)
      <4>1. kids \in Seq(Nat)
        BY <1>1, <3>3
      <4>2. frame = [frames[n - 1] EXCEPT !.children = kids]
        OBVIOUS
      <4> HIDE DEF kids, frame, n
      <4>3. frame \in FrameRecords /\ frame.children = kids
        BY <3>3, <4>1, <4>2 DEF FrameRecords
      <4>4. /\ frame.id = frames[n - 1].id /\ frame.path = frames[n - 1].path
            /\ frame.file = frames[n - 1].file /\ frame.rest = frames[n - 1].rest
        BY <3>3, <4>2 DEF FrameRecords
      <4> QED
        BY <4>3, <4>4 DEF kids
    <3>5. ToSet(frame.children) = ToSet(frames[n - 1].children) \cup {top}
      BY <3>3, <3>4, AppendedElements
    <3>6. stack[n - 1] = frames[n - 1]
      BY <3>1, <3>2
    <3>7. frames' = [stack EXCEPT ![n - 1] = frame]
      BY <2>2, <3>6 DEF Close
    <3> HIDE DEF frame, stack
    <3>8. /\ frames' \in Seq(FrameRecords) /\ Len(frames') = n - 1
          /\ \A k \in 1 .. (n - 1) : frames'[k] = IF k = n - 1 THEN frame ELSE stack[k]
      BY <3>1, <3>2, <3>4, <3>7, ExceptSeq
    <3>9. DOMAIN frames' = 1 .. (n - 1)
      BY <3>8
    <3> SUFFICES ASSUME NEW k \in 1 .. (n - 1)
                 PROVE  /\ frames'[k].id = frames[k].id
                        /\ frames'[k].path = frames[k].path
                        /\ frames'[k].file = frames[k].file
                        /\ frames'[k].rest = frames[k].rest
                        /\ ToSet(frames'[k].children) =
                             ToSet(frames[k].children)
                               \cup (IF k = n - 1 THEN {top} ELSE {})
      BY <3>8, <3>9
    <3>10. CASE k = n - 1
      BY <3>4, <3>5, <3>8, <3>10
    <3>11. CASE k # n - 1
      BY <3>1, <3>8, <3>11
    <3> QED
      BY <3>10, <3>11
  <2> QED
    BY <2>1, <2>2
<1>6. Grown(modules, modules')
  BY <1>4 DEF Grown
<1>7. Rooted(modules)
  BY DEF Tree, Rooted, Placed, Ids
<1>8. \A i : ChildrenOf(modules', i) = ChildrenOf(modules, i)
  BY <1>4 DEF ChildrenOf
<1>9. Typed'
  BY <1>4, <1>5 DEF Typed, Close, Files
<1>10. \A k \in 1 .. (n - 1) : k \in 1 .. n /\ frames[k].id # top
  <2> SUFFICES ASSUME NEW k \in 1 .. (n - 1) PROVE k \in 1 .. n /\ frames[k].id # top
    OBVIOUS
  <2>1. n \in 1 .. n /\ k \in 1 .. n
    <3> HIDE DEF n
    <3> QED
      BY <1>1
  <2>2. frames[k].id < frames[n].id /\ frames[k].id \in 1 .. m /\ frames[n].id \in 1 .. m
    BY <1>2, <2>1 DEF Framed
  <2> QED
    BY <1>1, <2>1, <2>2
<1> HIDE DEF n, m, top
<1>11. Tree'
  <2> SUFFICES ASSUME NEW i \in 1 .. m PROVE Placed(modules', i)
    BY <1>4 DEF Tree, Ids
  <2>1. Placed(modules, i)
    BY DEF Tree, Ids, m
  <2>2. modules[i].parent # 0 => modules[i].parent \in 1 .. m
    BY <1>1, <2>1 DEF Placed
  <2>3. ToSet(modules'[i].children) \subseteq ChildrenOf(modules', i)
    BY <1>3, <1>4, <1>8, <2>1 DEF Placed
  <2> QED
    BY <1>4, <2>1, <2>2, <2>3 DEF Placed
<1>12. Stack'
  <2> SUFFICES ASSUME NEW k \in 1 .. (n - 1) PROVE Framed(modules', frames', k)
    BY <1>5 DEF Stack
  <2>1. k \in 1 .. n /\ Framed(modules, frames, k)
    BY <1>2, <1>10
  <2>2. frames[k].id \in 1 .. m
    BY <2>1 DEF Framed, m
  <2>3. k # 1 => k - 1 \in 1 .. (n - 1)
    BY <1>1
  <2>4. \A j \in 1 .. (k - 1) : j \in 1 .. (n - 1)
    BY <1>1
  <2>5. ToSet(frames'[k].children) \subseteq ChildrenOf(modules', frames[k].id)
    <3>1. ToSet(frames[k].children) \subseteq ChildrenOf(modules, frames[k].id)
      BY <2>1 DEF Framed
    <3>2. k = n - 1 => top \in ChildrenOf(modules, frames[k].id)
      <4> SUFFICES ASSUME k = n - 1 PROVE top \in ChildrenOf(modules, frames[k].id)
        OBVIOUS
      <4>1. n \in 1 .. n /\ n # 1
        BY <1>1
      <4>2. modules[frames[n].id].parent = frames[n - 1].id
        BY <1>2, <4>1 DEF Framed
      <4> QED
        BY <1>1, <1>3, <4>2 DEF ChildrenOf, top, m
    <3> QED
      BY <1>5, <1>8, <3>1, <3>2
  <2>6. modules'[frames[k].id].parent = IF k = 1 THEN 0 ELSE frames'[k - 1].id
    BY <1>4, <1>5, <2>1, <2>2, <2>3 DEF Framed
  <2>7. \A j \in 1 .. (k - 1) : frames'[j].id < frames'[k].id
    BY <1>5, <2>1, <2>4 DEF Framed
  <2> QED
    BY <1>4, <1>5, <2>1, <2>2, <2>5, <2>6, <2>7, SMTT(30) DEF Framed
<1>13. Nested'
  <2>1. FilesNestOnce /\ loading = {frames[k].file : k \in 1 .. n} \ {NoFile}
    BY <1>1 DEF Nested
  <2>2. FilesNestOnce'
    BY <1>1, <1>5, <1>10, <2>1 DEF FilesNestOnce
  <2>3. {frames'[k].file : k \in 1 .. (n - 1)} = {frames[k].file : k \in 1 .. (n - 1)}
    BY <1>5
  <2>4. \A k \in 1 .. (n - 1) : frames[k].file = NoFile \/ frames[k].file # frames[n].file
    <3>1. n \in 1 .. n /\ \A k \in 1 .. (n - 1) : k # n /\ k \in 1 .. n
      BY <1>1
    <3> QED
      BY <1>1, <2>1, <3>1 DEF FilesNestOnce
  <2>5. 1 .. n = (1 .. (n - 1)) \cup {n}
    BY <1>1
  <2>6. loading' = {frames'[k].file : k \in 1 .. (n - 1)} \ {NoFile}
    <3>1. loading' = loading \ {frames[n].file}
      BY <1>1 DEF Close
    <3>2. {frames[k].file : k \in 1 .. n} = {frames[k].file : k \in 1 .. (n - 1)} \cup {frames[n].file}
      BY <2>5
    <3> QED
      BY <2>1, <2>3, <2>4, <3>1, <3>2
  <2>7. loading' \subseteq Files'
    BY DEF Close, Nested, Files
  <2>8. phase' = "load"
    BY DEF Close, Working
  <2> QED
    BY <1>5, <2>2, <2>6, <2>7, <2>8 DEF Nested
<1>14. Accounted'
  <2> SUFFICES ASSUME errors' = {} PROVE Accounted'
    BY DEF Accounted
  <2>1. errors = {} /\ project' = project /\ tops' = tops
    BY DEF Close
  <2>3. \A i \in 1 .. m : \A name : Enclosing(modules, i, name) => Enclosing(modules', i, name)
    BY <1>1, <1>6, <1>7, EnclosingKept DEF m
  <2>4. \A kids : kids \subseteq 1 .. m => Loaded(modules', kids) = Loaded(modules, kids)
    BY <1>6, LoadedKept DEF m
  <2>5. ASSUME NEW k \in 1 .. (n - 1) PROVE Pays(project.files, modules', frames', k)
    <3> SUFFICES ASSUME frames'[k].file \in DOMAIN project.files,
                        NEW d \in Declared(project.files, frames'[k].file)
                 PROVE  \/ d \in ToSet(frames'[k].rest)
                        \/ d.name \in Loaded(modules', ToSet(frames'[k].children))
                        \/ Enclosing(modules', frames'[k].id, d.name)
                        \/ k < Len(frames') /\ d.name = Last(frames'[k + 1].path)
      BY DEF Pays
    <3>1. \/ d \in ToSet(frames[k].rest)
          \/ d.name \in Loaded(modules, ToSet(frames[k].children))
          \/ Enclosing(modules, frames[k].id, d.name)
          \/ k < n /\ d.name = Last(frames[k + 1].path)
      BY <1>1, <1>5, <1>10, <2>1 DEF Accounted, Pays, n
    <3>2. Framed(modules, frames, k)
      BY <1>2, <1>10
    <3>3. frames[k].id \in 1 .. m /\ ToSet(frames[k].children) \subseteq 1 .. m
      BY <3>2 DEF Framed, ChildrenOf, m
    <3>4. Enclosing(modules, frames[k].id, d.name) => Enclosing(modules', frames'[k].id, d.name)
      BY <1>5, <2>3, <3>3
    <3>5. Loaded(modules, ToSet(frames[k].children)) \subseteq Loaded(modules', ToSet(frames'[k].children))
      <4>1. Loaded(modules', ToSet(frames[k].children)) = Loaded(modules, ToSet(frames[k].children))
        BY <2>4, <3>3
      <4>2. ToSet(frames[k].children) \subseteq ToSet(frames'[k].children)
        BY <1>5
      <4> QED
        BY <4>1, <4>2 DEF Loaded
    <3>6. ASSUME k < n, d.name = Last(frames[k + 1].path)
          PROVE  \/ k < n - 1 /\ d.name = Last(frames'[k + 1].path)
                 \/ d.name \in Loaded(modules', ToSet(frames'[k].children))
      <4>1. CASE k = n - 1
        <5>1. k + 1 = n
          BY <1>1, <4>1
        <5>2. top \in ToSet(frames'[k].children)
          BY <1>5, <4>1
        <5>3. modules'[top].path = frames[n].path
          BY <1>3, <1>4
        <5>4. d.name = Last(modules'[top].path)
          BY <3>6, <5>1, <5>3
        <5> QED
          BY <5>2, <5>4 DEF Loaded
      <4>2. CASE k # n - 1
        <5>1. k < n - 1 /\ k + 1 \in 1 .. (n - 1)
          BY <1>1, <4>2
        <5> QED
          BY <1>5, <3>6, <5>1
      <4> QED
        BY <4>1, <4>2
    <3> QED
      BY <1>5, <3>1, <3>4, <3>5, <3>6
  <2>6. ASSUME NEW i \in 1 .. m, \A k \in DOMAIN frames' : frames'[k].id # i
        PROVE  Paid(project.files, modules', i)
    <3>1. CASE i = top
      <4>1. n \in 1 .. n /\ ~ (n < n)
        BY <1>1
      <4>2. Pays(project.files, modules, frames, n)
        BY <1>1, <2>1, <4>1 DEF Accounted
      <4>3. frames[n].rest = <<>> /\ ToSet(<<>>) = {}
        BY <1>1 DEF ToSet
      <4>4. modules'[i].file = frames[n].file /\ modules'[i].children = frames[n].children
        BY <1>1, <1>3, <1>4, <3>1
      <4>5. ToSet(frames[n].children) \subseteq 1 .. m
        BY <1>1, <1>3 DEF ChildrenOf, m
      <4>6. Loaded(modules', ToSet(frames[n].children)) = Loaded(modules, ToSet(frames[n].children))
        BY <2>4, <4>5
      <4>7. frames[n].id = i
        BY <1>1, <3>1 DEF top
      <4> QED
        BY <2>3, <4>1, <4>2, <4>3, <4>4, <4>6, <4>7 DEF Pays, Paid, n
    <3>2. CASE i # top
      <4>1. 1 .. n = (1 .. (n - 1)) \cup {n} /\ frames[n].id # i
        BY <1>1, <3>2 DEF top
      <4>2. \A k \in 1 .. n : frames[k].id # i
        BY <1>5, <2>6, <4>1
      <4>3. Paid(project.files, modules, i)
        BY <1>1, <2>1, <4>2 DEF Accounted, Ids, m
      <4>4. modules'[i].file = modules[i].file /\ modules'[i].children = modules[i].children
        BY <1>4, <3>2
      <4>5. ToSet(modules[i].children) \subseteq 1 .. m
        BY DEF Tree, Placed, Ids, ChildrenOf, m
      <4>6. Loaded(modules', ToSet(modules[i].children)) = Loaded(modules, ToSet(modules[i].children))
        BY <2>4, <4>5
      <4> QED
        BY <2>3, <4>3, <4>4, <4>6 DEF Paid
    <3> QED
      BY <3>1, <3>2
  <2> QED
    BY <1>4, <1>5, <2>1, <2>5, <2>6 DEF Accounted, Ids
<1> QED
  BY <1>9, <1>11, <1>12, <1>13, <1>14

\* The declaration being read.
LEMMA TodoIs ==
  ASSUME Typed, Working, Inner.rest # <<>>
  PROVE  /\ Todo \in Declarations /\ IsDeclaration(Todo) /\ Tail(Inner.rest) \in Seq(Declarations)
         /\ IsModule(Todo) => /\ ChildPath \in Paths /\ Todo.name \in Words
                              /\ Front(ChildPath) = Inner.path /\ Last(ChildPath) = Todo.name
<1>1. Inner.rest \in Seq(Declarations) /\ Inner.path \in Paths
  BY InnerFrame
<1>2. Todo \in Declarations /\ Tail(Inner.rest) \in Seq(Declarations)
  BY <1>1, Rests DEF Todo
<1>3. IsDeclaration(Todo)
  BY <1>2, ProjectsAssumption
<1>4. IsModule(Todo) => Todo.name \in Words
  BY <1>3 DEF IsModule, IsDeclaration, Identifiers
<1>5. Inner.path \in Seq(Words)
  BY <1>1 DEF Paths
<1>6. IsModule(Todo) => /\ ChildPath \in Seq(Words) /\ Len(ChildPath) = Len(Inner.path) + 1
                        /\ Front(ChildPath) = Inner.path /\ Last(ChildPath) = Todo.name
  BY <1>4, <1>5, Appended DEF ChildPath
<1>7. IsModule(Todo) => ChildPath # <<>>
  <2>1. Len(Inner.path) \in Nat /\ Len(<<>>) = 0
    BY <1>5
  <2> QED
    BY <1>6, <2>1
<1> QED
  BY <1>2, <1>3, <1>4, <1>6, <1>7 DEF Paths

\* The frame after the declaration.
LEMMA RestFrame ==
  ASSUME Typed, Working, Inner.rest # <<>>
  PROVE  /\ Rest \in FrameRecords /\ Rest.id = Inner.id /\ Rest.path = Inner.path
         /\ Rest.file = Inner.file /\ Rest.children = Inner.children
         /\ Rest.rest = Tail(Inner.rest)
<1> DEFINE todo == Tail(Inner.rest)
<1>1. todo \in Seq(Declarations) /\ Inner \in FrameRecords
  BY TodoIs, InnerFrame
<1>2. Rest = [Inner EXCEPT !.rest = todo]
  BY DEF Rest
<1> HIDE DEF todo
<1>3. /\ Rest \in FrameRecords /\ Rest.id = Inner.id /\ Rest.path = Inner.path
      /\ Rest.file = Inner.file /\ Rest.children = Inner.children /\ Rest.rest = todo
  BY <1>1, <1>2 DEF FrameRecords
<1> QED
  BY <1>3 DEF todo

LEMMA RestIs ==
  ASSUME Typed, Working, Inner.rest # <<>>, NEW kept \in Seq(Declarations)
  PROVE  LET frame == [Rest EXCEPT !.kept = kept]
         IN  /\ frame \in FrameRecords /\ frame.id = Inner.id /\ frame.path = Inner.path
             /\ frame.file = Inner.file /\ frame.children = Inner.children
             /\ frame.rest = Tail(Inner.rest)
<1> DEFINE frame == [Rest EXCEPT !.kept = kept]
<1>1. /\ frame \in FrameRecords /\ frame.id = Rest.id /\ frame.path = Rest.path
      /\ frame.file = Rest.file /\ frame.children = Rest.children /\ frame.rest = Rest.rest
  BY RestFrame DEF FrameRecords
<1> QED
  BY <1>1, RestFrame

\* The file that a declaration is found in has its name.
LEMMA FileIs ==
  ASSUME Typed, Declaring, Slot # 0
  PROVE  /\ Slot \in 1 .. Len(Inner.chain) /\ Inner.chain[Slot] \in Seq(Words)
         /\ File \in Files /\ File # NoFile /\ File \in Seq(Words) /\ Last(File) = Todo.name
<1> DEFINE name == Todo.name
           chain == Inner.chain
           Test(dir) == ToSet(Places(dir, name)) \cap Files # {}
           slots == {i \in 1 .. Len(chain) : Test(chain[i])}
<1>1. chain \in Seq(Seq(Words)) /\ name \in Words
  BY InnerFrame, TodoIs DEF Declaring, IsModule
<1>2. Slot = IF slots # {} THEN Min(slots) ELSE 0
  BY DEF Slot, MatchedSlot, SelectInSeq
<1>3. slots \subseteq Nat
  <2>1. Len(chain) \in Nat
    BY <1>1
  <2> HIDE DEF chain, Test
  <2> QED
    BY <2>1
<1>4. Slot \in slots
  <2> HIDE DEF slots
  <2> QED
    BY <1>2, <1>3, MinIs
<1>5. Slot \in 1 .. Len(chain) /\ Test(chain[Slot])
  BY <1>4
<1> DEFINE dir == chain[Slot]
           near == Append(dir, name)
           far == dir \o <<name, name>>
<1>6. dir \in Seq(Words)
  BY <1>1, <1>5, ElementOfSeq
<1>7. ToSet(Places(dir, name)) = {near, far}
  <2>1. Places(dir, name) = <<near, far>>
    BY DEF Places
  <2> HIDE DEF near, far
  <2> QED
    BY <2>1 DEF ToSet
<1>8. File = IF near \in Files THEN near ELSE far
  BY DEF File, MatchedFile, Places
<1>9. near \in Seq(Words) /\ Last(near) = name
  <2> HIDE DEF dir, name
  <2> QED
    BY <1>1, <1>6, Appended
<1>10. far \in Seq(Words) /\ Last(far) = name
  <2> HIDE DEF dir, name
  <2> DEFINE two == <<name, name>>
  <2>1. two \in Seq(Words) /\ Len(two) = 2 /\ two[2] = name /\ Len(dir) \in Nat
    BY <1>1, <1>6
  <2> HIDE DEF two
  <2>2. /\ dir \o two \in Seq(Words) /\ Len(dir \o two) = Len(dir) + 2
        /\ (dir \o two)[Len(dir) + 2] = two[2]
    <3>1. \A i \in 1 .. (Len(dir) + Len(two)) :
            (dir \o two)[i] = IF i <= Len(dir) THEN dir[i] ELSE two[i - Len(dir)]
      BY <1>6, <2>1, ConcatProperties
    <3>2. dir \o two \in Seq(Words) /\ Len(dir \o two) = Len(dir) + Len(two)
      BY <1>6, <2>1, ConcatProperties
    <3>3. /\ Len(dir) + 2 \in 1 .. (Len(dir) + Len(two)) /\ ~ (Len(dir) + 2 <= Len(dir))
          /\ (Len(dir) + 2) - Len(dir) = 2
      BY <2>1
    <3> QED
      BY <2>1, <3>1, <3>2, <3>3
  <2> QED
    BY <2>1, <2>2 DEF Last, two
<1>11. File \in Files
  <2> HIDE DEF near, far
  <2> QED
    BY <1>5, <1>7, <1>8
<1>12. File \in Seq(Words) /\ Last(File) = Todo.name
  <2> HIDE DEF near, far
  <2> QED
    BY <1>8, <1>9, <1>10 DEF name
<1> QED
  BY <1>5, <1>6, <1>11, <1>12, ProjectFiles

\* A file that is being loaded encloses the declaration.
LEMMA LoadingEncloses ==
  ASSUME LoaderInv, Declaring, Slot # 0, File \in loading
  PROVE  Enclosing(modules, Inner.id, Todo.name)
<1> USE DEF LoaderInv
<1> DEFINE n == Len(frames)
           m == Len(modules)
<1>1. /\ n \in Nat \ {0} /\ DOMAIN frames = 1 .. n /\ Inner = frames[n] /\ m \in Nat
  BY InnerFrame DEF Declaring, Typed
<1>2. \A k \in 1 .. n : Framed(modules, frames, k)
  BY <1>1 DEF Stack
<1>3. PICK k \in 1 .. n : frames[k].file = File
  BY <1>1 DEF Nested
<1> HIDE DEF n, m
<1>4. ASSUME NEW some \in SUBSET (1 .. m), Inner.id \in some,
             \A j \in some : modules[j].parent \in some \cup {0}
      PROVE  frames[k].id \in some
  <2> DEFINE reached == {x \in Nat : x < n => frames[n - x].id \in some}
  <2>1. 0 \in reached
    <3>1. n - 0 = n
      BY <1>1
    <3> QED
      BY <1>1, <1>4, <3>1
  <2>2. ASSUME NEW x \in Nat, x \in reached PROVE x + 1 \in reached
    <3> SUFFICES ASSUME x + 1 < n PROVE frames[n - (x + 1)].id \in some
      OBVIOUS
    <3>1. x < n /\ n - x \in 1 .. n /\ n - x # 1 /\ (n - x) - 1 = n - (x + 1)
          /\ n - (x + 1) \in 1 .. n
      BY <1>1
    <3>2. frames[n - x].id \in some
      BY <2>2, <3>1
    <3>3. modules[frames[n - x].id].parent = frames[n - (x + 1)].id
      BY <1>2, <3>1 DEF Framed
    <3>4. frames[n - (x + 1)].id \in 1 .. m
      BY <1>2, <3>1 DEF Framed, m
    <3>5. frames[n - (x + 1)].id # 0
      BY <1>1, <3>4
    <3> QED
      BY <1>4, <3>2, <3>3, <3>5
  <2> HIDE DEF reached
  <2>3. n - k \in reached
    <3>1. n - k \in Nat
      BY <1>1
    <3> QED
      BY <2>1, <2>2, <3>1, SetInduction
  <2>4. n - k < n /\ n - (n - k) = k
    BY <1>1
  <2> QED
    BY <2>3, <2>4 DEF reached
<1>5. frames[k].id \in 1 .. m
  BY <1>2 DEF Framed, m
<1>6. frames[k].id \in Around(modules, Inner.id)
  BY <1>4, <1>5 DEF Around, m
<1>7. modules[frames[k].id].file = File
  BY <1>2, <1>3 DEF Framed
<1>8. Last(File) = Todo.name /\ File # NoFile
  BY FileIs
<1> QED
  BY <1>6, <1>7, <1>8 DEF Enclosing

LEMMA KeepKeeps ==
  ASSUME LoaderInv, Keep
  PROVE  LoaderInv'
<1> DEFINE kept == Append(Inner.kept, Todo)
           frame == [Rest EXCEPT !.kept = kept]
<1>1. Typed /\ Working /\ Inner.rest # <<>>
  BY DEF LoaderInv, Keep
<1>2. kept \in Seq(Declarations)
  BY <1>1, InnerFrame, TodoIs
<1>3. Rest.kept = Inner.kept
  <2>1. Inner \in FrameRecords
    BY <1>1, InnerFrame
  <2> QED
    BY <2>1 DEF Rest, FrameRecords
<1>4. frames' = Append(Front(frames), frame)
  BY <1>3 DEF Keep
<1>5. /\ frame \in FrameRecords /\ frame.id = Inner.id /\ frame.path = Inner.path
      /\ frame.file = Inner.file /\ frame.children = Inner.children
      /\ frame.rest = Tail(Inner.rest)
  <2> HIDE DEF kept
  <2> QED
    BY <1>1, <1>2, RestIs
<1> HIDE DEF frame
<1>6. Advances(frame)
  BY <1>1, <1>4, <1>5 DEF Advances, Keep
<1> QED
  BY <1>6, AdvanceKeeps

LEMMA RefuseKeeps ==
  ASSUME LoaderInv, Working, Inner.rest # <<>>, NEW code, Refuse(code)
  PROVE  LoaderInv'
<1>1. Advances(Rest)
  BY RestFrame DEF LoaderInv, Advances, Refuse
<1> QED
  BY <1>1, AdvanceKeeps

LEMMA SkipKeeps ==
  ASSUME LoaderInv, SkipLoading
  PROVE  LoaderInv'
<1>1. Advances(Rest)
  BY RestFrame, LoadingEncloses DEF LoaderInv, Advances, SkipLoading, Declaring
<1> QED
  BY <1>1, AdvanceKeeps

LEMMA StayKeeps ==
  ASSUME LoaderInv, UNCHANGED <<project, tree>>, errors \subseteq errors',
         phase' \in {"load", "cycles", "names", "done"}, phase' = phase \/ frames = <<>>
  PROVE  LoaderInv'
<1>1. Typed'
  BY DEF LoaderInv, Typed, tree, Files
<1>2. Tree'
  BY DEF LoaderInv, Tree, Ids, tree
<1>3. Stack'
  BY DEF LoaderInv, Stack, tree
<1>4. Nested'
  BY DEF LoaderInv, Nested, FilesNestOnce, Files, tree
<1>5. Accounted'
  <2>1. errors' = {} => errors = {}
    OBVIOUS
  <2> QED
    BY <2>1 DEF LoaderInv, Accounted, Files, Ids, tree
<1> QED
  BY <1>1, <1>2, <1>3, <1>4, <1>5 DEF LoaderInv

\* A module declared by the frame being worked on.
LEMMA PushKeeps ==
  ASSUME LoaderInv, Working, Inner.rest # <<>>, IsModule(Todo),
         NEW file \in Seq(Words), NEW chain \in Seq(Seq(Words)),
         NEW items \in Seq(Declarations),
         file = NoFile \/ (file \in Files \ loading /\ items = project.files[file].items),
         Enter(ChildPath, file, chain, items, Inner.id),
         frames' = Front(frames) \o <<Rest, Frame(ChildPath, file, chain, items)>>,
         UNCHANGED <<project, phase, tops, errors>>
  PROVE  LoaderInv'
<1> DEFINE module == [path |-> ChildPath, file |-> file, items |-> <<>>, children |-> <<>>,
                      parent |-> Inner.id]
           frame == Frame(ChildPath, file, chain, items)
           none == <<>>
<1>1. Typed /\ Len(frames) \in Nat \ {0} /\ frames # <<>> /\ frames \in Seq(FrameRecords)
      /\ Inner = frames[Len(frames)] /\ Inner.id \in Nat /\ Len(modules) \in Nat
  BY InnerFrame DEF LoaderInv, Typed, Working
<1>2. /\ ChildPath \in Paths /\ Front(ChildPath) = Inner.path /\ Last(ChildPath) = Todo.name
  BY <1>1, TodoIs
<1>3. none \in Seq(Declarations) /\ none \in Seq(Nat)
  OBVIOUS
<1>4. module \in ModuleRecords /\ module.children = <<>> /\ module.parent = Inner.id
      /\ module.path = ChildPath /\ module.file = file
  BY <1>1, <1>2, <1>3 DEF ModuleRecords
<1>5. /\ frame \in FrameRecords /\ frame.id = Len(modules) + 1 /\ frame.path = ChildPath
      /\ frame.file = file /\ frame.children = <<>> /\ frame.rest = items
  BY <1>1, <1>2, <1>3 DEF FrameRecords, Frame
<1>6. /\ Rest \in FrameRecords /\ Rest.id = Inner.id /\ Rest.path = Inner.path
      /\ Rest.file = Inner.file /\ Rest.children = Inner.children /\ Rest.rest = Tail(Inner.rest)
  BY <1>1, RestFrame
<1>7. modules' = Append(modules, module)
  BY DEF Enter
<1>8. /\ frames' \in Seq(FrameRecords) /\ Len(frames') = Len(frames) + 1
      /\ \A k \in 1 .. (Len(frames) - 1) : frames'[k] = frames[k]
      /\ frames'[Len(frames)] = Rest /\ frames'[Len(frames) + 1] = frame
  <2> DEFINE pair == <<Rest, frame>>
  <2>1. frames' = Front(frames) \o pair
    OBVIOUS
  <2> HIDE DEF frame
  <2>2. pair \in Seq(FrameRecords) /\ Len(pair) = 2 /\ pair[1] = Rest /\ pair[2] = frame
    BY <1>5, <1>6
  <2> HIDE DEF pair
  <2>3. /\ Front(frames) \o pair \in Seq(FrameRecords)
        /\ Extended(Front(frames) \o pair, frames, pair[1], pair[2])
    BY <1>1, <2>2, Pushed
  <2> QED
    BY <2>1, <2>2, <2>3 DEF Extended
<1> HIDE DEF module, frame
<1>9. ASSUME NEW k \in 1 .. Len(frames)
      PROVE  /\ frames'[k].id = frames[k].id
             /\ frames'[k].path = frames[k].path
             /\ frames'[k].file = frames[k].file
             /\ frames'[k].children = frames[k].children
             /\ k # Len(frames) => frames'[k].rest = frames[k].rest
  <2>1. CASE k = Len(frames)
    BY <1>1, <1>6, <1>8, <2>1
  <2>2. CASE k # Len(frames)
    <3>1. k \in 1 .. (Len(frames) - 1)
      BY <1>1, <2>2
    <3> QED
      BY <1>8, <3>1
  <2> QED
    BY <2>1, <2>2
<1>10. Opens(module, frame)
  <2>1. phase = "load" /\ tops' = tops /\ tops \in Seq(RootRecords)
    BY <1>1 DEF Working, Typed
  <2>2. loading' = IF file = NoFile THEN loading ELSE loading \cup {file}
    BY DEF Enter
  <2>3. NoFile \notin Files
    BY <1>1, ProjectFiles
  <2> QED
    BY <1>1, <1>2, <1>4, <1>5, <1>6, <1>7, <1>8, <1>9, <2>1, <2>2, <2>3 DEF Opens
<1> QED
  BY <1>10, OpenKeeps

LEMMA OpenInlineKeeps ==
  ASSUME LoaderInv, OpenInline
  PROVE  LoaderInv'
<1> DEFINE chain == InlineChain(Inner.chain, Todo.name)
           none == <<>>
<1>1. /\ Typed /\ Working /\ Inner.rest # <<>> /\ IsModule(Todo) /\ Todo.kind = "inline"
      /\ Inner.chain \in Seq(Seq(Words))
  BY InnerFrame DEF LoaderInv, OpenInline, IsModule
<1>2. Todo.items \in Seq(Declarations) /\ Todo.name \in Words
  BY <1>1, TodoIs DEF IsDeclaration
<1>3. chain \in Seq(Seq(Words))
  <2>1. CASE Inner.chain = <<>>
    <3>1. none \in Seq(Seq(Words))
      OBVIOUS
    <3> QED
      BY <2>1, <3>1 DEF InlineChain
  <2>2. CASE Inner.chain # <<>>
    <3> DEFINE near == Append(Head(Inner.chain), Todo.name)
    <3>1. near \in Seq(Words)
      <4>1. Head(Inner.chain) \in Seq(Words)
        BY <1>1, <2>2, Rests
      <4> QED
        BY <1>2, <4>1
    <3>2. <<near>> \in Seq(Seq(Words))
      <4> HIDE DEF near
      <4> QED
        BY <3>1
    <3>3. chain = <<near>> \o Inner.chain
      BY <2>2 DEF InlineChain
    <3> HIDE DEF near
    <3> QED
      BY <1>1, <3>2, <3>3, ConcatProperties
  <2> QED
    BY <2>1, <2>2
<1>4. none \in Seq(Words)
  OBVIOUS
<1> HIDE DEF chain
<1>5. /\ Enter(ChildPath, none, chain, Todo.items, Inner.id)
      /\ frames' = Front(frames) \o <<Rest, Frame(ChildPath, none, chain, Todo.items)>>
      /\ UNCHANGED <<project, phase, tops, errors>> /\ none = NoFile
  BY DEF OpenInline, chain, NoFile
<1> HIDE DEF none
<1> QED
  BY <1>1, <1>2, <1>3, <1>4, <1>5, PushKeeps

LEMMA OpenExternalKeeps ==
  ASSUME LoaderInv, OpenExternal
  PROVE  LoaderInv'
<1> DEFINE text == project.files[File]
           chain == ChildChain(Inner.chain, Slot, Todo.name)
<1>1. /\ Typed /\ Working /\ Inner.rest # <<>> /\ IsModule(Todo) /\ Todo.kind = "external"
      /\ Declaring /\ Slot # 0 /\ File \notin loading /\ Inner.chain \in Seq(Seq(Words))
  BY InnerFrame DEF LoaderInv, OpenExternal, IsModule, Declaring
<1>2. /\ Slot \in 1 .. Len(Inner.chain) /\ Inner.chain[Slot] \in Seq(Words)
      /\ File \in Files /\ File \in Seq(Words) /\ Todo.name \in Words
  BY <1>1, FileIs, TodoIs
<1>3. text \in Texts /\ text.items \in Seq(Declarations)
  BY <1>1, <1>2, ProjectFiles DEF Texts
<1>4. chain \in Seq(Seq(Words))
  <2> DEFINE near == Append(Inner.chain[Slot], Todo.name)
             others == SubSeq(Inner.chain, Slot, Len(Inner.chain))
  <2>1. near \in Seq(Words)
    BY <1>2
  <2>2. others \in Seq(Seq(Words))
    <3>1. Len(Inner.chain) \in Nat
      BY <1>1
    <3>2. Slot \in Int /\ Len(Inner.chain) \in Int
          /\ \A i \in Slot .. Len(Inner.chain) : i \in 1 .. Len(Inner.chain)
      BY <1>2, <3>1
    <3>3. \A i \in Slot .. Len(Inner.chain) : Inner.chain[i] \in Seq(Words)
      BY <1>1, <3>2, ElementOfSeq
    <3> QED
      BY <3>2, <3>3, SubSeqProperties
  <2>3. chain = <<near>> \o others
    BY DEF ChildChain
  <2> HIDE DEF near, others, chain
  <2>4. <<near>> \in Seq(Seq(Words))
    BY <2>1
  <2> QED
    BY <2>2, <2>3, <2>4, ConcatProperties
<1>5. /\ Enter(ChildPath, File, chain, text.items, Inner.id)
      /\ frames' = Front(frames) \o <<Rest, Frame(ChildPath, File, chain, text.items)>>
      /\ UNCHANGED <<project, phase, tops, errors>>
  BY DEF OpenExternal, OpenFile
<1>6. File \in Files \ loading /\ text.items = project.files[File].items
  BY <1>1, <1>2
<1> HIDE DEF chain, text
<1> QED
  BY <1>1, <1>2, <1>3, <1>4, <1>5, <1>6, PushKeeps DEF LoaderInv

LEMMA LoadRootKeeps ==
  ASSUME LoaderInv, LoadRoot
  PROVE  LoaderInv'
<1> DEFINE top == Head(tops)
           none == <<>>
<1>1. /\ Typed /\ Nested /\ phase = "load" /\ frames = <<>> /\ tops # <<>> /\ tops' = Tail(tops)
      /\ project' = project /\ phase' = phase /\ tops \in Seq(RootRecords) /\ Len(modules) \in Nat
  BY DEF LoaderInv, LoadRoot, Typed
<1>2. /\ top \in RootRecords /\ tops' \in Seq(RootRecords)
      /\ ToSet(tops) = {top} \cup ToSet(tops')
  BY <1>1, Rests
<1>3. /\ top.path \in Paths /\ top.file \in Seq(Words) /\ top.chain \in Seq(Seq(Words))
      /\ top.text.items \in Seq(Declarations)
  BY <1>2 DEF RootRecords, Texts
<1>4. top.file # NoFile => top.file \in Files /\ top.text = project.files[top.file]
  BY <1>1, <1>2 DEF Typed
<1>5. CASE top.text.parses
  <2> DEFINE module == [path |-> top.path, file |-> top.file, items |-> none,
                        children |-> none, parent |-> 0]
             frame == Frame(top.path, top.file, top.chain, top.text.items)
  <2>1. none \in Seq(Declarations) /\ none \in Seq(Nat) /\ Len(none) = 0
    OBVIOUS
  <2>2. module \in ModuleRecords /\ module.children = none /\ module.parent = 0
        /\ module.path = top.path /\ module.file = top.file
    BY <1>3, <2>1 DEF ModuleRecords
  <2>3. /\ frame \in FrameRecords /\ frame.id = Len(modules) + 1 /\ frame.path = top.path
        /\ frame.file = top.file /\ frame.children = none /\ frame.rest = top.text.items
    BY <1>1, <1>3, <2>1 DEF FrameRecords, Frame
  <2>4. /\ modules' = Append(modules, module)
        /\ loading' = IF top.file = NoFile THEN loading ELSE loading \cup {top.file}
        /\ frames' = <<frame>> /\ errors' = errors
    BY <1>5 DEF LoadRoot, Enter
  <2> HIDE DEF module, frame, none, top
  <2>5. frames' \in Seq(FrameRecords) /\ Len(frames') = 0 + 1 /\ frames'[0 + 1] = frame
    BY <2>3, <2>4
  <2>6. Len(frames) = 0 /\ frames = none
    BY <1>1 DEF none
  <2>7. loading = {}
    <3>1. DOMAIN frames = {}
      BY <1>1
    <3> QED
      BY <1>1, <3>1 DEF Nested
  <2>8. \A k \in 1 .. 0 : FALSE
    OBVIOUS
  <2>9. ToSet(tops') \subseteq ToSet(tops)
    BY <1>2
  <2>10. NoFile \notin Files
    BY <1>1, ProjectFiles
  <2>11. module.parent = IF frames = <<>> THEN 0 ELSE Inner.id
    BY <1>1, <2>2
  <2>12. \A k \in 1 .. Len(frames) : FALSE
    BY <2>6, <2>8
  <2>13. Len(frames') = Len(frames) + 1 /\ frames'[Len(frames) + 1] = frame
    BY <2>5, <2>6
  <2>14. module.children = <<>> /\ frame.children = <<>>
    BY <2>2, <2>3 DEF none
  <2>15. module.file = NoFile \/ module.file \in Files \ loading
    BY <1>4, <2>2, <2>7
  <2>16. module.file \in Files => frame.rest = project.files[module.file].items
    BY <1>4, <2>2, <2>3, <2>10
  <2>17. Opens(module, frame)
    BY <1>1, <1>2, <2>2, <2>3, <2>4, <2>5, <2>9, <2>11, <2>12, <2>13, <2>14, <2>15, <2>16
       DEF Opens
  <2> QED
    BY <2>17, OpenKeeps
<1>6. CASE ~ top.text.parses
  <2>1. /\ errors' = errors \cup {Error("E2105", top.path)}
        /\ frames' = frames /\ loading' = loading /\ modules' = modules
    BY <1>6 DEF LoadRoot
  <2>2. Typed'
    BY <1>1, <1>2, <2>1 DEF Typed, Files
  <2>3. Tree' /\ Stack'
    BY <2>1 DEF LoaderInv, Tree, Stack, Ids
  <2>4. Nested'
    BY <1>1, <2>1 DEF Nested, FilesNestOnce, Files
  <2>5. Accounted'
    BY <2>1 DEF Accounted
  <2> QED
    BY <2>2, <2>3, <2>4, <2>5 DEF LoaderInv
<1> QED
  BY <1>5, <1>6

LEMMA Literals ==
  /\ <<"std">> \in Paths /\ <<"sys">> \in Paths /\ <<"khi">> \in Paths /\ <<"main">> \in Seq(Words)
  /\ <<<<"std">>>> \in Seq(Seq(Words)) /\ <<<<"std", "sys">>>> \in Seq(Seq(Words))
<1> DEFINE std == "std"
           sys == "sys"
           khi == "khi"
           main == "main"
<1>1. std \in Words /\ sys \in Words /\ khi \in Words /\ main \in Words
  BY ProjectsAssumption
<1> HIDE DEF std, sys, khi, main
<1> DEFINE one == <<std>>
           two == <<std, sys>>
<1>2. one \in Seq(Words) /\ two \in Seq(Words) /\ <<sys>> \in Seq(Words) /\ <<khi>> \in Seq(Words)
      /\ <<main>> \in Seq(Words)
  BY <1>1
<1>3. one # <<>> /\ <<sys>> # <<>> /\ <<khi>> # <<>>
  OBVIOUS
<1>4. <<one>> \in Seq(Seq(Words)) /\ <<two>> \in Seq(Seq(Words))
  <2> HIDE DEF one, two
  <2> QED
    BY <1>2
<1> QED
  BY <1>2, <1>3, <1>4 DEF Paths, std, sys, khi, main

\* The synthetic roots and khi.
LEMMA TopsAre ==
  ASSUME project \in Projects, NEW list,
         list = (IF project.entry = "memory_no_stdlib" THEN <<>> ELSE Stdlib) \o <<Khi>>
  PROVE  /\ list \in Seq(RootRecords)
         /\ \A t \in ToSet(list) : t.file # NoFile => t.file \in Files /\ t.text = project.files[t.file]
<1> DEFINE none == <<>>
           Sound(t) == t \in RootRecords
                       /\ (t.file # NoFile => t.file \in Files /\ t.text = project.files[t.file])
<1>1. IsProject(project) /\ StdChildren \in Seq(Words) /\ SysCandidates \in Seq(Words)
  BY ProjectsAssumption
<1>2. none \in Seq(Words) /\ none \in Seq(Seq(Words)) /\ none \in Seq(RootRecords)
  OBVIOUS
<1>3. ASSUME NEW children \in Seq(Words),
             \A name \in ToSet(children) : External(name) \in Declarations
      PROVE  Declare(children) \in Texts
  <2> DEFINE items == [i \in DOMAIN children |-> External(children[i])]
  <2>1. DOMAIN children = 1 .. Len(children) /\ Len(children) \in Nat
    BY <1>3
  <2>2. \A i \in DOMAIN children : External(children[i]) \in Declarations
    BY <1>3 DEF ToSet
  <2>3. items \in Seq(Declarations)
    BY <2>1, <2>2
  <2>4. Declare(children) = [readable |-> TRUE, parses |-> TRUE, items |-> items]
    BY DEF Declare
  <2> HIDE DEF items
  <2> QED
    BY <2>3, <2>4 DEF Texts
<1>4. Declare(StdChildren) \in Texts
  BY <1>1, <1>3, ProjectsAssumption
<1>5. SysChildren \in Seq(Words) /\ ToSet(SysChildren) \subseteq ToSet(SysCandidates)
  <2> DEFINE at == {k \in DOMAIN SysCandidates : <<"std", "sys", SysCandidates[k]>> \in Files}
  <2>1. at \in SUBSET DOMAIN SysCandidates
    OBVIOUS
  <2>2. SysChildren = Picked(SysCandidates, at)
    BY DEF SysChildren
  <2> HIDE DEF at
  <2>3. SysChildren \in Seq(Words) /\ ToSet(SysChildren) = {SysCandidates[k] : k \in at}
    BY <1>1, <2>1, <2>2, PickedIs
  <2> QED
    BY <2>1, <2>3 DEF ToSet
<1>6. Declare(SysChildren) \in Texts
  BY <1>3, <1>5, ProjectsAssumption
<1>7. Sound(Root(<<"std">>, NoFile, <<<<"std">>>>, Declare(StdChildren)))
  <2>1. <<"std">> \in Paths /\ <<<<"std">>>> \in Seq(Seq(Words))
    BY Literals
  <2> QED
    BY <1>2, <1>4, <2>1 DEF Root, RootRecords, NoFile
<1>8. Sound(Root(<<"sys">>, NoFile, <<<<"std", "sys">>>>, Declare(SysChildren)))
  <2>1. <<"sys">> \in Paths /\ <<<<"std", "sys">>>> \in Seq(Seq(Words))
    BY Literals
  <2> QED
    BY <1>2, <1>6, <2>1 DEF Root, RootRecords, NoFile
<1>9. Sound(Khi)
  <2>1. CASE project.entry = "filesystem"
    <3>1. Main \in Files /\ project.files[Main] \in Texts
      BY <1>1, <2>1 DEF IsProject, Main, Files
    <3>2. Main \in Seq(Words) /\ <<none>> \in Seq(Seq(Words)) /\ <<"khi">> \in Paths
      BY <1>2, Literals DEF Main
    <3>3. Khi = Root(<<"khi">>, Main, <<none>>, project.files[Main])
      BY <2>1 DEF Khi
    <3> HIDE DEF none
    <3> QED
      BY <3>1, <3>2, <3>3 DEF Root, RootRecords
  <2>2. CASE project.entry # "filesystem"
    <3>1. Khi = Root(<<"khi">>, none, none, project.text) /\ none = NoFile
      BY <2>2 DEF Khi, NoFile
    <3>2. <<"khi">> \in Paths /\ project.text \in Texts
      BY <1>1, Literals DEF IsProject
    <3> HIDE DEF none
    <3> QED
      BY <1>2, <3>1, <3>2 DEF Root, RootRecords
  <2> QED
    BY <2>1, <2>2
<1> HIDE DEF Sound
<1> DEFINE std == Root(<<"std">>, NoFile, <<<<"std">>>>, Declare(StdChildren))
           sys == Root(<<"sys">>, NoFile, <<<<"std", "sys">>>>, Declare(SysChildren))
           good == {t \in RootRecords : Sound(t)}
           first == IF SysChildren = <<>> THEN <<>> ELSE <<sys>>
           front == IF project.entry = "memory_no_stdlib" THEN <<>> ELSE <<std>> \o first
<1>10. std \in good /\ sys \in good /\ Khi \in good
  BY <1>7, <1>8, <1>9 DEF Sound
<1>11. list = front \o <<Khi>>
  BY DEF Stdlib
<1> HIDE DEF std, sys, good
<1>12. none \in Seq(good) /\ <<std>> \in Seq(good) /\ <<sys>> \in Seq(good) /\ <<Khi>> \in Seq(good)
  BY <1>10
<1>13. first \in Seq(good)
  BY <1>12
<1> HIDE DEF first
<1>14. <<std>> \o first \in Seq(good)
  BY <1>12, <1>13, ConcatProperties
<1>15. front \in Seq(good)
  BY <1>12, <1>14
<1> HIDE DEF front
<1>16. list \in Seq(good)
  BY <1>11, <1>12, <1>15, ConcatProperties, ZenonT(60)
<1>17. good \subseteq RootRecords /\ \A t \in ToSet(list) : t \in good
  BY <1>16 DEF good, ToSet
<1>18. list \in Seq(RootRecords)
  BY <1>16, <1>17, SeqMonotonic
<1> QED
  BY <1>17, <1>18 DEF good, Sound

LEMMA LoaderStarts ==
  ASSUME Init
  PROVE  LoaderInv
<1> DEFINE none == <<>>
<1>1. /\ frames = none /\ modules = none /\ loading = {} /\ DOMAIN none = {} /\ Len(none) = 0
      /\ none \in Seq(FrameRecords) /\ none \in Seq(ModuleRecords) /\ 1 .. 0 = {}
  BY DEF Init
<1>2. Typed
  <2>1. project \in Projects /\ phase \in {"load", "done"}
    BY DEF Init
  <2>2. tops \in Seq(RootRecords)
        /\ \A t \in ToSet(tops) : t.file # NoFile => t.file \in Files /\ t.text = project.files[t.file]
    BY TopsAre DEF Init
  <2> QED
    BY <1>1, <2>1, <2>2 DEF Typed
<1> HIDE DEF none
<1>3. Tree /\ Stack /\ Nested /\ Accounted
  BY <1>1 DEF Tree, Stack, Nested, FilesNestOnce, Accounted, Ids, none
<1> QED
  BY <1>2, <1>3 DEF LoaderInv

LEMMA LoaderSteps ==
  ASSUME LoaderInv, [Next]_vars
  PROVE  LoaderInv'
<1>1. CASE LoadRoot
  BY <1>1, LoadRootKeeps
<1>2. CASE Keep
  BY <1>2, KeepKeeps
<1>3. CASE OpenInline
  BY <1>3, OpenInlineKeeps
<1>4. CASE NotFound
  BY <1>4, RefuseKeeps DEF NotFound, Declaring
<1>5. CASE SkipLoading
  BY <1>5, SkipKeeps
<1>6. CASE Unloadable
  BY <1>6, RefuseKeeps DEF Unloadable, Declaring
<1>7. CASE OpenExternal
  BY <1>7, OpenExternalKeeps
<1>8. CASE Close
  BY <1>8, CloseKeeps
<1>9. CASE StartCycles
  BY <1>9, StayKeeps DEF StartCycles
<1>10. phase # "load" => frames = <<>>
  BY DEF LoaderInv, Nested
<1>11. phase \in {"load", "cycles", "names", "done"}
  BY DEF LoaderInv, Typed
<1>12. CASE StartSearch \/ Descend \/ BackEdge \/ Explored \/ Leave
  <2>1. UNCHANGED <<project, phase, tree>> /\ errors \subseteq errors'
    BY <1>12 DEF StartSearch, Descend, BackEdge, Explored, Leave
  <2> QED
    BY <1>11, <2>1, StayKeeps
<1>13. CASE EndSearch
  BY <1>10, <1>13, StayKeeps DEF EndSearch
<1>14. CASE Import
  <2>1. UNCHANGED <<project, phase, tree>> /\ errors \subseteq errors'
    BY <1>14 DEF Import
  <2> QED
    BY <1>11, <2>1, StayKeeps
<1>15. CASE Finish
  BY <1>10, <1>15, StayKeeps DEF Finish
<1>16. CASE UNCHANGED vars
  BY <1>11, <1>16, StayKeeps DEF vars
<1> QED
  BY <1>1, <1>2, <1>3, <1>4, <1>5, <1>6, <1>7, <1>8, <1>9, <1>12, <1>13, <1>14, <1>15, <1>16 DEF Next

\* The loader keeps its invariant (loader.rs: LoaderState, finish).
THEOREM LoaderSafe == Spec => []LoaderInv
<1>1. Init => LoaderInv
  BY LoaderStarts
<1>2. LoaderInv /\ [Next]_vars => LoaderInv'
  BY LoaderSteps
<1> QED
  BY <1>1, <1>2, PTL DEF Spec

\* A program that loads has every module its files declare, but those whose
\* file encloses the declaration, whatever the files are (loader.rs:
\* process_items, resolve_external).
THEOREM EveryDeclarationLoaded == Spec => []DeclaredAreLoaded
<1>1. LoaderInv => DeclaredAreLoaded
  <2> SUFFICES ASSUME LoaderInv, Ended, NEW i \in Ids, modules[i].file \in Files,
                      NEW d \in ToSet(project.files[modules[i].file].items), IsModule(d)
               PROVE  \/ d.name \in Children(i)
                      \/ \E j \in Above(i) : /\ modules[j].file # NoFile
                                             /\ Last(modules[j].file) = d.name
    BY DEF DeclaredAreLoaded
  <2>1. errors = {} /\ frames = <<>>
    BY DEF Ended, LoaderInv, Nested
  <2>2. \A k \in DOMAIN frames : FALSE
    BY <2>1
  <2>3. Paid(project.files, modules, i)
    BY <2>1, <2>2 DEF LoaderInv, Accounted
  <2>4. d \in Declared(project.files, modules[i].file)
    BY DEF Declared
  <2>5. d.name \in Loaded(modules, ToSet(modules[i].children)) \/ Enclosing(modules, i, d.name)
    BY <2>3, <2>4 DEF Paid, Files
  <2>6. Above(i) = Around(modules, i)
    BY DEF Above, Around, Ids
  <2> QED
    BY <2>5, <2>6 DEF Loaded, Enclosing, Children
<1> QED
  BY <1>1, LoaderSafe, PTL

-----------------------------------------------------------------------------
(***************************************************************************)
(* The invariant of the search.  The trail is a path of gray modules; what *)
(* a module on it has explored is black, or the next on the trail, unless  *)
(* a cycle was found; then the black modules import only each other and    *)
(* form no cycle.                                                          *)
(***************************************************************************)
Imports == [i \in Ids |-> {j \in Ids : Imported(i, j)}]
Colors == {"white", "gray", "black"}
Black(g, c) == {i \in DOMAIN g : c[i] = "black"}

Trailing(g, c, t) ==
  /\ t \in Seq([at : DOMAIN g, edges : Seq(DOMAIN g)])
  /\ \A k \in DOMAIN t :
       /\ c[t[k].at] = "gray"
       /\ ToSet(t[k].edges) \subseteq g[t[k].at]
       /\ k < Len(t) => t[k + 1].at \in g[t[k].at]
       /\ \A j \in 1 .. (k - 1) : t[j].at # t[k].at
  /\ \A i \in DOMAIN g : c[i] = "gray" => \E k \in DOMAIN t : t[k].at = i

ExploredBlack(g, c, t) ==
  \A k \in DOMAIN t : \A j \in g[t[k].at] :
    \/ j \in ToSet(t[k].edges)
    \/ c[j] = "black"
    \/ k < Len(t) /\ j = t[k + 1].at

\* What is black was left for good: it is part of no cycle.
BlackSettled(g, c) ==
  /\ \A i \in Black(g, c) : g[i] \subseteq Black(g, c)
  /\ \A some \in (SUBSET Black(g, c)) \ {{}} : \E i \in some : g[i] \cap some = {}

Cyclic(g) == \E some \in (SUBSET DOMAIN g) \ {{}} : \A i \in some : g[i] \cap some # {}

IsTrace(g, at) ==
  /\ at \in Seq(DOMAIN g) /\ Len(at) >= 2
  /\ Head(at) = Last(at)
  /\ \A k \in 1 .. (Len(at) - 1) : at[k + 1] \in g[at[k]]

SearchInv ==
  /\ phase = "load" => color = <<>> /\ trail = <<>> /\ CycleErrors = {}
  /\ phase = "cycles" =>
       /\ color \in [Ids -> Colors]
       /\ Trailing(Imports, color, trail)
       /\ CycleErrors = {} => /\ ExploredBlack(Imports, color, trail)
                              /\ BlackSettled(Imports, color)
  /\ phase \in {"names", "done"} =>
       \/ color = <<>>
       \/ color \in [Ids -> Colors] /\ (CycleErrors = {} => ~ Cyclic(Imports))
  /\ \A e \in CycleErrors : IsTrace(Imports, e.at)

-----------------------------------------------------------------------------
(* Steps of the search *)

\* What the search finds for a path is a module, or none.
LEMMA IndexIs ==
  ASSUME Typed, NEW path
  PROVE  IndexOf(path) \in Ids \cup {0}
<1> DEFINE S == WithPath(path)
<1>1. S \subseteq 1 .. Len(modules) /\ Len(modules) \in Nat
  BY DEF WithPath, Ids, Typed
<1> HIDE DEF S
<1>2. S # {} => Max(S) \in S
  BY <1>1, MaxIs
<1> QED
  BY <1>1, <1>2 DEF IndexOf, S, Ids

LEMMA TargetIs ==
  ASSUME Typed, NEW i, NEW path
  PROVE  ImportTarget(i, path) \in Ids \cup {0}
BY IndexIs DEF ImportTarget

\* The uses of a module are its declarations of that kind.
LEMMA UsesAre ==
  ASSUME NEW items \in Seq(Declarations)
  PROVE  /\ Uses(items) \in Seq(Declarations)
         /\ ToSet(Uses(items)) = {d \in ToSet(items) : d.kind = "use"}
<1> DEFINE at == {k \in DOMAIN items : items[k].kind = "use"}
<1>1. at \in SUBSET DOMAIN items
  OBVIOUS
<1>2. Uses(items) = Picked(items, at)
  BY DEF Uses
<1>3. {items[k] : k \in at} = {d \in ToSet(items) : d.kind = "use"}
  BY DEF ToSet
<1> HIDE DEF at
<1> QED
  BY <1>1, <1>2, <1>3, PickedIs

\* The edges of a module lead to the modules it imports.
LEMMA EdgesAre ==
  ASSUME Typed, NEW i \in Ids
  PROVE  Edges(i) \in Seq(Ids) /\ ToSet(Edges(i)) = Imports[i]
<1> DEFINE items == modules[i].items
           uses == Uses(items)
           targets == [u \in DOMAIN uses |-> ImportTarget(i, uses[u].path)]
           at == {u \in DOMAIN uses : targets[u] # 0}
           None == Ids \cup {0}
<1>1. items \in Seq(Declarations)
  <2>1. modules[i] \in ModuleRecords
    BY DEF Typed, Ids
  <2> QED
    BY <2>1 DEF ModuleRecords
<1>2. uses \in Seq(Declarations) /\ ToSet(uses) = {d \in ToSet(items) : d.kind = "use"}
  <2> HIDE DEF items
  <2> QED
    BY <1>1, UsesAre
<1>3. targets \in Seq(None)
  <2>1. DOMAIN uses = 1 .. Len(uses) /\ Len(uses) \in Nat
    BY <1>2
  <2>2. \A u \in DOMAIN uses : ImportTarget(i, uses[u].path) \in None
    BY TargetIs
  <2> HIDE DEF uses, None
  <2> QED
    BY <2>1, <2>2
<1>4. Edges(i) = Picked(targets, at) /\ at \in SUBSET DOMAIN targets
  BY DEF Edges
<1>5. Edges(i) \in Seq(None) /\ ToSet(Edges(i)) = {targets[u] : u \in at}
  <2> HIDE DEF targets, at, None
  <2> QED
    BY <1>3, <1>4, PickedIs
<1>6. {targets[u] : u \in at} = {j \in Ids : Imported(i, j)}
  <2>1. ASSUME NEW u \in at PROVE targets[u] \in Ids /\ Imported(i, targets[u])
    <3>1. targets[u] \in None /\ targets[u] # 0 /\ targets[u] = ImportTarget(i, uses[u].path)
      BY TargetIs
    <3>2. uses[u] \in ToSet(uses)
      BY DEF ToSet
    <3>3. uses[u] \in ToSet(items) /\ uses[u].kind = "use"
      <4> HIDE DEF uses, items
      <4> QED
        BY <1>2, <3>2
    <3> QED
      BY <3>1, <3>3 DEF Imported
  <2>2. ASSUME NEW j \in Ids, Imported(i, j) PROVE \E u \in at : targets[u] = j
    <3>1. PICK d \in ToSet(items) : d.kind = "use" /\ ImportTarget(i, d.path) = j
      BY <2>2 DEF Imported
    <3>2. d \in ToSet(uses)
      <4> HIDE DEF uses, items
      <4> QED
        BY <1>2, <3>1
    <3>3. PICK u \in DOMAIN uses : uses[u] = d
      BY <3>2 DEF ToSet
    <3>4. j # 0
      BY DEF Ids
    <3> QED
      BY <3>1, <3>3, <3>4
  <2> QED
    BY <2>1, <2>2
<1>7. ToSet(Edges(i)) = Imports[i] /\ Imports[i] \subseteq Ids
  BY <1>5, <1>6 DEF Imports
<1>8. Edges(i) \in Seq(Ids)
  <2>1. Edges(i) \in [1 .. Len(Edges(i)) -> None] /\ Len(Edges(i)) \in Nat
    BY <1>5
  <2>2. \A k \in 1 .. Len(Edges(i)) : Edges(i)[k] \in Ids
    BY <1>7, <2>1 DEF ToSet
  <2>3. Edges(i) \in [1 .. Len(Edges(i)) -> Ids]
    BY <2>1, <2>2
  <2> QED
    BY <2>1, <2>3
<1> QED
  BY <1>7, <1>8

LEMMA StopIs ==
  ASSUME Typed, NEW i \in Ids
  PROVE  /\ Stop(i) \in [at : Ids, edges : Seq(Ids)]
         /\ Stop(i).at = i /\ ToSet(Stop(i).edges) = Imports[i]
BY EdgesAre DEF Stop

\* A trace leads around a cycle.
LEMMA TraceIsCycle ==
  ASSUME NEW g, NEW at, IsTrace(g, at)
  PROVE  Cyclic(g)
<1> DEFINE n == Len(at)
           some == {at[k] : k \in 1 .. (n - 1)}
<1>1. n \in Nat /\ n >= 2 /\ DOMAIN at = 1 .. n /\ at[1] = at[n]
      /\ \A k \in 1 .. n : at[k] \in DOMAIN g
  BY DEF IsTrace, Last
<1>2. \A k \in 1 .. (n - 1) : at[k + 1] \in g[at[k]]
  BY DEF IsTrace
<1> HIDE DEF n
<1>3. some \in SUBSET DOMAIN g
  BY <1>1
<1>4. at[1] \in some
  BY <1>1
<1>5. ASSUME NEW i \in some PROVE g[i] \cap some # {}
  <2>1. PICK k \in 1 .. (n - 1) : i = at[k]
    OBVIOUS
  <2>2. CASE k = n - 1
    <3>1. at[k + 1] = at[1]
      BY <1>1, <2>2
    <3> QED
      BY <1>2, <1>4, <2>1, <3>1
  <2>3. CASE k # n - 1
    <3>1. k + 1 \in 1 .. (n - 1)
      BY <1>1, <2>3
    <3>2. at[k + 1] \in some
      BY <3>1
    <3> QED
      BY <1>2, <2>1, <3>2
  <2> QED
    BY <2>2, <2>3
<1>6. some \in (SUBSET DOMAIN g) \ {{}}
  BY <1>3, <1>4
<1> HIDE DEF some
<1> QED
  BY <1>5, <1>6 DEF Cyclic

LEMMA ImportsKept ==
  ASSUME modules' = modules
  PROVE  Imports' = Imports /\ Ids' = Ids
BY DEF Imports, Ids, Imported, ImportTarget, IndexOf, WithPath

Stops == [at : Ids, edges : Seq(Ids)]

\* The search while it goes on.
LEMMA HereIs ==
  ASSUME Typed, SearchInv, Searching
  PROVE  /\ DOMAIN Imports = Ids /\ color \in [Ids -> Colors] /\ trail \in Seq(Stops) /\ trail # <<>>
         /\ Len(trail) \in Nat \ {0} /\ DOMAIN trail = 1 .. Len(trail)
         /\ Here = trail[Len(trail)] /\ Here \in Stops /\ Here.at \in Ids /\ Here.edges \in Seq(Ids)
         /\ color[Here.at] = "gray" /\ ToSet(Here.edges) \subseteq Imports[Here.at]
<1>1. DOMAIN Imports = Ids
  BY DEF Imports
<1>2. Trailing(Imports, color, trail) /\ color \in [Ids -> Colors] /\ trail # <<>>
  BY DEF SearchInv, Searching
<1>3. trail \in Seq(Stops)
  BY <1>1, <1>2 DEF Trailing, Stops
<1>4. Len(trail) \in Nat \ {0} /\ DOMAIN trail = 1 .. Len(trail)
  BY <1>2, <1>3
<1>5. Len(trail) \in DOMAIN trail /\ Here = trail[Len(trail)]
  BY <1>4 DEF Here, Last
<1>6. Here \in Stops
  BY <1>3, <1>4, <1>5
<1>7. Here.at \in Ids /\ Here.edges \in Seq(Ids)
  BY <1>6 DEF Stops
<1>8. color[Here.at] = "gray" /\ ToSet(Here.edges) \subseteq Imports[Here.at]
  BY <1>2, <1>5, Zenon DEF Trailing
<1> QED
  BY <1>1, <1>2, <1>3, <1>4, <1>5, <1>6, <1>7, <1>8

\* One edge of the innermost module is taken.
LEMMA OnwardIs ==
  ASSUME Typed, SearchInv, Searching, Here.edges # <<>>
  PROVE  /\ Ahead \in Ids /\ Ahead \in Imports[Here.at] /\ Onward \in Seq(Stops)
         /\ Len(Onward) = Len(trail) /\ DOMAIN Onward = 1 .. Len(trail)
         /\ \A k \in 1 .. Len(trail) :
              /\ Onward[k].at = trail[k].at
              /\ ToSet(trail[k].edges) = ToSet(Onward[k].edges)
                                           \cup IF k = Len(trail) THEN {Ahead} ELSE {}
<1> DEFINE n == Len(trail)
           rest == Tail(Here.edges)
           stop == [Here EXCEPT !.edges = rest]
<1>1. /\ trail \in Seq(Stops) /\ trail # <<>> /\ n \in Nat \ {0} /\ Here = trail[n] /\ Here \in Stops
      /\ Here.edges \in Seq(Ids) /\ ToSet(Here.edges) \subseteq Imports[Here.at]
  BY HereIs
<1>2. Ahead \in Ids /\ rest \in Seq(Ids) /\ ToSet(Here.edges) = {Ahead} \cup ToSet(rest)
  BY <1>1, Rests DEF Ahead
<1>3. Onward = Append(Front(trail), stop)
  BY DEF Onward
<1> HIDE DEF rest
<1>4. stop \in Stops /\ stop.at = Here.at /\ stop.edges = rest
  BY <1>1, <1>2 DEF Stops
<1> HIDE DEF stop
<1>5. /\ Onward \in Seq(Stops) /\ Len(Onward) = n
      /\ \A k \in 1 .. (n - 1) : Onward[k] = trail[k]
      /\ Onward[n] = stop
  <2>1. Append(Front(trail), stop) \in Seq(Stops) /\ Swapped(Append(Front(trail), stop), trail, stop)
    BY <1>1, <1>4, Replaced
  <2> QED
    BY <1>3, <2>1 DEF Swapped
<1>6. ASSUME NEW k \in 1 .. n
      PROVE  /\ Onward[k].at = trail[k].at
             /\ ToSet(trail[k].edges) = ToSet(Onward[k].edges)
                                          \cup IF k = n THEN {Ahead} ELSE {}
  <2>1. CASE k = n
    <3>1. Onward[k] = stop /\ trail[k] = Here
      BY <1>1, <1>5, <2>1
    <3> QED
      BY <1>2, <1>4, <2>1, <3>1
  <2>2. CASE k # n
    <3> HIDE DEF n
    <3>1. k \in 1 .. (n - 1)
      BY <1>1, <2>2
    <3>2. Onward[k] = trail[k]
      BY <1>5, <3>1
    <3> QED
      BY <2>2, <3>2
  <2> QED
    BY <2>1, <2>2
<1>7. DOMAIN Onward = 1 .. n
  BY <1>5
<1> QED
  BY <1>1, <1>2, <1>5, <1>6, <1>7, Zenon

LEMMA OnwardTrails ==
  ASSUME Typed, SearchInv, Searching, Here.edges # <<>>
  PROVE  /\ Trailing(Imports, color, Onward)
         /\ CycleErrors = {} /\ color[Ahead] = "black" => ExploredBlack(Imports, color, Onward)
<1> DEFINE n == Len(trail)
           g == Imports
<1>1. /\ n \in Nat \ {0} /\ DOMAIN trail = 1 .. n /\ DOMAIN g = Ids
      /\ Trailing(g, color, trail)
  BY HereIs DEF SearchInv, Searching
<1>2. /\ Onward \in Seq(Stops) /\ Len(Onward) = n /\ DOMAIN Onward = 1 .. n
      /\ \A k \in 1 .. n : /\ Onward[k].at = trail[k].at
                           /\ ToSet(trail[k].edges) = ToSet(Onward[k].edges)
                                                        \cup IF k = n THEN {Ahead} ELSE {}
  BY OnwardIs
<1> HIDE DEF n, g
<1>3. Onward \in Seq([at : DOMAIN g, edges : Seq(DOMAIN g)])
  BY <1>1, <1>2 DEF Stops
<1>4. ASSUME NEW k \in 1 .. n
      PROVE  /\ color[Onward[k].at] = "gray"
             /\ ToSet(Onward[k].edges) \subseteq g[Onward[k].at]
             /\ k < n => Onward[k + 1].at \in g[Onward[k].at]
             /\ \A j \in 1 .. (k - 1) : Onward[j].at # Onward[k].at
  <2>1. /\ color[trail[k].at] = "gray"
        /\ ToSet(trail[k].edges) \subseteq g[trail[k].at]
        /\ k < n => trail[k + 1].at \in g[trail[k].at]
        /\ \A j \in 1 .. (k - 1) : trail[j].at # trail[k].at
    BY <1>1 DEF Trailing, n
  <2>2. k < n => k + 1 \in 1 .. n
    BY <1>1
  <2>3. \A j \in 1 .. (k - 1) : j \in 1 .. n
    BY <1>1
  <2> QED
    BY <1>2, <2>1, <2>2, <2>3
<1>5. \A i \in DOMAIN g : color[i] = "gray" => \E k \in 1 .. n : Onward[k].at = i
  BY <1>1, <1>2 DEF Trailing
<1>6. Trailing(g, color, Onward)
  BY <1>2, <1>3, <1>4, <1>5 DEF Trailing
<1>7. ASSUME CycleErrors = {}, color[Ahead] = "black",
             NEW k \in 1 .. n, NEW j \in g[Onward[k].at]
      PROVE  \/ j \in ToSet(Onward[k].edges)
             \/ color[j] = "black"
             \/ k < n /\ j = Onward[k + 1].at
  <2>1. \/ j \in ToSet(trail[k].edges)
        \/ color[j] = "black"
        \/ k < n /\ j = trail[k + 1].at
    BY <1>1, <1>2, <1>7 DEF SearchInv, Searching, ExploredBlack, n, g
  <2>2. k < n => k + 1 \in 1 .. n
    BY <1>1
  <2> QED
    BY <1>2, <1>7, <2>1, <2>2
<1>8. CycleErrors = {} /\ color[Ahead] = "black" => ExploredBlack(g, color, Onward)
  BY <1>2, <1>7 DEF ExploredBlack
<1> QED
  BY <1>6, <1>8 DEF g

LEMMA StartSearchKeeps ==
  ASSUME Typed, SearchInv, StartSearch
  PROVE  SearchInv'
<1> DEFINE g == Imports
           none == <<>>
<1>1. PICK i \in Ids : /\ color[i] = "white" /\ color' = [color EXCEPT ![i] = "gray"]
                       /\ trail' = <<Stop(i)>>
  BY DEF StartSearch
<1>2. /\ phase = "cycles" /\ phase' = "cycles" /\ trail = none /\ errors' = errors
      /\ modules' = modules /\ color \in [Ids -> Colors] /\ Trailing(g, color, trail)
      /\ CycleErrors = {} => BlackSettled(g, color)
  BY DEF StartSearch, SearchInv, tree
<1>3. Imports' = g /\ Ids' = Ids /\ DOMAIN g = Ids
  BY <1>2, ImportsKept DEF Imports
<1>4. CycleErrors' = CycleErrors
  BY <1>2 DEF CycleErrors
<1>5. color' \in [Ids -> Colors] /\ \A j \in Ids : color'[j] = IF j = i THEN "gray" ELSE color[j]
  BY <1>1, <1>2 DEF Colors
<1>6. /\ Stop(i) \in [at : DOMAIN g, edges : Seq(DOMAIN g)]
      /\ Stop(i).at = i /\ ToSet(Stop(i).edges) = g[i]
  BY <1>3, StopIs
<1> HIDE DEF g
<1>7. /\ trail' \in Seq([at : DOMAIN g, edges : Seq(DOMAIN g)]) /\ DOMAIN trail' = {1}
      /\ Len(trail') = 1 /\ trail'[1] = Stop(i)
  <2> DEFINE stop == Stop(i)
             S == [at : DOMAIN g, edges : Seq(DOMAIN g)]
  <2> HIDE DEF stop, S
  <2>1. stop \in S /\ trail' = <<stop>>
    BY <1>1, <1>6 DEF stop, S
  <2>2. trail' \in Seq(S) /\ Len(trail') = 1 /\ trail'[1] = stop /\ DOMAIN trail' = 1 .. 1
    BY <2>1
  <2> QED
    BY <2>2 DEF stop, S
<1>8. \A j \in DOMAIN g : color[j] # "gray"
  <2>1. DOMAIN none = {}
    OBVIOUS
  <2> QED
    BY <1>2, <2>1 DEF Trailing
<1>9. Trailing(g, color', trail')
  <2>1. \A j \in 1 .. (1 - 1) : FALSE
    OBVIOUS
  <2> QED
    BY <1>3, <1>5, <1>6, <1>7, <1>8, <2>1 DEF Trailing
<1>10. ExploredBlack(g, color', trail')
  BY <1>6, <1>7 DEF ExploredBlack
<1>11. Black(g, color') = Black(g, color)
  BY <1>1, <1>3, <1>5 DEF Black
<1>12. CycleErrors' = {} => BlackSettled(g, color')
  BY <1>2, <1>4, <1>11 DEF BlackSettled
<1>13. \A e \in CycleErrors' : IsTrace(g, e.at)
  BY <1>4 DEF SearchInv, g
<1> QED
  BY <1>2, <1>3, <1>5, <1>9, <1>10, <1>12, <1>13 DEF SearchInv

LEMMA DescendKeeps ==
  ASSUME Typed, SearchInv, Descend
  PROVE  SearchInv'
<1> DEFINE n == Len(trail)
           g == Imports
           h == Ahead
           t == Append(Onward, Stop(h))
<1>1. /\ Searching /\ Here.edges # <<>> /\ color[h] = "white" /\ errors' = errors
      /\ color' = [color EXCEPT ![h] = "gray"] /\ trail' = t /\ modules' = modules
      /\ phase = "cycles" /\ phase' = "cycles"
  BY DEF Descend, Searching, tree
<1>2. Imports' = g /\ Ids' = Ids /\ DOMAIN g = Ids /\ CycleErrors' = CycleErrors
  BY <1>1, ImportsKept, SMTT(30) DEF Imports, CycleErrors
<1>3. /\ n \in Nat \ {0} /\ DOMAIN trail = 1 .. n /\ color \in [Ids -> Colors]
      /\ Here = trail[n] /\ h \in Ids /\ h \in g[Here.at]
      /\ Onward \in Seq(Stops) /\ Len(Onward) = n /\ DOMAIN Onward = 1 .. n
      /\ \A k \in 1 .. n : /\ Onward[k].at = trail[k].at
                           /\ ToSet(trail[k].edges) = ToSet(Onward[k].edges)
                                                        \cup IF k = n THEN {h} ELSE {}
  BY <1>1, HereIs, OnwardIs, Zenon
<1>4. Trailing(g, color, Onward)
  BY <1>1, OnwardTrails
<1>5. Stop(h) \in Stops /\ Stop(h).at = h /\ ToSet(Stop(h).edges) = g[h]
  <2> HIDE DEF h
  <2>1. h \in Ids
    BY <1>3
  <2> QED
    BY <2>1, StopIs DEF Stops
<1>6. color' \in [Ids -> Colors] /\ \A j \in Ids : color'[j] = IF j = h THEN "gray" ELSE color[j]
  BY <1>1, <1>3 DEF Colors
<1>7. /\ t \in Seq(Stops) /\ Len(t) = n + 1
      /\ \A k \in 1 .. n : t[k] = Onward[k]
      /\ t[n + 1] = Stop(h)
  <2> DEFINE stop == Stop(h)
             s == Onward
  <2>1. s \in Seq(Stops) /\ stop \in Stops /\ Len(s) = n /\ t = Append(s, stop)
    BY <1>3, <1>5
  <2> HIDE DEF stop, s, t, n
  <2>2. /\ Append(s, stop) \in Seq(Stops) /\ Len(Append(s, stop)) = Len(s) + 1
        /\ \A k \in 1 .. Len(s) : Append(s, stop)[k] = s[k]
        /\ Append(s, stop)[Len(s) + 1] = stop
    BY <2>1, Appended
  <2> QED
    BY <2>1, <2>2 DEF s, stop
<1>8. /\ CycleErrors = {} => ExploredBlack(g, color, trail) /\ BlackSettled(g, color)
      /\ \A e \in CycleErrors : IsTrace(g, e.at)
  BY <1>1 DEF SearchInv
<1> HIDE DEF n, g, h, t
<1>9. ASSUME NEW k \in 1 .. n
      PROVE  /\ color[Onward[k].at] = "gray" /\ Onward[k].at \in Ids
             /\ ToSet(Onward[k].edges) \subseteq g[Onward[k].at]
             /\ k < n => Onward[k + 1].at \in g[Onward[k].at]
             /\ \A j \in 1 .. (k - 1) : Onward[j].at # Onward[k].at
  <2>1. k \in DOMAIN Onward /\ n = Len(Onward)
    BY <1>3
  <2>2. Onward[k] \in Stops
    BY <1>3
  <2> QED
    BY <1>4, <2>1, <2>2 DEF Trailing, Stops
<1>10. Onward[n].at = Here.at /\ n \in 1 .. n
  BY <1>3
<1>11. ASSUME NEW k \in 1 .. (n + 1)
       PROVE  /\ color'[t[k].at] = "gray"
              /\ ToSet(t[k].edges) \subseteq g[t[k].at]
              /\ k < n + 1 => t[k + 1].at \in g[t[k].at]
              /\ \A j \in 1 .. (k - 1) : t[j].at # t[k].at
  <2>1. CASE k = n + 1
    <3>1. t[k] = Stop(h)
      BY <1>7, <2>1
    <3>2. \A j \in 1 .. (k - 1) : t[j] = Onward[j] /\ color[Onward[j].at] = "gray"
      BY <1>3, <1>7, <1>9, <2>1
    <3>3. \A j \in 1 .. (k - 1) : t[j].at # h
      BY <1>1, <3>2 DEF h
    <3> QED
      BY <1>3, <1>5, <1>6, <2>1, <3>1, <3>3
  <2>2. CASE k # n + 1
    <3>1. k \in 1 .. n
      BY <1>3, <2>2
    <3>2. t[k] = Onward[k] /\ \A j \in 1 .. (k - 1) : t[j] = Onward[j]
      BY <1>3, <1>7, <3>1
    <3>3. k < n => t[k + 1] = Onward[k + 1]
      BY <1>3, <1>7, <3>1
    <3>4. k = n => t[k + 1].at = h /\ t[k].at = Here.at
      BY <1>5, <1>7, <1>10, <3>2
    <3>5. color'[t[k].at] = "gray"
      BY <1>6, <1>9, <3>1, <3>2
    <3> QED
      BY <1>3, <1>9, <3>1, <3>2, <3>3, <3>4, <3>5
  <2> QED
    BY <2>1, <2>2
<1>12. ASSUME NEW i \in Ids, color'[i] = "gray" PROVE \E k \in 1 .. (n + 1) : t[k].at = i
  <2>1. CASE i = h
    BY <1>3, <1>5, <1>7, <2>1
  <2>2. CASE i # h
    <3>1. PICK k \in 1 .. n : Onward[k].at = i
      BY <1>2, <1>3, <1>4, <1>6, <1>12, <2>2 DEF Trailing
    <3>2. k \in 1 .. (n + 1) /\ t[k] = Onward[k]
      BY <1>3, <1>7, <3>1
    <3> QED
      BY <3>1, <3>2
  <2> QED
    BY <2>1, <2>2
<1>13. DOMAIN t = 1 .. (n + 1)
  BY <1>7
<1>14. Trailing(g, color', t)
  <2>1. t \in Seq([at : DOMAIN g, edges : Seq(DOMAIN g)])
    BY <1>2, <1>7 DEF Stops
  <2> QED
    BY <1>2, <1>7, <1>11, <1>12, <1>13, <2>1 DEF Trailing
<1>15. ASSUME CycleErrors = {} PROVE ExploredBlack(g, color', t) /\ BlackSettled(g, color')
  <2>1. ExploredBlack(g, color, trail) /\ BlackSettled(g, color)
    BY <1>8, <1>15
  <2>2. Black(g, color') = Black(g, color)
    BY <1>1, <1>2, <1>6 DEF Black, h
  <2>3. BlackSettled(g, color')
    BY <2>1, <2>2 DEF BlackSettled
  <2>4. ASSUME NEW k \in 1 .. (n + 1), NEW j \in g[t[k].at]
        PROVE  \/ j \in ToSet(t[k].edges)
               \/ color'[j] = "black"
               \/ k < n + 1 /\ j = t[k + 1].at
    <3>1. CASE k = n + 1
      BY <1>5, <1>7, <2>4, <3>1
    <3>2. CASE k # n + 1
      <4>1. k \in 1 .. n
        BY <1>3, <3>2
      <4>2. t[k].at = trail[k].at
        BY <1>3, <1>7, <4>1, SMTT(30)
      <4>3. \/ j \in ToSet(trail[k].edges)
            \/ color[j] = "black"
            \/ k < n /\ j = trail[k + 1].at
        BY <1>3, <2>1, <2>4, <4>1, <4>2 DEF ExploredBlack, n
      <4>4. CASE j \in ToSet(trail[k].edges)
        <5>1. j \in ToSet(Onward[k].edges) \/ (k = n /\ j = h)
          BY <1>3, <4>1, <4>4
        <5>2. t[k] = Onward[k] /\ (k = n => k < n + 1 /\ t[k + 1].at = h)
          BY <1>3, <1>5, <1>7, <4>1
        <5> QED
          BY <5>1, <5>2
      <4>5. CASE color[j] = "black"
        <5>1. j \in Ids
          <6>1. Trailing(g, color, trail)
            BY <1>1 DEF SearchInv, g
          <6>2. j \in Imports[t[k].at] /\ t[k].at \in Ids
            BY <1>7, <1>9, <2>4, <4>1 DEF g
          <6> QED
            BY <6>2 DEF Imports
        <5> QED
          BY <1>1, <1>6, <4>5, <5>1 DEF h
      <4>6. CASE k < n /\ j = trail[k + 1].at
        <5>1. k + 1 \in 1 .. n /\ k < n + 1
          BY <1>3, <4>1, <4>6
        <5>2. t[k + 1].at = trail[k + 1].at
          BY <1>3, <1>7, <5>1
        <5> QED
          BY <4>6, <5>1, <5>2
      <4> QED
        BY <4>3, <4>4, <4>5, <4>6
    <3> QED
      BY <3>1, <3>2
  <2>5. ExploredBlack(g, color', t)
    BY <1>7, <1>13, <2>4 DEF ExploredBlack
  <2> QED
    BY <2>3, <2>5
<1> QED
  BY <1>1, <1>2, <1>6, <1>8, <1>14, <1>15 DEF SearchInv, g

\* What is printed when a gray module is found again is a cycle.
LEMMA TraceIs ==
  ASSUME Typed, SearchInv, Searching, Here.edges # <<>>, color[Ahead] = "gray"
  PROVE  IsTrace(Imports, Trace(Ahead))
<1> DEFINE n == Len(trail)
           g == Imports
           h == Ahead
           stack == [k \in DOMAIN trail |-> trail[k].at]
           found == {k \in 1 .. Len(stack) : stack[k] = h}
           m == Min(found)
           sub == SubSeq(stack, m, n)
           at == Append(sub, h)
<1>1. /\ n \in Nat \ {0} /\ DOMAIN trail = 1 .. n /\ DOMAIN g = Ids /\ trail \in Seq(Stops)
      /\ Here = trail[n] /\ h \in Ids /\ h \in g[Here.at] /\ Trailing(g, color, trail)
  BY HereIs, OnwardIs DEF SearchInv, Searching
<1>2. stack \in Seq(Ids) /\ Len(stack) = n /\ \A k \in 1 .. n : stack[k] = trail[k].at
  <2>1. ASSUME NEW k \in 1 .. n PROVE trail[k].at \in Ids
    <3>1. trail[k] \in Stops
      BY <1>1
    <3> QED
      BY <3>1 DEF Stops
  <2> HIDE DEF n
  <2> QED
    BY <1>1, <2>1
<1>3. found # {} /\ found \subseteq Nat
  <2>1. \E k \in DOMAIN trail : trail[k].at = h
    BY <1>1 DEF Trailing
  <2> QED
    BY <1>1, <1>2, <2>1
<1>4. Trace(h) = at
  <2>1. found # {}
    BY <1>3
  <2>2. Trace(h) = Append(SubSeq(stack, SelectInSeq(stack, LAMBDA x : x = h), Len(stack)), h)
    BY DEF Trace
  <2>3. SelectInSeq(stack, LAMBDA x : x = h) = IF found # {} THEN Min(found) ELSE 0
    BY DEF SelectInSeq
  <2> HIDE DEF found
  <2> QED
    BY <1>2, <2>1, <2>2, <2>3
<1>5. m \in 1 .. n /\ stack[m] = h
  <2> HIDE DEF found
  <2>1. m \in found
    BY <1>3, MinIs
  <2> QED
    BY <1>2, <2>1 DEF found
<1> HIDE DEF found, m, stack
<1>6. /\ sub \in Seq(Ids) /\ Len(sub) = n - m + 1
      /\ \A k \in 1 .. (n - m + 1) : sub[k] = stack[m + k - 1]
  <2>1. m \in Int /\ n \in Int /\ m <= n /\ \A k \in m .. n : stack[k] \in Ids
    <3>1. m \in 1 .. n /\ n \in Nat
      BY <1>1, <1>5
    <3>2. \A k \in m .. n : k \in 1 .. n
      BY <3>1
    <3>3. \A k \in 1 .. n : stack[k] \in Ids
      BY <1>2
    <3> QED
      BY <3>1, <3>2, <3>3
  <2> HIDE DEF n
  <2> QED
    BY <2>1, SubSeqProperties
<1>7. n - m + 1 \in Nat \ {0} /\ m + 1 - 1 = m /\ m + (n - m + 1) - 1 = n
  BY <1>1, <1>5
<1> HIDE DEF n
<1>8. sub[1] = h /\ sub[n - m + 1] = trail[n].at
  <2>1. 1 \in 1 .. (n - m + 1) /\ n - m + 1 \in 1 .. (n - m + 1) /\ n \in 1 .. n
    BY <1>1, <1>7
  <2> QED
    BY <1>2, <1>5, <1>6, <1>7, <2>1
<1>9. \A k \in 1 .. (n - m) : sub[k + 1] \in g[sub[k]]
  <2> SUFFICES ASSUME NEW k \in 1 .. (n - m) PROVE sub[k + 1] \in g[sub[k]]
    OBVIOUS
  <2>1. /\ k \in 1 .. (n - m + 1) /\ k + 1 \in 1 .. (n - m + 1) /\ m + k - 1 \in 1 .. n
        /\ m + (k + 1) - 1 = (m + k - 1) + 1 /\ (m + k - 1) + 1 \in 1 .. n /\ m + k - 1 < n
    BY <1>1, <1>5
  <2>2. trail[(m + k - 1) + 1].at \in g[trail[m + k - 1].at]
    BY <1>1, <2>1 DEF Trailing, n
  <2> QED
    BY <1>2, <1>6, <2>1, <2>2
<1> DEFINE p == n - m + 1
<1>10. p \in Nat \ {0} /\ Len(sub) = p /\ n - m = p - 1
  BY <1>1, <1>5, <1>6, <1>7
<1>11. /\ at \in Seq(Ids) /\ Len(at) = p + 1 /\ \A k \in 1 .. p : at[k] = sub[k]
       /\ at[p + 1] = h
  <2>1. sub \in Seq(Ids) /\ h \in Ids
    BY <1>1, <1>6
  <2> HIDE DEF sub, h, p
  <2> QED
    BY <1>10, <2>1, Appended
<1> HIDE DEF p, sub
<1>12. Head(at) = Last(at) /\ Len(at) >= 2
  <2>1. Head(at) = at[1] /\ Last(at) = at[p + 1] /\ 1 \in 1 .. p
    BY <1>10, <1>11 DEF Last
  <2> QED
    BY <1>8, <1>10, <1>11, <2>1
<1>13. ASSUME NEW k \in 1 .. (Len(at) - 1) PROVE at[k + 1] \in g[at[k]]
  <2>1. k \in 1 .. p
    BY <1>10, <1>11
  <2>2. CASE k = p
    BY <1>1, <1>8, <1>11, <2>1, <2>2 DEF p
  <2>3. CASE k # p
    <3>1. k + 1 \in 1 .. p /\ k \in 1 .. (n - m)
      BY <1>10, <2>1, <2>3
    <3> QED
      BY <1>9, <1>11, <2>1, <3>1
  <2> QED
    BY <2>2, <2>3
<1> HIDE DEF at
<1>14. IsTrace(g, at)
  BY <1>1, <1>11, <1>12, <1>13 DEF IsTrace
<1> QED
  BY <1>4, <1>14 DEF g

LEMMA BackEdgeKeeps ==
  ASSUME Typed, SearchInv, BackEdge
  PROVE  SearchInv'
<1> DEFINE g == Imports
           e == Error("E2100", Trace(Ahead))
<1>1. /\ Searching /\ Here.edges # <<>> /\ color[Ahead] = "gray" /\ errors' = errors \cup {e}
      /\ color' = color /\ trail' = Onward /\ modules' = modules
      /\ phase = "cycles" /\ phase' = "cycles"
  BY DEF BackEdge, Searching, tree
<1>2. Imports' = g /\ Ids' = Ids
  BY <1>1, ImportsKept
<1>3. e.code = "E2100" /\ e.at = Trace(Ahead)
  BY DEF Error
<1>4. IsTrace(g, e.at)
  BY <1>1, <1>3, TraceIs
<1>5. Trailing(g, color, Onward) /\ color \in [Ids -> Colors]
  BY <1>1, OnwardTrails, HereIs
<1> HIDE DEF e, g
<1>6. CycleErrors' = CycleErrors \cup {e}
  BY <1>1, <1>3 DEF CycleErrors
<1>7. \A d \in CycleErrors' : IsTrace(g, d.at)
  BY <1>4, <1>6 DEF SearchInv, g
<1> QED
  BY <1>1, <1>2, <1>5, <1>6, <1>7 DEF SearchInv

LEMMA ExploredKeeps ==
  ASSUME Typed, SearchInv, Explored
  PROVE  SearchInv'
<1> DEFINE g == Imports
<1>1. /\ Searching /\ Here.edges # <<>> /\ color[Ahead] = "black" /\ errors' = errors
      /\ color' = color /\ trail' = Onward /\ modules' = modules
      /\ phase = "cycles" /\ phase' = "cycles"
  BY DEF Explored, Searching, tree
<1>2. Imports' = g /\ Ids' = Ids /\ CycleErrors' = CycleErrors
  BY <1>1, ImportsKept DEF CycleErrors
<1>3. /\ Trailing(g, color, Onward) /\ color \in [Ids -> Colors]
      /\ CycleErrors = {} => ExploredBlack(g, color, Onward)
  BY <1>1, OnwardTrails, HereIs
<1>4. /\ CycleErrors = {} => BlackSettled(g, color)
      /\ \A e \in CycleErrors : IsTrace(g, e.at)
  BY <1>1 DEF SearchInv
<1> HIDE DEF g
<1> QED
  BY <1>1, <1>2, <1>3, <1>4 DEF SearchInv

LEMMA LeaveKeeps ==
  ASSUME Typed, SearchInv, Leave
  PROVE  SearchInv'
<1> DEFINE n == Len(trail)
           g == Imports
           h == Here.at
           t == Front(trail)
<1>1. /\ Searching /\ Here.edges = <<>> /\ errors' = errors
      /\ color' = [color EXCEPT ![h] = "black"] /\ trail' = t /\ modules' = modules
      /\ phase = "cycles" /\ phase' = "cycles"
  BY DEF Leave, Searching, tree
<1>2. Imports' = g /\ Ids' = Ids /\ DOMAIN g = Ids /\ CycleErrors' = CycleErrors
  BY <1>1, ImportsKept DEF Imports, CycleErrors
<1>3. /\ n \in Nat \ {0} /\ DOMAIN trail = 1 .. n /\ color \in [Ids -> Colors] /\ trail \in Seq(Stops)
      /\ trail # <<>> /\ Here = trail[n] /\ h \in Ids /\ color[h] = "gray"
  BY <1>1, HereIs
<1>4. /\ Trailing(g, color, trail)
      /\ CycleErrors = {} => ExploredBlack(g, color, trail) /\ BlackSettled(g, color)
      /\ \A e \in CycleErrors : IsTrace(g, e.at)
  BY <1>1 DEF SearchInv
<1>5. color' \in [Ids -> Colors] /\ \A j \in Ids : color'[j] = IF j = h THEN "black" ELSE color[j]
  BY <1>1, <1>3, SMTT(30) DEF Colors
<1>6. t \in Seq(Stops) /\ Len(t) = n - 1 /\ \A k \in 1 .. (n - 1) : t[k] = trail[k]
  <2> HIDE DEF Stops
  <2> QED
    BY <1>3, Fronts, Zenon
<1>7. \A i \in Ids : g[i] \subseteq Ids
  BY DEF Imports
<1>8. ToSet(Here.edges) = {}
  <2>1. DOMAIN Here.edges = {}
    BY <1>1
  <2> QED
    BY <2>1 DEF ToSet
<1>9. ASSUME NEW k \in 1 .. n
      PROVE  /\ color[trail[k].at] = "gray" /\ trail[k].at \in Ids
             /\ ToSet(trail[k].edges) \subseteq g[trail[k].at]
             /\ k < n => trail[k + 1].at \in g[trail[k].at]
             /\ \A j \in 1 .. (k - 1) : trail[j].at # trail[k].at
  <2>1. trail[k] \in Stops
    BY <1>3
  <2> QED
    BY <1>3, <1>4, <2>1 DEF Trailing, Stops
<1> HIDE DEF n, g, h, t
<1>10. ASSUME NEW k \in 1 .. (n - 1)
       PROVE  /\ k \in 1 .. n /\ t[k] = trail[k] /\ trail[k].at # h
              /\ k < n - 1 => k + 1 \in 1 .. (n - 1) /\ k < n
  <2>1. k \in 1 .. n /\ n \in 1 .. n
    BY <1>3
  <2> QED
    BY <1>3, <1>6, <1>9, <2>1 DEF h
<1>11. DOMAIN t = 1 .. (n - 1)
  BY <1>3, <1>6
<1>12. Trailing(g, color', t)
  <2>1. t \in Seq([at : DOMAIN g, edges : Seq(DOMAIN g)])
    BY <1>2, <1>6 DEF Stops
  <2>2. ASSUME NEW k \in 1 .. (n - 1)
        PROVE  /\ color'[t[k].at] = "gray"
               /\ ToSet(t[k].edges) \subseteq g[t[k].at]
               /\ k < n - 1 => t[k + 1].at \in g[t[k].at]
               /\ \A j \in 1 .. (k - 1) : t[j].at # t[k].at
    <3>1. /\ k \in 1 .. n /\ t[k] = trail[k] /\ trail[k].at # h
          /\ k < n - 1 => k + 1 \in 1 .. (n - 1) /\ k < n
      BY <1>10
    <3>2. color'[t[k].at] = "gray"
      BY <1>5, <1>9, <3>1
    <3>3. k < n - 1 => t[k + 1].at \in g[t[k].at]
      BY <1>9, <1>10, <3>1
    <3>4. \A j \in 1 .. (k - 1) : j \in 1 .. (n - 1)
      BY <1>3
    <3>5. \A j \in 1 .. (k - 1) : t[j].at # t[k].at
      BY <1>9, <1>10, <3>1, <3>4
    <3> QED
      BY <1>9, <3>1, <3>2, <3>3, <3>5
  <2>3. ASSUME NEW i \in Ids, color'[i] = "gray" PROVE \E k \in 1 .. (n - 1) : t[k].at = i
    <3>1. i # h /\ color[i] = "gray"
      BY <1>5, <2>3
    <3>2. PICK k \in 1 .. n : trail[k].at = i
      BY <1>2, <1>3, <1>4, <3>1 DEF Trailing
    <3>3. k \in 1 .. (n - 1)
      BY <1>3, <3>1, <3>2 DEF h
    <3> QED
      BY <1>10, <3>2, <3>3
  <2> QED
    BY <1>2, <1>6, <1>11, <2>1, <2>2, <2>3 DEF Trailing
<1>13. ASSUME CycleErrors = {} PROVE ExploredBlack(g, color', t) /\ BlackSettled(g, color')
  <2>1. ExploredBlack(g, color, trail) /\ BlackSettled(g, color)
    BY <1>4, <1>13
  <2>2. ASSUME NEW k \in 1 .. (n - 1), NEW j \in g[t[k].at]
        PROVE  \/ j \in ToSet(t[k].edges)
               \/ color'[j] = "black"
               \/ k < n - 1 /\ j = t[k + 1].at
    <3>1. /\ k \in 1 .. n /\ t[k] = trail[k] /\ trail[k].at \in Ids
          /\ k < n - 1 => k + 1 \in 1 .. (n - 1) /\ k < n
      BY <1>9, <1>10
    <3>2. \/ j \in ToSet(trail[k].edges)
          \/ color[j] = "black"
          \/ k < n /\ j = trail[k + 1].at
      BY <1>3, <2>1, <2>2, <3>1 DEF ExploredBlack, n
    <3>3. j \in Ids
      BY <1>7, <2>2, <3>1
    <3>4. CASE j \in ToSet(trail[k].edges)
      BY <3>1, <3>4
    <3>5. CASE color[j] = "black"
      BY <1>5, <3>3, <3>5
    <3>6. CASE k < n /\ j = trail[k + 1].at
      <4>1. CASE k < n - 1
        <5>1. t[k + 1] = trail[k + 1]
          BY <1>10, <3>1, <4>1
        <5> QED
          BY <3>6, <4>1, <5>1
      <4>2. CASE ~ (k < n - 1)
        <5>1. k + 1 = n
          BY <1>3, <2>2, <4>2
        <5> QED
          BY <1>3, <1>5, <3>3, <3>6, <5>1 DEF h
      <4> QED
        BY <4>1, <4>2
    <3> QED
      BY <3>2, <3>4, <3>5, <3>6
  <2>3. ExploredBlack(g, color', t)
    BY <1>6, <1>11, <2>2 DEF ExploredBlack
  <2>4. g[h] \subseteq Black(g, color)
    <3>1. n \in 1 .. n /\ trail[n].at = h /\ ToSet(trail[n].edges) = {} /\ ~ (n < n)
      BY <1>3, <1>8 DEF h
    <3>2. \A j \in g[h] : color[j] = "black"
      BY <1>3, <2>1, <3>1 DEF ExploredBlack, n
    <3> QED
      BY <1>2, <1>3, <1>7, <3>2 DEF Black
  <2>5. Black(g, color') = Black(g, color) \cup {h} /\ h \notin Black(g, color)
    BY <1>2, <1>3, <1>5 DEF Black
  <2> DEFINE old == Black(g, color)
  <2> HIDE DEF old
  <2>6. /\ \A i \in old : g[i] \subseteq old
        /\ \A some \in (SUBSET old) \ {{}} : \E i \in some : g[i] \cap some = {}
    BY <2>1 DEF BlackSettled, old
  <2>7. h \notin old /\ g[h] \subseteq old /\ Black(g, color') = old \cup {h}
    BY <2>4, <2>5 DEF old
  <2>8. ASSUME NEW some \in SUBSET (old \cup {h}), some # {} PROVE \E i \in some : g[i] \cap some = {}
    <3>1. CASE some \ {h} = {}
      <4>1. some = {h}
        BY <2>8, <3>1
      <4> QED
        BY <2>7, <4>1
    <3>2. CASE some \ {h} # {}
      <4>1. PICK i \in some \ {h} : g[i] \cap (some \ {h}) = {}
        BY <2>6, <2>8, <3>2
      <4>2. i \in old /\ g[i] \subseteq old
        BY <2>6, <2>8, <4>1
      <4>3. g[i] \cap some = {}
        BY <2>7, <4>1, <4>2
      <4> QED
        BY <4>1, <4>3
    <3> QED
      BY <3>1, <3>2
  <2>9. \A i \in old \cup {h} : g[i] \subseteq old \cup {h}
    BY <2>6, <2>7
  <2>10. BlackSettled(g, color')
    BY <2>7, <2>8, <2>9 DEF BlackSettled
  <2> QED
    BY <2>3, <2>10
<1> QED
  BY <1>1, <1>2, <1>4, <1>5, <1>12, <1>13 DEF SearchInv, g

\* The phases around the search.
LEMMA StartCyclesKeeps ==
  ASSUME Typed, SearchInv, StartCycles
  PROVE  SearchInv'
<1> DEFINE g == Imports
           none == <<>>
<1>1. /\ phase = "load" /\ phase' = "cycles" /\ color' = [i \in Ids |-> "white"] /\ trail' = trail
      /\ errors' = errors /\ modules' = modules
  BY DEF StartCycles, tree
<1>2. trail = none /\ CycleErrors = {}
  BY <1>1 DEF SearchInv
<1>3. Imports' = g /\ Ids' = Ids /\ DOMAIN g = Ids /\ CycleErrors' = CycleErrors
  BY <1>1, ImportsKept DEF Imports, CycleErrors
<1>4. color' \in [Ids -> Colors] /\ \A i \in Ids : color'[i] = "white"
  BY <1>1 DEF Colors
<1>5. Black(g, color') = {}
  BY <1>3, <1>4 DEF Black
<1>6. DOMAIN none = {} /\ none \in Seq([at : DOMAIN g, edges : Seq(DOMAIN g)])
  OBVIOUS
<1>7. trail' = none /\ CycleErrors' = {}
  BY <1>1, <1>2, <1>3
<1> HIDE DEF g, none
<1>8. Trailing(g, color', trail') /\ ExploredBlack(g, color', trail') /\ BlackSettled(g, color')
  BY <1>3, <1>4, <1>5, <1>6, <1>7 DEF Trailing, ExploredBlack, BlackSettled
<1> QED
  BY <1>1, <1>3, <1>4, <1>7, <1>8 DEF SearchInv

LEMMA EndSearchKeeps ==
  ASSUME Typed, SearchInv, EndSearch
  PROVE  SearchInv'
<1> DEFINE g == Imports
           none == <<>>
<1>1. /\ phase = "cycles" /\ phase' \in {"done", "names"} /\ trail = none /\ color' = color
      /\ errors' = errors /\ modules' = modules /\ \A i \in Ids : color[i] # "white"
  BY DEF EndSearch, tree, graph
<1>2. Imports' = g /\ Ids' = Ids /\ DOMAIN g = Ids /\ CycleErrors' = CycleErrors
  BY <1>1, ImportsKept DEF Imports, CycleErrors
<1>3. /\ color \in [Ids -> Colors] /\ Trailing(g, color, trail)
      /\ CycleErrors = {} => BlackSettled(g, color)
      /\ \A e \in CycleErrors : IsTrace(g, e.at)
  BY <1>1 DEF SearchInv
<1>4. DOMAIN none = {}
  OBVIOUS
<1> HIDE DEF g, none
<1>5. \A i \in Ids : color[i] = "black"
  BY <1>1, <1>2, <1>3, <1>4 DEF Trailing, Colors
<1>6. Black(g, color) = DOMAIN g
  BY <1>2, <1>5 DEF Black
<1>7. CycleErrors = {} => ~ Cyclic(g)
  BY <1>3, <1>6 DEF BlackSettled, Cyclic
<1> QED
  BY <1>1, <1>2, <1>3, <1>7 DEF SearchInv

LEMMA SearchStays ==
  ASSUME Typed, SearchInv, CycleErrors' = CycleErrors, UNCHANGED <<color, trail>>,
         \/ phase = "load" /\ phase' = "load"
         \/ /\ modules' = modules
            /\ phase' = phase \/ (phase \in {"names", "done"} /\ phase' \in {"names", "done"})
  PROVE  SearchInv'
<1>1. CASE phase = "load" /\ phase' = "load"
  <2>1. color' = <<>> /\ trail' = <<>> /\ CycleErrors' = {}
    BY <1>1 DEF SearchInv
  <2> QED
    BY <1>1, <2>1 DEF SearchInv
<1>2. CASE /\ modules' = modules
           /\ phase' = phase \/ (phase \in {"names", "done"} /\ phase' \in {"names", "done"})
  <2>1. Imports' = Imports /\ Ids' = Ids
    BY <1>2, ImportsKept
  <2> QED
    BY <1>2, <2>1 DEF SearchInv
<1> QED
  BY <1>1, <1>2

\* An import binds a name or fails in one of three ways.
Answers == {"bind", "E2103", "E2104", "E2107"}

LEMMA WholeAnswers ==
  ASSUME NEW r
  PROVE  ResolveWhole(r).code \in Answers
BY DEF ResolveWhole, Binding, Failure, Answers

LEMMA FromAnswers ==
  ASSUME NEW r
  PROVE  ResolveFrom(r).code \in Answers
BY DEF ResolveFrom, Binding, Failure, Answers

LEMMA ResolutionAnswers ==
  ASSUME NEW r
  PROVE  Resolution(r).code \in Answers
BY WholeAnswers, FromAnswers DEF Resolution

LEMMA OtherErrors ==
  ASSUME NEW code, code # "E2100", NEW at, errors' = errors \cup {Error(code, at)}
  PROVE  CycleErrors' = CycleErrors
BY DEF CycleErrors, Error

LEMMA ImportErrs ==
  ASSUME Import
  PROVE  CycleErrors' = CycleErrors
<1> DEFINE r == Head(requests)
           answer == Resolution(r)
<1>1. \/ errors' = errors
      \/ errors' = errors \cup {Error("E2108", <<r.by, answer.name>>)}
      \/ answer.code # "bind" /\ errors' = errors \cup {Error(answer.code, <<r.by>> \o r.path)}
  BY DEF Import
<1>2. CASE errors' = errors
  BY <1>2 DEF CycleErrors
<1>3. CASE errors' = errors \cup {Error("E2108", <<r.by, answer.name>>)}
  <2> DEFINE at == <<r.by, answer.name>>
  <2> HIDE DEF at
  <2>1. errors' = errors \cup {Error("E2108", at)}
    BY <1>3 DEF at
  <2> QED
    BY <2>1, OtherErrors
<1>4. CASE errors' = errors \cup {Error(answer.code, <<r.by>> \o r.path)}
  <2> DEFINE at == <<r.by>> \o r.path
             code == answer.code
  <2>1. code # "E2100"
    BY ResolutionAnswers DEF Answers
  <2> HIDE DEF at, code
  <2>2. errors' = errors \cup {Error(code, at)}
    BY <1>4 DEF at, code
  <2> QED
    BY <2>1, <2>2, OtherErrors
<1> QED
  BY <1>1, <1>2, <1>3, <1>4

LEMMA SearchStarts ==
  ASSUME Init
  PROVE  SearchInv
<1>1. color = <<>> /\ trail = <<>> /\ phase \in {"load", "done"}
  BY DEF Init
<1>2. CycleErrors = {}
  BY DEF Init, CycleErrors, Error
<1> QED
  BY <1>1, <1>2 DEF SearchInv

LEMMA SearchSteps ==
  ASSUME Typed, SearchInv, [Next]_vars
  PROVE  SearchInv'
<1>1. CASE LoadRoot
  <2>1. phase = "load" /\ phase' = "load" /\ UNCHANGED <<color, trail>>
    BY <1>1 DEF LoadRoot, graph
  <2>2. CycleErrors' = CycleErrors
    <3>1. errors' = errors \/ errors' = errors \cup {Error("E2105", Head(tops).path)}
      BY <1>1 DEF LoadRoot
    <3> QED
      BY <3>1 DEF CycleErrors, Error
  <2> QED
    BY <2>1, <2>2, SearchStays
<1>2. CASE Keep \/ OpenInline \/ SkipLoading \/ OpenExternal \/ Close
  <2>1. phase = "load" /\ phase' = "load" /\ UNCHANGED <<color, trail>> /\ errors' = errors
    BY <1>2 DEF Keep, OpenInline, SkipLoading, OpenExternal, OpenFile, Close, Working, Declaring, graph
  <2>2. CycleErrors' = CycleErrors
    BY <2>1 DEF CycleErrors
  <2> QED
    BY <2>1, <2>2, SearchStays
<1>3. CASE NotFound \/ Unloadable
  <2>1. \E code \in {"E2101", "E2105", "E2106"} : Refuse(code)
    BY <1>3 DEF NotFound, Unloadable
  <2>2. phase = "load" /\ phase' = "load" /\ UNCHANGED <<color, trail>>
    BY <1>3, <2>1 DEF NotFound, Unloadable, Declaring, Working, Refuse, graph
  <2>3. CycleErrors' = CycleErrors
    BY <2>1 DEF Refuse, CycleErrors, Error
  <2> QED
    BY <2>2, <2>3, SearchStays
<1>4. CASE StartCycles
  BY <1>4, StartCyclesKeeps
<1>5. CASE StartSearch
  BY <1>5, StartSearchKeeps
<1>6. CASE Descend
  BY <1>6, DescendKeeps
<1>7. CASE BackEdge
  BY <1>7, BackEdgeKeeps
<1>8. CASE Explored
  BY <1>8, ExploredKeeps
<1>9. CASE Leave
  BY <1>9, LeaveKeeps
<1>10. CASE EndSearch
  BY <1>10, EndSearchKeeps
<1>11. CASE Import
  <2>1. modules' = modules /\ phase' = phase /\ UNCHANGED <<color, trail>>
    BY <1>11 DEF Import, tree, graph
  <2>2. CycleErrors' = CycleErrors
    BY <1>11, ImportErrs
  <2> QED
    BY <2>1, <2>2, SearchStays
<1>12. CASE Finish
  <2>1. /\ modules' = modules /\ UNCHANGED <<color, trail>> /\ errors' = errors
        /\ phase \in {"names", "done"} /\ phase' \in {"names", "done"}
    BY <1>12 DEF Finish, tree, graph
  <2>2. CycleErrors' = CycleErrors
    BY <2>1 DEF CycleErrors
  <2> QED
    BY <2>1, <2>2, SearchStays
<1>13. CASE UNCHANGED vars
  <2>1. modules' = modules /\ phase' = phase /\ UNCHANGED <<color, trail>> /\ errors' = errors
    BY <1>13 DEF vars, tree, graph
  <2>2. CycleErrors' = CycleErrors
    BY <2>1 DEF CycleErrors
  <2> QED
    BY <2>1, <2>2, SearchStays
<1> QED
  BY <1>1, <1>2, <1>3, <1>4, <1>5, <1>6, <1>7, <1>8, <1>9, <1>10, <1>11, <1>12, <1>13 DEF Next

\* The search keeps its invariant (cycle.rs: dfs).
THEOREM SearchSafe == Spec => []SearchInv
<1>1. Init => SearchInv
  BY SearchStarts
<1>2. LoaderInv /\ SearchInv /\ [Next]_vars => SearchInv'
  BY SearchSteps DEF LoaderInv
<1> QED
  BY <1>1, <1>2, LoaderSafe, PTL DEF Spec

\* The search reports a cycle exactly when some module imports itself through
\* others, and what it prints is such a cycle, whatever the modules import
\* (cycle.rs: dfs).
THEOREM SearchExact == Spec => []CyclesFound
<1>1. SearchInv => CyclesFound
  <2> SUFFICES ASSUME SearchInv, phase \in {"names", "done"}, color # <<>>
               PROVE  /\ CycleErrors # {} <=> ImportCycle
                      /\ \A e \in CycleErrors :
                           /\ Head(e.at) = Last(e.at)
                           /\ \A k \in 1 .. (Len(e.at) - 1) : Imported(e.at[k], e.at[k + 1])
    BY DEF CyclesFound
  <2>1. CycleErrors = {} => ~ Cyclic(Imports)
    BY DEF SearchInv
  <2>2. ImportCycle <=> Cyclic(Imports)
    BY DEF ImportCycle, Cyclic, Imports
  <2>3. ASSUME NEW e \in CycleErrors
        PROVE  /\ IsTrace(Imports, e.at) /\ Cyclic(Imports)
               /\ \A k \in 1 .. (Len(e.at) - 1) : Imported(e.at[k], e.at[k + 1])
    <3>1. IsTrace(Imports, e.at)
      BY DEF SearchInv
    <3>2. Cyclic(Imports)
      BY <3>1, TraceIsCycle
    <3>3. ASSUME NEW k \in 1 .. (Len(e.at) - 1) PROVE Imported(e.at[k], e.at[k + 1])
      <4>1. e.at \in Seq(Ids) /\ e.at[k + 1] \in Imports[e.at[k]]
        BY <3>1 DEF IsTrace, Imports
      <4>2. e.at[k] \in Ids
        BY <4>1
      <4> QED
        BY <4>1, <4>2 DEF Imports
    <3> QED
      BY <3>1, <3>2, <3>3
  <2> QED
    BY <2>1, <2>2, <2>3 DEF IsTrace
<1> QED
  BY <1>1, SearchSafe, PTL

-----------------------------------------------------------------------------
(***************************************************************************)
(* The invariant of the names.  What a module binds are its own names and  *)
(* what imports of its own resolve to; while no error was found, every     *)
(* import was made, or is still to be made.                                *)
(***************************************************************************)
RequestRecords ==
  [by : Ids, path : Paths, whole : BOOLEAN, name : Words, alias : Words \cup {""}]

RequestsBy(i) == {r \in RequestRecords : r.by = i /\ (r.whole => r.name = Last(r.path))}

Requests == UNION {ToSet(RequestsOf(i)) : i \in Ids}

Answered(r, bound) ==
  /\ Resolution(r).code = "bind"
  /\ Resolution(r).name \in DOMAIN bound[r.by]
  /\ bound[r.by][Resolution(r).name] = Resolution(r).to

\* Why module i binds name n to what it does.
Justified(i, n, to) ==
  \/ n \in DOMAIN OwnBindings(i) /\ to = OwnBindings(i)[n]
  \/ \E r \in ToSet(RequestsOf(i)) :
       Resolution(r).code = "bind" /\ n = Resolution(r).name /\ to = Resolution(r).to

Bound(bound) ==
  /\ DOMAIN bound = Ids
  /\ \A i \in Ids : \A n \in DOMAIN OwnBindings(i) :
       n \in DOMAIN bound[i] /\ bound[i][n] = OwnBindings(i)[n]
  /\ \A i \in Ids : \A n \in DOMAIN bound[i] : Justified(i, n, bound[i][n])

Asked(left, bound) ==
  /\ ToSet(left) \subseteq Requests
  /\ errors = {} => \A r \in Requests \ ToSet(left) : Answered(r, bound)

NamesInv ==
  /\ phase \in {"load", "cycles"} => bindings = <<>> /\ requests = <<>>
  /\ phase = "names" =>
       requests \in Seq(RequestRecords) /\ Bound(bindings) /\ Asked(requests, bindings)
  /\ phase = "done" => \/ bindings = <<>> /\ errors # {}
                       \/ requests = <<>> /\ Bound(bindings) /\ Asked(requests, bindings)

-----------------------------------------------------------------------------
(* Names and items *)

\* The module found for a path has that path.
LEMMA FoundIs ==
  ASSUME Typed, NEW path
  PROVE  /\ FindModule(path) \in Ids \cup {0}
         /\ FindModule(path) # 0 => modules[FindModule(path)].path = path
<1> DEFINE S == WithPath(path)
<1>1. S \subseteq 1 .. Len(modules) /\ S \subseteq Nat /\ \A i \in S : modules[i].path = path
  BY DEF WithPath, Ids, Typed
<1> HIDE DEF S
<1>2. S # {} => Min(S) \in S
  BY <1>1, MinIs
<1> QED
  BY <1>1, <1>2 DEF FindModule, S, Ids

\* The item found under a name is one of that name, and the enum of a variant
\* has it.
LEMMA FindItemIs ==
  ASSUME NEW items \in Seq(Declarations), NEW name \in NamesOf(items)
  PROVE  LET d == FindItem(items, name)
         IN  d \in ToSet(items) /\ IsItem(d) /\ d.name = name
<1> DEFINE found == {k \in 1 .. Len(items) : IsItem(items[k]) /\ items[k].name = name}
<1>1. found # {} /\ found \subseteq Nat
  BY DEF NamesOf, ToSet
<1>2. FindItem(items, name) = items[SelectInSeq(items, LAMBDA d : IsItem(d) /\ d.name = name)]
  BY DEF FindItem
<1>3. SelectInSeq(items, LAMBDA d : IsItem(d) /\ d.name = name) = IF found # {} THEN Min(found) ELSE 0
  BY DEF SelectInSeq
<1> DEFINE m == Min(found)
<1>4. m \in found
  <2> HIDE DEF found
  <2> QED
    BY <1>1, MinIs
<1>5. FindItem(items, name) = items[m]
  <2> HIDE DEF found
  <2> QED
    BY <1>1, <1>2, <1>3
<1> HIDE DEF m
<1>6. m \in DOMAIN items /\ items[m] \in ToSet(items)
  BY <1>4 DEF ToSet
<1> QED
  BY <1>4, <1>5, <1>6

LEMMA EnumOwningIs ==
  ASSUME NEW items \in Seq(Declarations), NEW name, HasVariant(items, name)
  PROVE  EnumOwning(items, name) \in ToSet(items) /\ IsItem(EnumOwning(items, name))
<1> DEFINE found == {k \in 1 .. Len(items) : IsItem(items[k]) /\ name \in items[k].variants}
<1>1. found # {} /\ found \subseteq Nat
  BY DEF HasVariant, ToSet
<1>2. EnumOwning(items, name) = items[SelectInSeq(items, LAMBDA d : IsItem(d) /\ name \in d.variants)]
  BY DEF EnumOwning
<1>3. SelectInSeq(items, LAMBDA d : IsItem(d) /\ name \in d.variants) = IF found # {} THEN Min(found) ELSE 0
  BY DEF SelectInSeq
<1> DEFINE m == Min(found)
<1>4. m \in found
  <2> HIDE DEF found
  <2> QED
    BY <1>1, MinIs
<1>5. EnumOwning(items, name) = items[m]
  <2> HIDE DEF found
  <2> QED
    BY <1>1, <1>2, <1>3
<1> HIDE DEF m
<1>6. m \in DOMAIN items /\ items[m] \in ToSet(items)
  BY <1>4 DEF ToSet
<1> QED
  BY <1>4, <1>5, <1>6

\* No item is called like a keyword of paths.
LEMMA NamesAre ==
  ASSUME Typed, NEW i \in Ids
  PROVE  modules[i].items \in Seq(Declarations) /\ NamesOf(modules[i].items) \subseteq Identifiers
<1>1. modules[i].items \in Seq(Declarations) /\ modules[i].path \in Paths
  <2>1. modules[i] \in ModuleRecords
    BY DEF Typed, Ids
  <2> QED
    BY <2>1 DEF ModuleRecords
<1>2. ASSUME NEW d \in ToSet(modules[i].items), IsItem(d) PROVE d.name \in Identifiers
  <2>1. d \in Declarations
    BY <1>1 DEF ToSet
  <2> QED
    BY <1>2, <2>1, ProjectsAssumption DEF IsDeclaration, IsItem
<1> QED
  BY <1>1, <1>2 DEF NamesOf

\* The last segment of a path stays when the path is expanded, unless it is a
\* keyword.
LEMMA LastStays ==
  ASSUME NEW path \in Paths, NEW importer \in Paths
  PROVE  Last(Expand(path, importer)) = Last(path) \/ Last(path) \in {"self", "super"}
<1>1. path \in Seq(Words) /\ importer \in Seq(Words) /\ Len(path) \in Nat \ {0} /\ importer # <<>>
  BY DEF Paths
<1>2. CASE Len(path) = 1 /\ Head(path) \in {"self", "super"}
  BY <1>1, <1>2 DEF Last
<1>3. CASE Len(path) # 1
  <2>1. ASSUME NEW s \in Seq(Words) PROVE Last(s \o Tail(path)) = Last(path)
    <3> DEFINE n == Len(path)
               t == Tail(path)
    <3>1. t \in Seq(Words) /\ Len(t) = n - 1 /\ \A k \in 1 .. (n - 1) : t[k] = path[k + 1]
      BY <1>1
    <3>2. n \in Nat \ {0} /\ n # 1
      BY <1>1, <1>3
    <3>3. Last(path) = path[n]
      BY DEF Last
    <3> HIDE DEF n, t
    <3>6. n - 1 \in Nat \ {0} /\ n - 1 \in 1 .. (n - 1) /\ (n - 1) + 1 = n
      BY <3>2
    <3>4. t[n - 1] = path[n]
      BY <3>1, <3>6
    <3>5. Last(s \o t) = t[Len(t)]
      <4> DEFINE a == Len(s)
                 b == Len(t)
      <4>1. /\ Len(s \o t) = a + b
            /\ \A i \in 1 .. (a + b) : (s \o t)[i] = IF i <= a THEN s[i] ELSE t[i - a]
        BY <3>1, ConcatProperties
      <4>2. a \in Nat /\ b \in Nat \ {0}
        BY <3>1, <3>6
      <4> HIDE DEF a, b
      <4>3. a + b \in 1 .. (a + b) /\ ~ (a + b <= a) /\ (a + b) - a = b
        BY <4>2
      <4>4. (s \o t)[a + b] = t[b]
        BY <4>1, <4>3
      <4> QED
        BY <4>1, <4>4 DEF Last, b
    <3> QED
      BY <3>1, <3>3, <3>4, <3>5, <3>6 DEF t
  <2>2. Len(importer) > 1 => ParentPath(importer) \in Seq(Words)
    <3>1. Front(importer) \in Seq(Words)
      BY <1>1, Fronts
    <3> QED
      BY <3>1, <1>1 DEF ParentPath
  <2>3. \/ Expand(path, importer) = importer \o Tail(path)
        \/ Len(importer) > 1 /\ Expand(path, importer) = ParentPath(importer) \o Tail(path)
        \/ Expand(path, importer) = path
    BY Zenon DEF Expand
  <2> QED
    BY <1>1, <2>1, <2>2, <2>3
<1>4. CASE Head(path) \notin {"self", "super"}
  <2>1. Expand(path, importer) = path
    BY <1>4, Zenon DEF Expand
  <2> QED
    BY <2>1
<1> QED
  BY <1>2, <1>3, <1>4

-----------------------------------------------------------------------------
(* What imports resolve to *)

LEMMA WholeBinds ==
  ASSUME NEW r, ResolveWhole(r).code = "bind"
  PROVE  LET target == Expand(r.path, modules[r.by].path)
             module == ParentPath(target)
             owner  == FindModule(module)
             items  == modules[owner].items
             to     == ResolveWhole(r).to
         IN  \/ to = <<target, r.name>>
             \/ owner # 0 /\ Last(target) \in NamesOf(items) /\ to = <<module, Last(target)>>
                /\ IsVisible(FindItem(items, Last(target)), r.by, owner)
             \/ owner = 0 /\ to = <<module, Last(target)>>
BY Zenon DEF ResolveWhole, Binding, Failure

LEMMA FromBinds ==
  ASSUME NEW r, ResolveFrom(r).code = "bind"
  PROVE  LET target == Expand(r.path, modules[r.by].path)
             owner  == FindModule(target)
             items  == modules[owner].items
             to     == ResolveFrom(r).to
         IN  \/ owner = 0 /\ to = <<target, r.name>>
             \/ owner # 0 /\ r.name \in NamesOf(items) /\ to = <<target, r.name>>
                /\ IsVisible(FindItem(items, r.name), r.by, owner)
             \/ owner # 0 /\ r.name \notin NamesOf(items) /\ to = <<target, r.name>>
             \/ owner # 0 /\ HasVariant(items, r.name)
                /\ to = <<target, EnumOwning(items, r.name).name>>
                /\ IsVisible(EnumOwning(items, r.name), r.by, owner)
BY Zenon DEF ResolveFrom, Binding, Failure

\* An item bound in another module than its own may be seen there.
SeenFrom(i, to) ==
  LET owner == FindModule(to[1])
  IN  /\ owner # 0 /\ to[1] # modules[i].path /\ to[2] # Last(to[1])
      /\ to[2] \in NamesOf(modules[owner].items)
      => \E d \in ToSet(modules[owner].items) :
           IsItem(d) /\ d.name = to[2] /\ d.visibility # "private"

LEMMA VisibleSeen ==
  ASSUME Typed, NEW i \in Ids, NEW path, FindModule(path) # 0,
         NEW d \in ToSet(modules[FindModule(path)].items), IsItem(d),
         IsVisible(d, i, FindModule(path))
  PROVE  SeenFrom(i, <<path, d.name>>)
<1>1. modules[FindModule(path)].path = path
  BY FoundIs
<1>2. CASE i = FindModule(path)
  BY <1>1, <1>2 DEF SeenFrom
<1>3. CASE d.visibility \in {"public", "package"}
  BY <1>3 DEF SeenFrom
<1> QED
  BY <1>2, <1>3 DEF IsVisible

LEMMA WholeSeen ==
  ASSUME Typed, NEW i \in Ids, NEW r \in RequestsBy(i), r.whole, ResolveWhole(r).code = "bind"
  PROVE  SeenFrom(i, ResolveWhole(r).to)
<1> DEFINE target == Expand(r.path, modules[r.by].path)
           module == ParentPath(target)
           owner  == FindModule(module)
           items  == modules[owner].items
           to     == ResolveWhole(r).to
<1>1. r.by = i /\ r.path \in Paths /\ r.name = Last(r.path) /\ modules[i].path \in Paths
  <2>1. modules[i] \in ModuleRecords
    BY DEF Typed, Ids
  <2> QED
    BY <2>1 DEF RequestsBy, RequestRecords, ModuleRecords
<1>2. \/ to = <<target, r.name>>
      \/ owner # 0 /\ Last(target) \in NamesOf(items) /\ to = <<module, Last(target)>>
         /\ IsVisible(FindItem(items, Last(target)), r.by, owner)
      \/ owner = 0 /\ to = <<module, Last(target)>>
  BY WholeBinds
<1>3. Last(target) = r.name \/ r.name \in {"self", "super"}
  BY <1>1, LastStays
<1> HIDE DEF target
<1>4. CASE to = <<target, r.name>>
  <2> DEFINE found == FindModule(target)
  <2>1. ASSUME found # 0, r.name \in NamesOf(modules[found].items) PROVE r.name \notin {"self", "super"}
    <3>1. found \in Ids
      BY <2>1, FoundIs
    <3> QED
      BY <2>1, <3>1, NamesAre DEF Identifiers
  <2> QED
    BY <1>3, <1>4, <2>1 DEF SeenFrom
<1>5. CASE /\ owner # 0 /\ Last(target) \in NamesOf(items) /\ to = <<module, Last(target)>>
           /\ IsVisible(FindItem(items, Last(target)), r.by, owner)
  <2> DEFINE name == Last(target)
             d == FindItem(items, name)
  <2>1. owner \in Ids
    BY <1>5, FoundIs
  <2>2. items \in Seq(Declarations)
    BY <2>1, NamesAre
  <2> HIDE DEF module, name
  <2>3. d \in ToSet(items) /\ IsItem(d) /\ d.name = name
    <3> HIDE DEF items
    <3> QED
      BY <1>5, <2>2, FindItemIs DEF name
  <2> HIDE DEF d
  <2>4. IsVisible(d, i, owner)
    BY <1>1, <1>5 DEF d, name
  <2>5. SeenFrom(i, <<module, d.name>>)
    BY <1>5, <2>3, <2>4, VisibleSeen
  <2> QED
    BY <1>5, <2>3, <2>5 DEF name
<1>6. CASE owner = 0 /\ to = <<module, Last(target)>>
  BY <1>6 DEF SeenFrom
<1> QED
  BY <1>2, <1>4, <1>5, <1>6

LEMMA FromSeen ==
  ASSUME Typed, NEW i \in Ids, NEW r \in RequestsBy(i), ResolveFrom(r).code = "bind"
  PROVE  SeenFrom(i, ResolveFrom(r).to)
<1> DEFINE target == Expand(r.path, modules[r.by].path)
           owner  == FindModule(target)
           items  == modules[owner].items
           to     == ResolveFrom(r).to
<1>1. r.by = i
  BY DEF RequestsBy
<1>2. \/ owner = 0 /\ to = <<target, r.name>>
      \/ owner # 0 /\ r.name \in NamesOf(items) /\ to = <<target, r.name>>
         /\ IsVisible(FindItem(items, r.name), r.by, owner)
      \/ owner # 0 /\ r.name \notin NamesOf(items) /\ to = <<target, r.name>>
      \/ owner # 0 /\ HasVariant(items, r.name)
         /\ to = <<target, EnumOwning(items, r.name).name>>
         /\ IsVisible(EnumOwning(items, r.name), r.by, owner)
  BY FromBinds
<1> HIDE DEF target
<1>3. owner # 0 => items \in Seq(Declarations)
  <2>1. owner # 0 => owner \in Ids
    BY FoundIs
  <2> QED
    BY <2>1, NamesAre
<1>4. CASE owner = 0 /\ to = <<target, r.name>>
  BY <1>4 DEF SeenFrom
<1>5. CASE /\ owner # 0 /\ r.name \in NamesOf(items) /\ to = <<target, r.name>>
           /\ IsVisible(FindItem(items, r.name), r.by, owner)
  <2> DEFINE d == FindItem(items, r.name)
  <2>1. d \in ToSet(items) /\ IsItem(d) /\ d.name = r.name
    <3> HIDE DEF items
    <3> QED
      BY <1>3, <1>5, FindItemIs
  <2>2. IsVisible(d, i, owner)
    BY <1>1, <1>5
  <2> HIDE DEF d
  <2>3. SeenFrom(i, <<target, d.name>>)
    BY <1>5, <2>1, <2>2, VisibleSeen
  <2> QED
    BY <1>5, <2>1, <2>3
<1>6. CASE owner # 0 /\ r.name \notin NamesOf(items) /\ to = <<target, r.name>>
  BY <1>6 DEF SeenFrom
<1>7. CASE /\ owner # 0 /\ HasVariant(items, r.name)
           /\ to = <<target, EnumOwning(items, r.name).name>>
           /\ IsVisible(EnumOwning(items, r.name), r.by, owner)
  <2> DEFINE d == EnumOwning(items, r.name)
  <2>1. d \in ToSet(items) /\ IsItem(d)
    <3> HIDE DEF items
    <3> QED
      BY <1>3, <1>7, EnumOwningIs
  <2>2. IsVisible(d, i, owner) /\ to = <<target, d.name>>
    BY <1>1, <1>7
  <2> HIDE DEF d
  <2> QED
    BY <1>7, <2>1, <2>2, VisibleSeen
<1> QED
  BY <1>2, <1>4, <1>5, <1>6, <1>7

LEMMA ResolutionSeen ==
  ASSUME Typed, NEW i \in Ids, NEW r \in RequestsBy(i), Resolution(r).code = "bind"
  PROVE  SeenFrom(i, Resolution(r).to)
BY WholeSeen, FromSeen DEF Resolution

\* The requests of a module are its own.
LEMMA RequestsAre ==
  ASSUME Typed, NEW i \in Ids
  PROVE  /\ RequestsOf(i) \in Seq(RequestRecords)
         /\ ToSet(RequestsOf(i)) \subseteq RequestsBy(i)
<1> DEFINE X == RequestsBy(i)
           items == modules[i].items
           uses == Uses(items)
           whole(use) == <<[by |-> i, path |-> use.path, whole |-> TRUE,
                            name |-> Last(use.path), alias |-> ""]>>
           group(use) == [k \in DOMAIN use.group |->
                            [by |-> i, path |-> use.path, whole |-> FALSE,
                             name |-> use.group[k].name, alias |-> use.group[k].alias]]
           seqs == [u \in DOMAIN uses |-> IF uses[u].group = <<>> THEN whole(uses[u]) ELSE group(uses[u])]
<1>1. RequestsOf(i) = FlattenSeq(seqs)
  BY DEF RequestsOf
<1>2. items \in Seq(Declarations)
  BY NamesAre
<1>3. uses \in Seq(Declarations) /\ ToSet(uses) = {d \in ToSet(items) : d.kind = "use"}
  <2> HIDE DEF items
  <2> QED
    BY <1>2, UsesAre
<1>4. ASSUME NEW u \in DOMAIN uses PROVE seqs[u] \in Seq(X)
  <2> DEFINE use == uses[u]
  <2>1. use \in Declarations /\ use.kind = "use"
    <3>1. use \in ToSet(uses)
      BY DEF ToSet
    <3> HIDE DEF uses, items
    <3>2. use \in Declarations
      BY <1>3
    <3> HIDE DEF use
    <3> QED
      BY <1>3, <3>1, <3>2
  <2>2. seqs[u] = IF use.group = <<>> THEN whole(use) ELSE group(use)
    OBVIOUS
  <2> HIDE DEF use, uses
  <2> DEFINE path == use.path
             g == use.group
             n == Len(g)
             G == [name : Words, alias : Words \cup {""}]
  <2>3. path \in Paths /\ g \in Seq(G)
    BY <2>1, ProjectsAssumption DEF IsDeclaration, Paths
  <2>4. whole(use) \in Seq(X)
    <3> DEFINE r == [by |-> i, path |-> path, whole |-> TRUE, name |-> Last(path), alias |-> ""]
    <3>1. whole(use) = <<r>>
      OBVIOUS
    <3> HIDE DEF path
    <3>2. Last(path) \in Words
      <4>1. path \in Seq(Words) /\ path # <<>>
        BY <2>3 DEF Paths
      <4>2. Len(path) \in 1 .. Len(path)
        BY <4>1
      <4> QED
        BY <4>1, <4>2 DEF Last
    <3>3. r \in X
      BY <2>3, <3>2 DEF RequestsBy, RequestRecords
    <3>4. whole(use) \in Seq(X)
      <4> HIDE DEF r, X, whole
      <4> QED
        BY <3>1, <3>3
    <3> QED
      BY <3>4
  <2>5. group(use) \in Seq(X)
    <3> DEFINE t == [k \in DOMAIN g |-> [by |-> i, path |-> path, whole |-> FALSE,
                                        name |-> g[k].name, alias |-> g[k].alias]]
    <3>1. group(use) = t
      OBVIOUS
    <3> HIDE DEF path, g, G, group
    <3>2. n \in Nat /\ DOMAIN g = 1 .. n
      BY <2>3
    <3>3. ASSUME NEW k \in DOMAIN g PROVE t[k] \in X
      <4>1. g[k] \in G
        BY <2>3
      <4>2. g[k].name \in Words /\ g[k].alias \in Words \cup {""}
        BY <4>1 DEF G
      <4> QED
        BY <2>3, <4>2 DEF RequestsBy, RequestRecords
    <3>4. t \in [1 .. n -> X]
      <4>1. DOMAIN t = 1 .. n /\ t = [k \in DOMAIN t |-> t[k]]
        BY <3>2
      <4> HIDE DEF t, X, n
      <4> QED
        BY <3>2, <3>3, <4>1
    <3>5. t \in Seq(X)
      <4> HIDE DEF t, X, n
      <4> QED
        BY <3>2, <3>4
    <3> QED
      BY <3>1, <3>5
  <2> HIDE DEF X, whole, group, seqs
  <2> QED
    BY <2>2, <2>4, <2>5
<1>5. seqs \in Seq(Seq(X)) /\ DOMAIN seqs = DOMAIN uses
  <2>1. Len(uses) \in Nat /\ DOMAIN uses = 1 .. Len(uses)
    BY <1>3
  <2>2. seqs \in [DOMAIN uses -> Seq(X)]
    <3>1. seqs = [u \in DOMAIN uses |-> seqs[u]]
      OBVIOUS
    <3> HIDE DEF seqs, X, uses
    <3> QED
      BY <1>4, <3>1
  <2> HIDE DEF seqs, X, uses
  <2> QED
    BY <2>1, <2>2
<1> HIDE DEF seqs, X
<1>6. FlattenSeq(seqs) \in Seq(X)
  BY <1>5, FlattenIs
<1>7. X \subseteq RequestRecords
  BY DEF X, RequestsBy
<1>8. RequestsOf(i) \in Seq(X)
  BY <1>1, <1>6
<1> DEFINE s == RequestsOf(i)
<1> HIDE DEF s
<1>9. s \in Seq(RequestRecords) /\ ToSet(s) \subseteq X
  <2>1. s \in Seq(X)
    BY <1>8 DEF s
  <2> QED
    BY <1>7, <2>1 DEF ToSet
<1> QED
  BY <1>9 DEF s, X

-----------------------------------------------------------------------------
(* Steps of the names *)

\* What modules bind and ask for is settled when they are loaded.
LEMMA FoundKept ==
  ASSUME modules' = modules, NEW r, NEW i
  PROVE  /\ Resolution(r)' = Resolution(r) /\ RequestsOf(i)' = RequestsOf(i)
         /\ OwnBindings(i)' = OwnBindings(i)
<1>1. ResolveWhole(r)' = ResolveWhole(r)
  BY Zenon DEF ResolveWhole, FindModule, WithPath, Ids
<1>2. ResolveFrom(r)' = ResolveFrom(r)
  BY Zenon DEF ResolveFrom, FindModule, WithPath, Ids
<1>3. RequestsOf(i)' = RequestsOf(i)
  BY DEF RequestsOf
<1>4. OwnBindings(i)' = OwnBindings(i)
  BY DEF OwnBindings, Children
<1> QED
  BY <1>1, <1>2, <1>3, <1>4 DEF Resolution

LEMMA RequestsKept ==
  ASSUME modules' = modules
  PROVE  Requests' = Requests /\ RequestRecords' = RequestRecords
BY FoundKept DEF Requests, RequestRecords, Ids

LEMMA BoundKept ==
  ASSUME modules' = modules, bindings' = bindings, Bound(bindings)
  PROVE  Bound(bindings)'
<1>1. ASSUME NEW i \in Ids, NEW n \in DOMAIN bindings[i] PROVE Justified(i, n, bindings[i][n])'
  <2>1. Justified(i, n, bindings[i][n])
    BY DEF Bound
  <2>2. RequestsOf(i)' = RequestsOf(i) /\ OwnBindings(i)' = OwnBindings(i)
    BY FoundKept
  <2>3. \A r : Resolution(r)' = Resolution(r)
    BY FoundKept
  <2> QED
    BY <2>1, <2>2, <2>3 DEF Justified
<1>2. Ids' = Ids /\ \A i \in Ids : OwnBindings(i)' = OwnBindings(i)
  BY FoundKept DEF Ids
<1> QED
  BY <1>1, <1>2 DEF Bound

LEMMA AskedKept ==
  ASSUME modules' = modules, bindings' = bindings, requests' = requests, errors \subseteq errors',
         Asked(requests, bindings)
  PROVE  Asked(requests, bindings)'
BY FoundKept, RequestsKept DEF Asked, Answered

LEMMA NamesStay ==
  ASSUME NamesInv, modules' = modules, UNCHANGED names, errors' = errors, phase' = phase
  PROVE  NamesInv'
<1>1. bindings' = bindings /\ requests' = requests
  BY DEF names
<1>2. RequestRecords' = RequestRecords
  BY RequestsKept
<1> QED
  BY <1>1, <1>2, BoundKept, AskedKept DEF NamesInv

\* A request belongs to its module.
LEMMA RequestsOwned ==
  ASSUME Typed, NEW r \in Requests
  PROVE  r.by \in Ids /\ r \in ToSet(RequestsOf(r.by)) /\ r \in RequestsBy(r.by)
<1>1. PICK i \in Ids : r \in ToSet(RequestsOf(i))
  BY DEF Requests
<1>2. r \in RequestsBy(i)
  BY <1>1, RequestsAre
<1>3. r.by = i
  BY <1>2 DEF RequestsBy
<1> QED
  BY <1>1, <1>2, <1>3

LEMMA EndSearchNames ==
  ASSUME Typed, NamesInv, EndSearch
  PROVE  NamesInv'
<1>1. phase = "cycles" /\ modules' = modules /\ errors' = errors /\ bindings = <<>> /\ requests = <<>>
  BY DEF EndSearch, tree, NamesInv
<1>2. CASE errors # {}
  <2>1. phase' = "done" /\ bindings' = <<>> /\ errors' # {}
    BY <1>1, <1>2 DEF EndSearch, names
  <2> QED
    BY <2>1 DEF NamesInv
<1>3. CASE errors = {}
  <2> DEFINE seqs == [i \in Ids |-> RequestsOf(i)]
             left == FlattenSeq(seqs)
             bound == [i \in Ids |-> OwnBindings(i)]
  <2>1. phase' = "names" /\ bindings' = bound /\ requests' = left
    BY <1>3 DEF EndSearch
  <2>2. seqs \in Seq(Seq(RequestRecords)) /\ DOMAIN seqs = Ids
    <3>1. \A i \in Ids : RequestsOf(i) \in Seq(RequestRecords)
      BY RequestsAre
    <3>2. Ids = 1 .. Len(modules) /\ Len(modules) \in Nat
      BY DEF Ids, Typed
    <3> HIDE DEF Ids
    <3>3. seqs \in [1 .. Len(modules) -> Seq(RequestRecords)]
      BY <3>1, <3>2
    <3> HIDE DEF seqs
    <3>4. seqs \in Seq(Seq(RequestRecords))
      BY <3>2, <3>3
    <3>5. DOMAIN seqs = Ids
      BY DEF seqs
    <3> QED
      BY <3>4, <3>5
  <2>3. /\ left \in Seq(RequestRecords)
        /\ \A x : x \in ToSet(left) <=> \E k \in DOMAIN seqs : x \in ToSet(seqs[k])
    <3> HIDE DEF seqs
    <3> QED
      BY <2>2, FlattenIs
  <2>4. ToSet(left) = Requests
    <3>1. \A k \in Ids : seqs[k] = RequestsOf(k)
      OBVIOUS
    <3> HIDE DEF seqs, left
    <3>2. \A x : x \in ToSet(left) <=> x \in Requests
      BY <2>2, <2>3, <3>1 DEF Requests
    <3> QED
      BY <3>2
  <2> HIDE DEF seqs, left
  <2>5. requests' \in Seq(RequestRecords') /\ Asked(requests, bindings)'
    <3>1. Requests' = Requests /\ RequestRecords' = RequestRecords
      BY <1>1, RequestsKept
    <3> QED
      BY <2>1, <2>3, <2>4, <3>1 DEF Asked
  <2>6. Bound(bindings)'
    <3>1. DOMAIN bindings' = Ids' /\ Ids' = Ids
      BY <1>1, <2>1 DEF Ids
    <3>2. \A i \in Ids : bindings'[i] = OwnBindings(i)'
      BY <1>1, <2>1, FoundKept
    <3> HIDE DEF bound
    <3> QED
      BY <3>1, <3>2 DEF Bound, Justified
  <2> QED
    BY <2>1, <2>5, <2>6 DEF NamesInv
<1> QED
  BY <1>2, <1>3

LEMMA FinishNames ==
  ASSUME NamesInv, Finish
  PROVE  NamesInv'
<1>1. /\ phase = "names" /\ phase' = "done" /\ requests = <<>> /\ modules' = modules
      /\ errors' = errors /\ bindings' = bindings /\ requests' = requests
  BY DEF Finish, tree, names
<1>2. Bound(bindings) /\ Asked(requests, bindings)
  BY <1>1 DEF NamesInv
<1>3. Bound(bindings)' /\ Asked(requests, bindings)'
  BY <1>1, <1>2, BoundKept, AskedKept
<1> QED
  BY <1>1, <1>3 DEF NamesInv

\* An import that is made binds its name, and rebinds none.
LEMMA ImportNames ==
  ASSUME Typed, NamesInv, Import
  PROVE  NamesInv'
<1> DEFINE r == Head(requests)
           answer == Resolution(r)
           i == r.by
<1>1. /\ phase = "names" /\ phase' = "names" /\ requests # <<>> /\ modules' = modules
      /\ requests' = Tail(requests)
  BY DEF Import, tree
<1>2. requests \in Seq(RequestRecords) /\ Bound(bindings) /\ Asked(requests, bindings)
  BY <1>1 DEF NamesInv
<1>3. /\ requests' \in Seq(RequestRecords) /\ ToSet(requests) = {r} \cup ToSet(requests')
  <2> HIDE DEF RequestRecords
  <2> QED
    BY <1>1, <1>2, Rests
<1>4. r \in Requests /\ ToSet(requests') \subseteq Requests
  BY <1>2, <1>3 DEF Asked
<1>5. i \in Ids /\ r \in ToSet(RequestsOf(i))
  BY <1>4, RequestsOwned
<1>6. \/ /\ answer.code = "bind" /\ ~ Taken(i, answer) /\ errors' = errors
         /\ bindings' = [bindings EXCEPT ![i] =
              [n \in DOMAIN @ \cup {answer.name} |-> IF n = answer.name THEN answer.to ELSE @[n]]]
      \/ errors' # {} /\ bindings' = bindings /\ errors \subseteq errors'
  BY DEF Import
<1> HIDE DEF r, i, answer
<1>7. Requests' = Requests /\ RequestRecords' = RequestRecords /\ Ids' = Ids
  BY <1>1, RequestsKept DEF Ids
<1>8. CASE errors' # {} /\ bindings' = bindings /\ errors \subseteq errors'
  <2>1. Bound(bindings)'
    BY <1>1, <1>2, <1>8, BoundKept
  <2>2. Asked(requests, bindings)'
    BY <1>4, <1>7, <1>8 DEF Asked
  <2> QED
    BY <1>1, <1>3, <1>7, <2>1, <2>2 DEF NamesInv
<1>9. CASE /\ answer.code = "bind" /\ ~ Taken(i, answer) /\ errors' = errors
           /\ bindings' = [bindings EXCEPT ![i] =
                [n \in DOMAIN @ \cup {answer.name} |-> IF n = answer.name THEN answer.to ELSE @[n]]]
  <2> DEFINE new == [n \in DOMAIN bindings[i] \cup {answer.name} |->
                       IF n = answer.name THEN answer.to ELSE bindings[i][n]]
  <2>1. /\ DOMAIN bindings = Ids /\ DOMAIN bindings' = Ids
        /\ \A j \in Ids : bindings'[j] = IF j = i THEN new ELSE bindings[j]
    BY <1>2, <1>5, <1>9 DEF Bound
  <2>2. DOMAIN new = DOMAIN bindings[i] \cup {answer.name} /\ new[answer.name] = answer.to
        /\ \A n \in DOMAIN bindings[i] : new[n] = bindings[i][n]
    <3>1. answer.name \in DOMAIN bindings[i] => bindings[i][answer.name] = answer.to
      BY <1>9 DEF Taken
    <3> QED
      BY <3>1
  <2> HIDE DEF new
  <2>3. ASSUME NEW j \in Ids
        PROVE  /\ DOMAIN bindings[j] \subseteq DOMAIN bindings'[j]
               /\ \A n \in DOMAIN bindings[j] : bindings'[j][n] = bindings[j][n]
               /\ \A n \in DOMAIN bindings'[j] :
                    \/ n \in DOMAIN bindings[j]
                    \/ j = i /\ n = answer.name /\ bindings'[j][n] = answer.to
    BY <2>1, <2>2
  <2>4. ASSUME NEW j \in Ids, NEW n \in DOMAIN bindings'[j]
        PROVE  Justified(j, n, bindings'[j][n])
    <3>1. CASE n \in DOMAIN bindings[j]
      BY <1>2, <2>3, <3>1 DEF Bound
    <3>2. CASE j = i /\ n = answer.name /\ bindings'[j][n] = answer.to
      BY <1>5, <1>9, <3>2 DEF Justified, answer
    <3> QED
      BY <2>3, <3>1, <3>2
  <2>5. \A j \in Ids : \A n \in DOMAIN OwnBindings(j) :
          n \in DOMAIN bindings'[j] /\ bindings'[j][n] = OwnBindings(j)[n]
    BY <1>2, <2>3 DEF Bound
  <2>6. Bound(bindings)'
    <3>1. \A j \in Ids : OwnBindings(j)' = OwnBindings(j)
      BY <1>1, FoundKept
    <3>2. ASSUME NEW j \in Ids, NEW n \in DOMAIN bindings'[j] PROVE Justified(j, n, bindings[j][n])'
      <4>1. Justified(j, n, bindings'[j][n])
        BY <2>4
      <4>2. RequestsOf(j)' = RequestsOf(j) /\ OwnBindings(j)' = OwnBindings(j)
        BY <1>1, FoundKept
      <4>3. \A q : Resolution(q)' = Resolution(q)
        BY <1>1, FoundKept
      <4> QED
        BY <4>1, <4>2, <4>3 DEF Justified
    <3> QED
      BY <1>7, <2>1, <2>5, <3>1, <3>2 DEF Bound
  <2>7. ASSUME errors' = {}, NEW q \in Requests \ ToSet(requests')
        PROVE  Answered(q, bindings')
    <3>1. CASE q = r
      <4>1. q.by = i /\ Resolution(q) = answer
        BY <3>1 DEF i, answer
      <4>2. bindings'[i] = new
        BY <1>5, <2>1
      <4> QED
        BY <1>9, <2>2, <4>1, <4>2 DEF Answered
    <3>2. CASE q # r
      <4>1. q \in Requests \ ToSet(requests)
        BY <1>3, <3>2
      <4>2. Answered(q, bindings)
        BY <1>2, <1>9, <2>7, <4>1 DEF Asked
      <4>3. q.by \in Ids
        BY RequestsOwned
      <4> QED
        BY <2>3, <4>2, <4>3 DEF Answered
    <3> QED
      BY <3>1, <3>2
  <2>8. Asked(requests, bindings)'
    <3>1. ASSUME errors' = {}, NEW q \in Requests \ ToSet(requests') PROVE Answered(q, bindings)'
      BY <1>1, <2>7, <3>1, FoundKept DEF Answered
    <3> QED
      BY <1>4, <1>7, <3>1 DEF Asked
  <2> QED
    BY <1>1, <1>3, <1>7, <2>6, <2>8 DEF NamesInv
<1> QED
  BY <1>6, <1>8, <1>9

LEMMA NamesSteps ==
  ASSUME Typed, NamesInv, [Next]_vars
  PROVE  NamesInv'
<1>1. CASE LoadRoot \/ Keep \/ OpenInline \/ NotFound \/ SkipLoading \/ Unloadable
           \/ OpenExternal \/ Close
  <2>1. phase = "load" /\ phase' = "load" /\ UNCHANGED names
    BY <1>1 DEF LoadRoot, Keep, OpenInline, NotFound, SkipLoading, Unloadable, OpenExternal,
                OpenFile, Close, Refuse, Working, Declaring
  <2> QED
    BY <2>1 DEF NamesInv, names
<1>2. CASE StartCycles
  <2>1. phase = "load" /\ phase' = "cycles" /\ UNCHANGED names
    BY <1>2 DEF StartCycles
  <2> QED
    BY <2>1 DEF NamesInv, names
<1>3. CASE StartSearch \/ Descend \/ BackEdge \/ Explored \/ Leave
  <2>1. phase = "cycles" /\ phase' = "cycles" /\ UNCHANGED names
    BY <1>3 DEF StartSearch, Descend, BackEdge, Explored, Leave, Searching
  <2> QED
    BY <2>1 DEF NamesInv, names
<1>4. CASE UNCHANGED vars
  <2>1. modules' = modules /\ UNCHANGED names /\ errors' = errors /\ phase' = phase
    BY <1>4 DEF vars, tree, names
  <2> QED
    BY <2>1, NamesStay
<1> QED
  BY <1>1, <1>2, <1>3, <1>4, EndSearchNames, ImportNames, FinishNames DEF Next

\* The bindings keep their invariant (resolver.rs: resolve_names).
THEOREM NamesSafe == Spec => []NamesInv
<1>1. Init => NamesInv
  BY DEF Init, NamesInv
<1>2. LoaderInv /\ NamesInv /\ [Next]_vars => NamesInv'
  BY NamesSteps DEF LoaderInv
<1> QED
  BY <1>1, <1>2, LoaderSafe, PTL DEF Spec

\* An item of another module is bound only if one of that name may be seen
\* there, whatever the modules declare and import (resolver.rs:
\* resolve_whole_import, resolve_from_import).
THEOREM PrivateStays == Spec => []PrivateStaysHome
<1>1. Typed /\ NamesInv => PrivateStaysHome
  <2> SUFFICES ASSUME Typed, NamesInv, NEW i \in DOMAIN bindings, NEW name \in DOMAIN bindings[i]
               PROVE  SeenFrom(i, bindings[i][name])
    BY DEF PrivateStaysHome, SeenFrom
  <2>1. Bound(bindings) /\ i \in Ids
    <3>1. bindings # <<>>
      OBVIOUS
    <3>2. phase \in {"load", "cycles", "names", "done"}
      BY DEF Typed
    <3>3. Bound(bindings)
      BY <3>1, <3>2 DEF NamesInv
    <3> QED
      BY <3>3 DEF Bound
  <2> DEFINE to == bindings[i][name]
  <2>2. Justified(i, name, to)
    BY <2>1 DEF Bound
  <2> HIDE DEF to
  <2>3. CASE name \in DOMAIN OwnBindings(i) /\ to = OwnBindings(i)[name]
    <3>1. to = <<modules[i].path, name>>
      BY <2>3 DEF OwnBindings
    <3> QED
      BY <3>1 DEF SeenFrom, to
  <2>4. CASE \E r \in ToSet(RequestsOf(i)) : Resolution(r).code = "bind" /\ to = Resolution(r).to
    <3>1. PICK r \in ToSet(RequestsOf(i)) : Resolution(r).code = "bind" /\ to = Resolution(r).to
      BY <2>4
    <3>2. r \in RequestsBy(i)
      BY <2>1, RequestsAre
    <3> QED
      BY <2>1, <3>1, <3>2, ResolutionSeen DEF to
  <2> QED
    BY <2>2, <2>3, <2>4 DEF Justified
<1> QED
  BY <1>1, LoaderSafe, NamesSafe, PTL DEF LoaderInv

\* The bindings of a program that loads do not depend on the order of its
\* imports: each name of a module means its own item or child, and each import
\* what it resolves to (resolver.rs: bind_import, resolve_names).
THEOREM BindingsExact == Spec => []BindingsDeclared
<1>1. Typed /\ NamesInv => BindingsDeclared
  <2> SUFFICES ASSUME Typed, NamesInv, Ended, NEW i \in Ids
               PROVE  LET asked == {Resolution(r) : r \in ToSet(RequestsOf(i))}
                      IN  /\ DOMAIN bindings[i] = DOMAIN OwnBindings(i) \cup {a.name : a \in asked}
                          /\ \A n \in DOMAIN OwnBindings(i) : bindings[i][n] = OwnBindings(i)[n]
                          /\ \A a \in asked : a.code = "bind" /\ bindings[i][a.name] = a.to
    BY DEF BindingsDeclared
  <2>1. errors = {} /\ requests = <<>> /\ Bound(bindings) /\ Asked(requests, bindings)
    BY DEF NamesInv, Ended
  <2>2. ToSet(requests) = {}
    <3>1. DOMAIN requests = {}
      BY <2>1
    <3> QED
      BY <3>1 DEF ToSet
  <2>3. ASSUME NEW r \in ToSet(RequestsOf(i))
        PROVE  /\ Resolution(r).code = "bind" /\ Resolution(r).name \in DOMAIN bindings[i]
               /\ bindings[i][Resolution(r).name] = Resolution(r).to
    <3>1. r \in Requests
      BY DEF Requests
    <3>2. r.by = i
      BY RequestsAre DEF RequestsBy
    <3>3. Answered(r, bindings)
      BY <2>1, <2>2, <3>1 DEF Asked
    <3> QED
      BY <3>2, <3>3 DEF Answered
  <2>4. \A n \in DOMAIN OwnBindings(i) : n \in DOMAIN bindings[i] /\ bindings[i][n] = OwnBindings(i)[n]
    BY <2>1 DEF Bound
  <2>5. \A n \in DOMAIN bindings[i] :
          n \in DOMAIN OwnBindings(i) \/ \E r \in ToSet(RequestsOf(i)) : n = Resolution(r).name
    BY <2>1 DEF Bound, Justified
  <2> QED
    BY <2>3, <2>4, <2>5
<1> QED
  BY <1>1, LoaderSafe, NamesSafe, PTL DEF LoaderInv

-----------------------------------------------------------------------------
(* Types *)

Coded == \A e \in errors : e.code \in Codes

LEMMA CodedSteps ==
  ASSUME Coded, [Next]_vars
  PROVE  Coded'
<1>1. ASSUME NEW code \in Codes, NEW at, errors' = errors \cup {Error(code, at)} PROVE Coded'
  BY <1>1 DEF Coded, Error
<1>2. CASE LoadRoot
  <2> DEFINE at == Head(tops).path
  <2>1. errors' = errors \/ errors' = errors \cup {Error("E2105", at)}
    BY <1>2 DEF LoadRoot
  <2> HIDE DEF at
  <2>2. "E2105" \in Codes
    BY DEF Codes
  <2> QED
    BY <1>1, <2>1, <2>2 DEF Coded
<1>3. CASE NotFound \/ Unloadable
  <2> DEFINE at == ChildPath
  <2>1. \E code \in {"E2101", "E2105", "E2106"} : Refuse(code)
    BY <1>3 DEF NotFound, Unloadable
  <2>2. \E code \in {"E2101", "E2105", "E2106"} : errors' = errors \cup {Error(code, at)}
    BY <2>1 DEF Refuse
  <2> HIDE DEF at
  <2>3. {"E2101", "E2105", "E2106"} \subseteq Codes
    BY DEF Codes
  <2> QED
    BY <1>1, <2>2, <2>3
<1>4. CASE BackEdge
  <2> DEFINE at == Trace(Ahead)
  <2>1. errors' = errors \cup {Error("E2100", at)}
    BY <1>4 DEF BackEdge
  <2> HIDE DEF at
  <2>2. "E2100" \in Codes
    BY DEF Codes
  <2> QED
    BY <1>1, <2>1, <2>2
<1>5. CASE Import
  <2> DEFINE r == Head(requests)
             answer == Resolution(r)
             here == <<r.by, answer.name>>
             there == <<r.by>> \o r.path
             code == answer.code
  <2>1. \/ errors' = errors
        \/ errors' = errors \cup {Error("E2108", here)}
        \/ code # "bind" /\ errors' = errors \cup {Error(code, there)}
    BY <1>5 DEF Import
  <2>2. code \in Answers
    BY ResolutionAnswers
  <2> HIDE DEF here, there, code
  <2>3. "E2108" \in Codes /\ (code # "bind" => code \in Codes)
    BY <2>2 DEF Codes, Answers
  <2> QED
    BY <1>1, <2>1, <2>3 DEF Coded
<1>6. CASE \/ Keep \/ OpenInline \/ SkipLoading \/ OpenExternal \/ Close \/ StartCycles
           \/ StartSearch \/ Descend \/ Explored \/ Leave \/ EndSearch \/ Finish
           \/ UNCHANGED vars
  <2>1. errors' = errors
    BY <1>6 DEF Keep, OpenInline, SkipLoading, OpenExternal, OpenFile, Close, StartCycles,
                StartSearch, Descend, Explored, Leave, EndSearch, Finish, vars
  <2> QED
    BY <2>1 DEF Coded
<1> QED
  BY <1>2, <1>3, <1>4, <1>5, <1>6 DEF Next

THEOREM CodesAre == Spec => []Coded
<1>1. Init => Coded
  BY DEF Init, Coded, Codes, Error
<1>2. Coded /\ [Next]_vars => Coded'
  BY CodedSteps
<1> QED
  BY <1>1, <1>2, PTL DEF Spec

\* Modules, frames and bindings refer to modules that exist, a child is
\* declared under its parent's path, and no file is loaded inside itself,
\* however the files lead back to each other (ResolvedProgram, LoaderState).
THEOREM TypeCorrect == Spec => []TypeOK
<1>1. LoaderInv /\ SearchInv /\ NamesInv /\ Coded => TypeOK
  <2> SUFFICES ASSUME LoaderInv, SearchInv, NamesInv, Coded PROVE TypeOK
    OBVIOUS
  <2> DEFINE none == <<>>
  <2>1. phase \in {"load", "cycles", "names", "done"} /\ loading \subseteq Files /\ FilesNestOnce
    BY DEF LoaderInv, Typed, Nested
  <2>2. \A i \in Ids :
          /\ modules[i].parent \in 0 .. (i - 1)
          /\ modules[i].parent # 0 => Front(modules[i].path) = modules[modules[i].parent].path
          /\ ToSet(modules[i].children) \subseteq {c \in Ids : modules[c].parent = i}
    BY DEF LoaderInv, Tree, Placed, ChildrenOf, Ids
  <2>3. \A f \in ToSet(frames) : f.id \in Ids
    BY DEF LoaderInv, Stack, Framed, ToSet, Ids
  <2>4. DOMAIN none = {}
    OBVIOUS
  <2>5. color = none \/ color \in [Ids -> Colors]
    BY <2>1 DEF SearchInv
  <2>6. DOMAIN color \in {{}, Ids} /\ \A i \in DOMAIN color : color[i] \in {"white", "gray", "black"}
    <3> HIDE DEF none
    <3> QED
      BY <2>4, <2>5 DEF Colors
  <2>7. bindings = none \/ DOMAIN bindings = Ids
    BY <2>1 DEF NamesInv, Bound
  <2>8. DOMAIN bindings \in {{}, Ids}
    <3> HIDE DEF none
    <3> QED
      BY <2>4, <2>7
  <2> QED
    BY <2>1, <2>2, <2>3, <2>6, <2>8 DEF TypeOK, Coded
<1> QED
  BY <1>1, LoaderSafe, SearchSafe, NamesSafe, CodesAre, PTL

=============================================================================
