----------------------------- MODULE DataLemmas -----------------------------
(***************************************************************************)
(* Facts about numbers and sequences that the proofs of several components *)
(* need: least elements, functions defined by recursion over 0 .. N, and   *)
(* the elements of sequences.                                              *)
(***************************************************************************)
EXTENDS Integers, Sequences, SequencesExt, WellFoundedInduction, TLAPS

\* A set of natural numbers that is not empty has a least element.  Induction over
\* lengths and indices below is the choice of a least counterexample.
LEMMA LeastNumber ==
  ASSUME NEW T \in SUBSET Nat, T # {}
  PROVE  \E x \in T : \A y \in T : x <= y
<1> DEFINE R == OpToRel(<, Nat)
<1>1. IsWellFoundedOn(R, Nat)
  BY NatLessThanWellFounded
<1>2. \A x, y \in Nat : y < x => <<y, x>> \in R
  BY DEF OpToRel
<1> HIDE DEF R
<1>3. \E x \in T : \A y \in T : ~(<<y, x>> \in R)
  BY <1>1, WFMin
<1>4. \E x \in T : \A y \in T : ~(y < x)
  BY <1>2, <1>3
<1> QED
  BY <1>4

\* The same, for all sets at once.
LEMMA LeastNumbers == \A T \in SUBSET Nat : T # {} => \E x \in T : \A y \in T : x <= y
BY LeastNumber

\* op[k] is the k-th step of a recursion over S.
AreSteps(op, N, S) == op \in [1 .. N -> [S -> S]]

\* f is the function with the first value base and the steps op.
Iterates(f, base, op, N, S) ==
  f \in [0 .. N -> S] /\ f[0] = base /\ \A k \in 1 .. N : f[k] = op[k][f[k - 1]]

\* Recursion over 0 .. N: a function with a given first value and given steps exists.
LEMMA Iteration ==
  ASSUME NEW N \in Nat, NEW S, NEW base \in S, NEW op, AreSteps(op, N, S)
  PROVE  \E f : Iterates(f, base, op, N, S)
<1> USE DEF AreSteps, Iterates
<1> DEFINE Upto(n, f) == f \in [0 .. n -> S] /\ f[0] = base /\ \A k \in 1 .. n : f[k] = op[k][f[k - 1]]
           T == {n \in 0 .. N : ~\E f : Upto(n, f)}
<1>1. CASE T = {}
  BY <1>1
<1>2. ASSUME T # {} PROVE FALSE
  <2>0. T \in SUBSET Nat
    OBVIOUS
  <2>1. PICK n \in T : \A m \in T : n <= m
    <3> HIDE DEF T
    <3> QED
      BY <1>2, <2>0, LeastNumber
  <2>2. CASE n = 0
    <3>1. Upto(0, [k \in 0 .. 0 |-> base])
      OBVIOUS
    <3> QED
      BY <2>1, <2>2, <3>1
  <2>3. CASE n # 0
    <3>1. n - 1 \in 0 .. N /\ n - 1 \notin T
      <4> HIDE DEF Upto
      <4> QED
        BY <2>1, <2>3
    <3>2. PICK f : Upto(n - 1, f)
      BY <3>1
    <3> DEFINE g == [k \in 0 .. n |-> IF k = n THEN op[n][f[n - 1]] ELSE f[k]]
    <3>3. g \in [0 .. n -> S]
      BY <3>2, <3>1, <2>3
    <3>4. g[0] = base
      BY <3>2, <2>3
    <3>5. \A k \in 1 .. n : g[k] = op[k][g[k - 1]]
      <4> TAKE k \in 1 .. n
      <4>1. CASE k = n
        BY <4>1, <2>3
      <4>2. CASE k # n
        <5>1. k \in 1 .. n - 1 /\ k - 1 \in 0 .. n /\ k - 1 # n
          BY <4>2
        <5>2. f[k] = op[k][f[k - 1]]
          BY <3>2, <5>1
        <5> QED
          BY <5>1, <5>2
      <4> QED
        BY <4>1, <4>2
    <3>6. Upto(n, g)
      BY <3>3, <3>4, <3>5
    <3> QED
      BY <2>1, <3>6
  <2> QED
    BY <2>2, <2>3
<1> QED
  BY <1>1, <1>2

\* The elements of two sequences one after the other.
LEMMA ToSetConcat ==
  ASSUME NEW S, NEW s \in Seq(S), NEW t \in Seq(S)
  PROVE  /\ s \o t \in Seq(S)
         /\ ToSet(s \o t) = ToSet(s) \cup ToSet(t)
<1>1. /\ s \o t \in Seq(S) /\ Len(s \o t) = Len(s) + Len(t)
      /\ \A i \in 1 .. Len(s) : (s \o t)[i] = s[i]
      /\ \A i \in 1 .. Len(t) : (s \o t)[Len(s) + i] = t[i]
  OBVIOUS
<1>2. DOMAIN s = 1 .. Len(s) /\ DOMAIN t = 1 .. Len(t) /\ DOMAIN (s \o t) = 1 .. Len(s) + Len(t)
  BY <1>1
<1>3. ASSUME NEW x \in ToSet(s \o t) PROVE x \in ToSet(s) \cup ToSet(t)
  <2>1. PICK i \in 1 .. Len(s) + Len(t) : x = (s \o t)[i]
    BY <1>2, <1>3 DEF ToSet
  <2>2. CASE i <= Len(s)
    BY <1>1, <1>2, <2>1, <2>2 DEF ToSet
  <2>3. CASE i > Len(s)
    <3>1. i - Len(s) \in 1 .. Len(t) /\ (s \o t)[Len(s) + (i - Len(s))] = t[i - Len(s)]
      BY <1>1, <2>3
    <3> QED
      BY <1>2, <2>1, <3>1 DEF ToSet
  <2> QED
    BY <2>2, <2>3
<1>4. ToSet(s) \subseteq ToSet(s \o t)
  BY <1>1, <1>2 DEF ToSet
<1>5. ASSUME NEW x \in ToSet(t) PROVE x \in ToSet(s \o t)
  <2>1. PICK i \in 1 .. Len(t) : x = t[i]
    BY <1>2 DEF ToSet
  <2>2. Len(s) + i \in 1 .. Len(s) + Len(t)
    OBVIOUS
  <2> QED
    BY <1>1, <1>2, <2>1, <2>2 DEF ToSet
<1> QED
  BY <1>1, <1>3, <1>4, <1>5

\* The elements of a sequence with one more.
LEMMA ToSetAppend ==
  ASSUME NEW S, NEW s \in Seq(S), NEW e \in S
  PROVE  Append(s, e) \in Seq(S) /\ ToSet(Append(s, e)) = ToSet(s) \cup {e}
<1>1. Append(s, e) = s \o <<e>>
  OBVIOUS
<1>2. <<e>> \in Seq(S) /\ ToSet(<<e>>) = {e}
  BY DEF ToSet
<1>3. s \o <<e>> \in Seq(S) /\ ToSet(s \o <<e>>) = ToSet(s) \cup ToSet(<<e>>)
  BY <1>2, ToSetConcat
<1> QED
  BY <1>1, <1>2, <1>3, Zenon

\* The elements of s \o t, by position.
LEMMA ConcatElements ==
  ASSUME NEW S, NEW s \in Seq(S), NEW t \in Seq(S), NEW k \in 1 .. Len(s \o t)
  PROVE  \/ k \in 1 .. Len(s) /\ (s \o t)[k] = s[k]
         \/ k - Len(s) \in 1 .. Len(t) /\ (s \o t)[k] = t[k - Len(s)]
  OBVIOUS

\* Sequences with different elements, all of them different from each other's.
LEMMA ConcatInjective ==
  ASSUME NEW S, NEW s \in Seq(S), NEW t \in Seq(S), IsInjective(s), IsInjective(t), ToSet(s) \cap ToSet(t) = {}
  PROVE  IsInjective(s \o t)
<1>1. DOMAIN s = 1 .. Len(s) /\ DOMAIN t = 1 .. Len(t) /\ DOMAIN (s \o t) = 1 .. Len(s \o t)
  OBVIOUS
<1>2. \A i \in 1 .. Len(s) : s[i] \in ToSet(s)
  BY <1>1 DEF ToSet
<1>3. \A i \in 1 .. Len(t) : t[i] \in ToSet(t)
  BY <1>1 DEF ToSet
<1>4. ASSUME NEW a \in 1 .. Len(s \o t), NEW b \in 1 .. Len(s \o t), (s \o t)[a] = (s \o t)[b]
      PROVE  a = b
  <2>1. CASE a \in 1 .. Len(s) /\ (s \o t)[a] = s[a] /\ b \in 1 .. Len(s) /\ (s \o t)[b] = s[b]
    BY <1>1, <1>4, <2>1 DEF IsInjective
  <2>2. CASE a \in 1 .. Len(s) /\ (s \o t)[a] = s[a] /\ b - Len(s) \in 1 .. Len(t) /\ (s \o t)[b] = t[b - Len(s)]
    BY <1>2, <1>3, <1>4, <2>2
  <2>3. CASE a - Len(s) \in 1 .. Len(t) /\ (s \o t)[a] = t[a - Len(s)] /\ b \in 1 .. Len(s) /\ (s \o t)[b] = s[b]
    BY <1>2, <1>3, <1>4, <2>3
  <2>4. CASE a - Len(s) \in 1 .. Len(t) /\ (s \o t)[a] = t[a - Len(s)] /\ b - Len(s) \in 1 .. Len(t) /\ (s \o t)[b] = t[b - Len(s)]
    <3>1. a - Len(s) = b - Len(s)
      BY <1>1, <1>4, <2>4 DEF IsInjective
    <3> QED
      BY <3>1
  <2> QED
    BY <2>1, <2>2, <2>3, <2>4, ConcatElements
<1> QED
  BY <1>1, <1>4 DEF IsInjective

\* The recursion behind FlattenSeq.
LEMMA FlattenDef ==
  ASSUME NEW S, NEW ss \in Seq(Seq(S)), Len(ss) # 0
  PROVE  \E f \in [1 .. Len(ss) -> Seq(S)] :
           /\ FlattenSeq(ss) = f[Len(ss)]
           /\ f[1] = ss[1]
           /\ \A i \in 2 .. Len(ss) : f[i] = f[i - 1] \o ss[i]
<1> DEFINE Q == Seq(S)
           M == Len(ss)
           Cat(s, t) == s \o t
           IsFlat(f) == f = [i \in 1 .. M |-> IF i = 1 THEN ss[i] ELSE Cat(f[i - 1], ss[i])]
           f == CHOOSE x : IsFlat(x)
<1>1. M \in Nat \ {0} /\ (\A i \in 1 .. M : ss[i] \in Q) /\ (\A s, t \in Q : Cat(s, t) \in Q)
  OBVIOUS
<1>2. FlattenSeq(ss) = f[M]
  BY DEF FlattenSeq
<1> HIDE DEF Q, M, Cat, f
<1>3. \E h \in [1 .. M -> Q] : IsFlat(h)
  <2> DEFINE N == M - 1
             op == [k \in 1 .. N |-> [s \in Q |-> Cat(s, ss[k + 1])]]
             first == ss[1]
  <2>1. N \in Nat /\ first \in Q /\ op \in [1 .. N -> [Q -> Q]]
    BY <1>1
  <2>2. \A k \in 1 .. N, s \in Q : op[k][s] = Cat(s, ss[k + 1])
    OBVIOUS
  <2> HIDE DEF op, first, N
  <2>3. PICK g \in [0 .. N -> Q] : g[0] = first /\ \A k \in 1 .. N : g[k] = op[k][g[k - 1]]
    <3>1. AreSteps(op, N, Q)
      BY <2>1 DEF AreSteps
    <3>2. \E g : Iterates(g, first, op, N, Q)
      BY <2>1, <3>1, Iteration
    <3> QED
      BY <3>2 DEF Iterates
  <2> DEFINE h == [i \in 1 .. M |-> g[i - 1]]
  <2>4. h \in [1 .. M -> Q]
    BY <1>1, <2>3 DEF N
  <2>5. \A i \in 1 .. M : h[i] = IF i = 1 THEN ss[i] ELSE Cat(h[i - 1], ss[i])
    <3> TAKE i \in 1 .. M
    <3>1. CASE i = 1
      BY <2>3, <3>1 DEF first
    <3>2. CASE i # 1
      <4>1. i - 1 \in 1 .. N /\ i - 1 \in 1 .. M /\ i - 1 - 1 \in 0 .. N /\ i - 1 + 1 = i
        BY <1>1, <3>2 DEF N
      <4>2. g[i - 1] = op[i - 1][g[i - 1 - 1]] /\ g[i - 1 - 1] \in Q
        BY <2>3, <4>1
      <4>3. g[i - 1] = Cat(g[i - 1 - 1], ss[i])
        BY <2>2, <4>1, <4>2
      <4> QED
        BY <3>2, <4>1, <4>3
    <3> QED
      BY <3>1, <3>2
  <2> HIDE DEF h
  <2>6. IsFlat(h)
    BY <2>4, <2>5
  <2> QED
    BY <2>4, <2>6
<1>4. PICK h \in [1 .. M -> Q] : IsFlat(h)
  BY <1>3
<1>5. IsFlat(f)
  <2> HIDE DEF IsFlat
  <2> QED
    BY <1>4 DEF f
<1>6. \A i \in 1 .. M : h[i] = IF i = 1 THEN ss[i] ELSE Cat(h[i - 1], ss[i])
  BY <1>4
<1>7. \A i \in 1 .. M : f[i] = IF i = 1 THEN ss[i] ELSE Cat(f[i - 1], ss[i])
  BY <1>5
<1>8. f[M] = h[M]
  <2> DEFINE T == {i \in 1 .. M : f[i] # h[i]}
  <2>1. ASSUME T # {} PROVE FALSE
    <3>1. T \in SUBSET Nat
      BY <1>1
    <3>2. PICK i \in T : \A j \in T : i <= j
      <4> HIDE DEF T
      <4> QED
        BY <2>1, <3>1, LeastNumber
    <3>3. i # 1
      BY <1>1, <1>6, <1>7
    <3>4. i \in 1 .. M /\ i - 1 \in 1 .. M /\ i - 1 \notin T
      BY <1>1, <3>2, <3>3
    <3>5. f[i - 1] = h[i - 1]
      BY <3>4
    <3> QED
      BY <1>6, <1>7, <3>3, <3>4, <3>5
  <2> QED
    BY <1>1, <2>1
<1>9. /\ h \in [1 .. M -> Q] /\ FlattenSeq(ss) = h[M] /\ h[1] = ss[1]
      /\ \A i \in 2 .. M : h[i] = Cat(h[i - 1], ss[i])
  BY <1>1, <1>2, <1>4, <1>6, <1>8
<1> QED
  BY <1>9 DEF M, Q, Cat

\* FlattenSeq lists the elements of the sequences; if these are all different, it lists
\* each of them once.
LEMMA FlattenProperties ==
  ASSUME NEW S, NEW ss \in Seq(Seq(S))
  PROVE  /\ FlattenSeq(ss) \in Seq(S)
         /\ \A x \in ToSet(FlattenSeq(ss)) : \E i \in DOMAIN ss : x \in ToSet(ss[i])
         /\ (/\ \A i \in DOMAIN ss : IsInjective(ss[i])
             /\ \A i, j \in DOMAIN ss : i # j => ToSet(ss[i]) \cap ToSet(ss[j]) = {})
            => IsInjective(FlattenSeq(ss))
<1>1. CASE Len(ss) = 0
  <2>1. FlattenSeq(ss) = ss /\ ss = << >>
    BY <1>1 DEF FlattenSeq
  <2> QED
    BY <2>1 DEF ToSet, IsInjective
<1>2. CASE Len(ss) # 0
  <2>1. PICK f \in [1 .. Len(ss) -> Seq(S)] :
           /\ FlattenSeq(ss) = f[Len(ss)]
           /\ f[1] = ss[1]
           /\ \A i \in 2 .. Len(ss) : f[i] = f[i - 1] \o ss[i]
    BY <1>2, FlattenDef
  <2> DEFINE Distinct == /\ \A i \in DOMAIN ss : IsInjective(ss[i])
                         /\ \A i, j \in DOMAIN ss : i # j => ToSet(ss[i]) \cap ToSet(ss[j]) = {}
             P(i) == /\ \A x \in ToSet(f[i]) : \E j \in 1 .. i : x \in ToSet(ss[j])
                     /\ Distinct => IsInjective(f[i])
             T == {i \in 1 .. Len(ss) : ~P(i)}
  <2>2. DOMAIN ss = 1 .. Len(ss) /\ \A i \in 1 .. Len(ss) : ss[i] \in Seq(S)
    OBVIOUS
  <2>3. ASSUME T # {} PROVE FALSE
    <3>1. T \in SUBSET Nat
      OBVIOUS
    <3>2. PICK i \in T : \A j \in T : i <= j
      <4> HIDE DEF T
      <4> QED
        BY <2>3, <3>1, LeastNumber
    <3>3. CASE i = 1
      <4>1. f[1] = ss[1] /\ 1 \in DOMAIN ss /\ 1 \in 1 .. 1
        BY <1>2, <2>1, <2>2
      <4>2. P(1)
        BY <4>1, Zenon
      <4> QED
        BY <3>2, <3>3, <4>2
    <3>4. CASE i # 1
      <4>1. i \in 2 .. Len(ss) /\ i - 1 \in 1 .. Len(ss) /\ i - 1 \notin T /\ i \in 1 .. Len(ss)
        <5> HIDE DEF P
        <5> QED
          BY <3>2, <3>4
      <4>2. P(i - 1)
        BY <4>1
      <4>3. f[i - 1] \in Seq(S) /\ ss[i] \in Seq(S) /\ f[i] = f[i - 1] \o ss[i]
        BY <2>1, <2>2, <4>1
      <4>4. ToSet(f[i]) = ToSet(f[i - 1]) \cup ToSet(ss[i])
        BY <4>3, ToSetConcat
      <4>5. \A x \in ToSet(f[i]) : \E j \in 1 .. i : x \in ToSet(ss[j])
        BY <4>1, <4>2, <4>4
      <4>6. ASSUME Distinct PROVE IsInjective(f[i])
        <5>1. ToSet(f[i - 1]) \cap ToSet(ss[i]) = {}
          <6>1. \A j \in 1 .. i - 1 : j \in DOMAIN ss /\ i \in DOMAIN ss /\ j # i
            BY <2>2, <4>1
          <6> QED
            BY <4>2, <4>6, <6>1
        <5>2. IsInjective(f[i - 1]) /\ IsInjective(ss[i])
          BY <2>2, <4>1, <4>2, <4>6
        <5> QED
          BY <4>3, <5>1, <5>2, ConcatInjective
      <4>7. P(i)
        BY <4>5, <4>6
      <4> QED
        BY <3>2, <4>7
    <3> QED
      BY <3>3, <3>4
  <2>4. P(Len(ss))
    <3>1. Len(ss) \in 1 .. Len(ss)
      BY <1>2
    <3> HIDE DEF P
    <3> QED
      BY <2>3, <3>1, Zenon
  <2>5. FlattenSeq(ss) \in Seq(S) /\ FlattenSeq(ss) = f[Len(ss)]
    BY <1>2, <2>1
  <2> QED
    BY <2>2, <2>4, <2>5, Zenon
<1> QED
  BY <1>1, <1>2
=============================================================================
