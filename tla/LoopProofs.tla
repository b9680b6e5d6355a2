----------------------------- MODULE LoopProofs -----------------------------
(***************************************************************************)
(* A loop of the code is modelled by a function on 0 .. N whose k-th value *)
(* is computed from the one before.  Such a function exists for every      *)
(* body of the loop: this is what lets a proof unfold the definition.      *)
(* Step(c, x, k) is the k-th iteration on the state x in the context c.    *)
(* The module is instantiated for every loop, so that it extends as little *)
(* as possible: induction comes as a hypothesis.                           *)
(***************************************************************************)
EXTENDS Integers

CONSTANT Step(_, _, _)

\* f is the run of the loop with N iterations from base.
IsRun(f, c, base, N) == f = [k \in 0 .. N |-> IF k = 0 THEN base ELSE Step(c, f[k - 1], k)]

\* Sets of natural numbers have least elements.
WellOrdered == \A T \in SUBSET Nat : T # {} => \E x \in T : \A y \in T : x <= y

\* A loop with N iterations has a run.
LEMMA RunExists ==
  ASSUME WellOrdered, NEW c, NEW base, NEW N \in Nat
  PROVE  \E f : IsRun(f, c, base, N)
<1> DEFINE T == {n \in Nat : ~\E f : IsRun(f, c, base, n)}
<1>1. ASSUME T # {} PROVE FALSE
  <2>1. PICK n \in T : \A m \in T : n <= m
    <3>1. T \in SUBSET Nat
      OBVIOUS
    <3> HIDE DEF T
    <3> QED
      BY <1>1, <3>1 DEF WellOrdered
  <2>2. CASE n = 0
    <3>1. IsRun([k \in 0 .. 0 |-> base], c, base, 0)
      BY DEF IsRun
    <3> QED
      BY <2>1, <2>2, <3>1
  <2>3. CASE n # 0
    <3>1. n - 1 \in Nat /\ n - 1 \notin T /\ n \in Nat
      BY <2>1, <2>3
    <3>2. PICK f : IsRun(f, c, base, n - 1)
      BY <3>1
    <3> DEFINE g == [k \in 0 .. n |-> IF k = n THEN Step(c, f[n - 1], n) ELSE f[k]]
    <3>3. \A k \in 0 .. n - 1 : f[k] = IF k = 0 THEN base ELSE Step(c, f[k - 1], k)
      BY <3>1, <3>2 DEF IsRun
    <3>4. \A k \in 0 .. n : g[k] = IF k = 0 THEN base ELSE Step(c, g[k - 1], k)
      <4> TAKE k \in 0 .. n
      <4>1. CASE k = n
        BY <4>1, <2>3, <3>1
      <4>2. CASE k # n /\ k = 0
        <5>1. 0 \in 0 .. n - 1
          BY <3>1, <2>3
        <5> QED
          BY <4>2, <3>3, <5>1
      <4>3. CASE k # n /\ k # 0
        <5>1. k \in 0 .. n - 1 /\ k - 1 \in 0 .. n - 1 /\ k - 1 \in 0 .. n /\ k - 1 # n
          BY <4>3, <3>1
        <5> QED
          BY <4>3, <3>3, <5>1
      <4> QED
        BY <4>1, <4>2, <4>3
    <3>5. IsRun(g, c, base, n)
      BY <3>4 DEF IsRun
    <3> QED
      BY <2>1, <3>5
  <2> QED
    BY <2>2, <2>3
<1> QED
  BY <1>1
=============================================================================
