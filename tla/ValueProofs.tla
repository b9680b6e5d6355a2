---------------------------- MODULE ValueProofs -----------------------------
(***************************************************************************)
(* replaceCell and replace change what a network computes exactly as if    *)
(* their root had been redefined, for every network, every fragment and    *)
(* every choice of cells.                                                  *)
(*                                                                         *)
(* The values of the cells are a recursive function over the slots. In an  *)
(* ordered network its definition has a solution (the cells are given      *)
(* values in their order), and two networks agree on every set of cells    *)
(* that is closed under links (ValuesAgree): the least cell, by the order, *)
(* on which they differed would have inputs on which they agree. So moving *)
(* and deleting cells changes nothing that is left (Keeps), and rewriting  *)
(* the root changes the values above it as if it had been given another    *)
(* value. The hash finds a cell by the bag of its links; the value of a    *)
(* gate does not depend on more (GateBag). replace is then followed cell   *)
(* by cell: either the rhs entries seen so far are mapped to cells that    *)
(* compute them, or the root computes the rhs output already (Progress).   *)
(***************************************************************************)
EXTENDS BuilderProofs

-----------------------------------------------------------------------------
(* The numbers of the inputs and of the outputs.                           *)

\* What the numbering of an ordered network gives.
LEMMA NetPositions ==
  ASSUME NEW b, NEW p, Net(b, p)
  PROVE  /\ IsFiniteSet(Live(b)) /\ p \in [Live(b) -> Nat] /\ \A x, y \in Live(b) : p[x] = p[y] => x = y
         /\ Live(b) \subseteq DOMAIN b.entries /\ DOMAIN b.entries \subseteq Nat
<1>1. Core(b, Wires(b), Targets(b), p, 0)
  BY DEF Net
<1>2. /\ IsFiniteSet(Live(b)) /\ Cardinality(Live(b)) \in Nat /\ Live(b) \subseteq DOMAIN b.entries
      /\ DOMAIN b.entries \subseteq Nat
  BY <1>1, CoreFacts
<1>3. Thread(b, Live(b), p)
  BY <1>1 DEF Core, Ordered
<1> QED BY <1>2, <1>3 DEF Thread

\* The cells of the type of i up to i.
UpTo(e, L, p, i) == {x \in L : e[x].type = e[i].type /\ p[x] <= p[i]}

\* The rank of a cell, by the numbering of the cells.
LEMMA RankIs ==
  ASSUME NEW b, NEW p, Net(b, p), NEW i \in Live(b)
  PROVE  Rank(b, i) = Cardinality(UpTo(b.entries, Live(b), p, i))
<1> DEFINE L == Live(b)
           o == Order(b)
           X == UpTo(b.entries, L, p, i)
           V == {n \in DOMAIN o : /\ b.entries[o[n]].type = b.entries[i].type
                                  /\ \E m \in DOMAIN o : n <= m /\ o[m] = i}
<1>1. /\ IsFiniteSet(L) /\ p \in [L -> Nat] /\ \A x, y \in L : p[x] = p[y] => x = y
  BY NetPositions
<1>2. /\ o \in Seq(L) /\ DOMAIN o = 1 .. Len(o) /\ (\A n \in 1 .. Len(o) : o[n] \in L /\ p[o[n]] = n)
      /\ \A x \in L : p[x] \in 1 .. Len(o) /\ o[p[x]] = x
  BY NetOrder DEF Listing
<1>3. Rank(b, i) = Cardinality(V)
  BY DEF Rank
<1> HIDE DEF o, L
<1>4. i \in L
  BY DEF L
<1>5. \A x \in X : p[x] \in V
  <2> SUFFICES ASSUME NEW x \in X PROVE p[x] \in V
    OBVIOUS
  <2>1. x \in L /\ b.entries[x].type = b.entries[i].type /\ p[x] <= p[i]
    BY DEF UpTo
  <2>2. p[x] \in DOMAIN o /\ p[i] \in DOMAIN o /\ o[p[x]] = x /\ o[p[i]] = i
    BY <2>1, <1>2, <1>4
  <2> QED BY <2>1, <2>2
<1>6. \A n \in V : \E x \in X : p[x] = n
  <2> SUFFICES ASSUME NEW n \in V PROVE \E x \in X : p[x] = n
    OBVIOUS
  <2>1. PICK m \in DOMAIN o : n <= m /\ o[m] = i
    OBVIOUS
  <2>2. o[n] \in L /\ p[o[n]] = n /\ p[i] = m /\ b.entries[o[n]].type = b.entries[i].type
    BY <2>1, <1>2
  <2>3. o[n] \in X
    BY <2>1, <2>2 DEF UpTo
  <2> QED BY <2>2, <2>3
<1>7. X \subseteq L
  BY DEF UpTo
<1> HIDE DEF X, V
<1>8. Matches(p, X, V)
  BY <1>1, <1>5, <1>6, <1>7 DEF Matches
<1>9. IsFiniteSet(X)
  BY <1>1, <1>7, FS_Subset
<1> QED BY <1>3, <1>8, <1>9, SameCardinality DEF X, L

\* The networks b and r have the same inputs and outputs, in the same order.
SameEnds(r, b) ==
  /\ Ends(r.entries, Live(r)) = Ends(b.entries, Live(b))
  /\ \A x \in Ends(b.entries, Live(b)) : r.entries[x].type = b.entries[x].type /\ Rank(r, x) = Rank(b, x)

\* A numbering of the same inputs and outputs in the same order keeps their ranks.
LEMMA RanksKept ==
  ASSUME NEW b, NEW p, Net(b, p), NEW r, NEW q, Net(r, q), Ends(r.entries, Live(r)) = Ends(b.entries, Live(b)),
         \A x \in Ends(b.entries, Live(b)) : r.entries[x].type = b.entries[x].type,
         SameOrder(q, p, Ends(b.entries, Live(b)))
  PROVE  SameEnds(r, b)
<1> DEFINE E == Ends(b.entries, Live(b))
<1> SUFFICES ASSUME NEW i \in E PROVE Rank(r, i) = Rank(b, i)
  BY DEF SameEnds
<1>1. p \in [Live(b) -> Nat] /\ q \in [Live(r) -> Nat]
  BY NetPositions
<1>2. i \in Live(b) /\ i \in Live(r) /\ b.entries[i].type \in {"IN", "OUT"}
  BY DEF Ends
<1>3. \A x : x \in UpTo(b.entries, Live(b), p, i) <=> x \in E /\ b.entries[x].type = b.entries[i].type /\ p[x] <= p[i]
  BY <1>2 DEF UpTo, Ends
<1>4. \A x : x \in UpTo(r.entries, Live(r), q, i) <=> x \in E /\ b.entries[x].type = b.entries[i].type /\ q[x] <= q[i]
  BY <1>2 DEF UpTo, Ends
<1>5. \A x \in E : p[x] \in Nat /\ q[x] \in Nat
  BY <1>1 DEF Ends
<1>6. \A x \in E : p[x] <= p[i] <=> q[x] <= q[i]
  <2> TAKE x \in E
  <2>1. q[i] < q[x] <=> p[i] < p[x]
    BY DEF SameOrder
  <2> QED BY <2>1, <1>5
<1>7. UpTo(b.entries, Live(b), p, i) = UpTo(r.entries, Live(r), q, i)
  BY <1>3, <1>4, <1>6
<1> QED BY <1>2, <1>7, RankIs

-----------------------------------------------------------------------------
(* The recursive definition of the values has one solution.                *)

\* The value of the gate at k over the values f.
GateAt(b, f, k) ==
  GateValue(b.entries[k].type,
            [j \in DOMAIN b.entries[k].links |-> LinkValue(f[b.entries[k].links[j].idx], b.entries[k].links[j].inv)])

\* The value of cell k over the values f if cell `at' has the value v.
ValueAt(b, f, k, at, v) ==
  CASE k = at -> v
    [] k # at /\ k \notin Live(b) -> {}
    [] k # at /\ k \in Live(b) /\ b.entries[k].type = "IN" -> {a \in Assignments : Rank(b, k) \in a}
    [] OTHER -> GateAt(b, f, k)

\* f solves the recursive definition of the values.
AreValues(b, f, at, v) == f = [k \in DOMAIN b.entries |-> ValueAt(b, f, k, at, v)]

\* The value of a cell depends on the values of its inputs only.
LEMMA ValueLocal ==
  ASSUME NEW b, NEW k, NEW at, NEW v, NEW f, NEW g,
         k \in Live(b) => \A j \in DOMAIN b.entries[k].links : f[b.entries[k].links[j].idx] = g[b.entries[k].links[j].idx]
  PROVE  ValueAt(b, f, k, at, v) = ValueAt(b, g, k, at, v)
<1>1. CASE k \in Live(b)
  <2>1. GateAt(b, f, k) = GateAt(b, g, k)
    BY <1>1 DEF GateAt
  <2> QED BY <2>1 DEF ValueAt
<1>2. CASE k \notin Live(b)
  BY <1>2 DEF ValueAt
<1> QED BY <1>1, <1>2

\* The recursive definition of the values has a solution: after m rounds, the values of the
\* first m cells are right.
LEMMA ValuesExist ==
  ASSUME NEW b, NEW p, Net(b, p), NEW at, NEW v
  PROVE  \E f : AreValues(b, f, at, v)
<1> DEFINE D == DOMAIN b.entries
           L == Live(b)
           N == Cardinality(L)
           Right(g, m) == \A k \in L : p[k] <= m => g[k] = ValueAt(b, g, k, at, v)
           G == {m \in 0 .. N : \E g : Right(g, m)}
<1>1. L \subseteq D /\ N \in Nat /\ \A k \in L : p[k] \in 1 .. N
  <2>1. Core(b, Wires(b), Targets(b), p, 0)
    BY DEF Net
  <2>2. L \subseteq D /\ N \in Nat
    BY <2>1, CoreFacts
  <2> QED BY <2>1, <2>2 DEF Core, Ordered, Thread
<1>2. \A k \in L : \A j \in DOMAIN b.entries[k].links : b.entries[k].links[j].idx \in L /\ p[b.entries[k].links[j].idx] < p[k]
  BY NetTopo DEF Drivers
<1> HIDE DEF L, N
<1>3. 0 \in G
  <2>1. Right(<< >>, 0)
    BY <1>1
  <2> QED BY <2>1, <1>1
<1>4. ASSUME NEW m \in 0 .. N - 1, m \in G PROVE m + 1 \in G
  <2>1. PICK g : Right(g, m)
    BY <1>4
  <2> DEFINE h == [k \in D |-> ValueAt(b, g, k, at, v)]
  <2>2. ASSUME NEW k \in L, p[k] <= m + 1 PROVE h[k] = ValueAt(b, h, k, at, v)
    <3>1. ASSUME NEW j \in DOMAIN b.entries[k].links PROVE g[b.entries[k].links[j].idx] = h[b.entries[k].links[j].idx]
      <4> DEFINE y == b.entries[k].links[j].idx
      <4>1. y \in L /\ p[y] < p[k] /\ p[y] \in 1 .. N /\ p[k] \in 1 .. N
        BY <1>1, <1>2
      <4> HIDE DEF y
      <4>2. p[y] <= m /\ y \in D
        BY <4>1, <2>2, <1>1
      <4>3. g[y] = ValueAt(b, g, y, at, v)
        BY <4>1, <4>2, <2>1
      <4> QED BY <4>2, <4>3 DEF y
    <3>2. h[k] = ValueAt(b, g, k, at, v)
      BY <1>1
    <3> HIDE DEF h
    <3>3. ValueAt(b, g, k, at, v) = ValueAt(b, h, k, at, v)
      BY <3>1, ValueLocal
    <3> QED BY <3>2, <3>3
  <2>3. Right(h, m + 1)
    BY <2>2
  <2> HIDE DEF Right
  <2> QED BY <2>3, <1>1
<1>5. N \in G
  <2>1. N \in 0 .. N
    BY <1>1
  <2> HIDE DEF G
  <2> QED BY <2>1, <1>1, <1>3, <1>4, IntervalInduction
<1>6. PICK g : Right(g, N)
  BY <1>5
<1> DEFINE f == [k \in D |-> ValueAt(b, g, k, at, v)]
<1>7. \A k \in L : g[k] = f[k]
  BY <1>1, <1>6
<1>8. ASSUME NEW k \in D PROVE ValueAt(b, g, k, at, v) = ValueAt(b, f, k, at, v)
  <2>1. k \in Live(b) => \A j \in DOMAIN b.entries[k].links : g[b.entries[k].links[j].idx] = f[b.entries[k].links[j].idx]
    BY <1>2, <1>7 DEF L
  <2> HIDE DEF f
  <2> QED BY <2>1, ValueLocal
<1>9. f = [k \in D |-> ValueAt(b, f, k, at, v)]
  BY <1>8
<1> HIDE DEF f
<1>10. AreValues(b, f, at, v)
  BY <1>9 DEF AreValues
<1> QED BY <1>10

\* ValueWith satisfies its recursive definition.
LEMMA ValueWithIs ==
  ASSUME NEW b, NEW p, Net(b, p), NEW at, NEW v
  PROVE  \E f : AreValues(b, f, at, v) /\ \A k : ValueWith(b, k, at, v) = f[k]
<1> DEFINE Gate(c, vs) == GateValue(c.type, [j \in DOMAIN c.links |-> LinkValue(vs[j], c.links[j].inv)])
           Rule(f, k) == CASE k = at -> v
                           [] k # at /\ k \notin Live(b) -> {}
                           [] k # at /\ k \in Live(b) /\ b.entries[k].type = "IN" -> {a \in Assignments : Rank(b, k) \in a}
                           [] OTHER -> Gate(b.entries[k], [j \in DOMAIN b.entries[k].links |-> f[b.entries[k].links[j].idx]])
           IsF(f) == f = [k \in DOMAIN b.entries |-> Rule(f, k)]
           f == CHOOSE g : IsF(g)
<1>1. \A k : ValueWith(b, k, at, v) = f[k]
  BY DEF ValueWith
<1>2. \A g, k : Gate(b.entries[k], [j \in DOMAIN b.entries[k].links |-> g[b.entries[k].links[j].idx]]) = GateAt(b, g, k)
  BY DEF GateAt
<1> HIDE DEF Gate
<1>3. \A g : AreValues(b, g, at, v) <=> IsF(g)
  <2>1. ASSUME NEW g, NEW k PROVE Rule(g, k) = ValueAt(b, g, k, at, v)
    BY <1>2 DEF ValueAt
  <2> HIDE DEF Rule
  <2> QED BY <2>1 DEF AreValues
<1>4. \E g : IsF(g)
  BY <1>3, ValuesExist
<1>5. IsF(f)
  <2> HIDE DEF IsF
  <2> QED BY <1>4
<1> HIDE DEF f, IsF
<1> QED BY <1>1, <1>3, <1>5

\* The values of the inputs of cell k.
InputsWith(b, k, at, v) ==
  [j \in DOMAIN b.entries[k].links |->
     LinkValue(ValueWith(b, b.entries[k].links[j].idx, at, v), b.entries[k].links[j].inv)]

\* The value of a cell from the values of its inputs.
LEMMA ValueUnfold ==
  ASSUME NEW b, NEW p, Net(b, p), NEW k \in Live(b), NEW at, NEW v
  PROVE  /\ k = at => ValueWith(b, k, at, v) = v
         /\ k # at /\ b.entries[k].type = "IN" => ValueWith(b, k, at, v) = {a \in Assignments : Rank(b, k) \in a}
         /\ k # at /\ b.entries[k].type # "IN" =>
              ValueWith(b, k, at, v) = GateValue(b.entries[k].type, InputsWith(b, k, at, v))
<1>1. PICK f : AreValues(b, f, at, v) /\ \A x : ValueWith(b, x, at, v) = f[x]
  BY ValueWithIs
<1>2. k \in DOMAIN b.entries
  BY DEF Live
<1>3. f[k] = ValueAt(b, f, k, at, v)
  BY <1>1, <1>2 DEF AreValues
<1>4. GateAt(b, f, k) = GateValue(b.entries[k].type, InputsWith(b, k, at, v))
  BY <1>1 DEF GateAt, InputsWith
<1> QED BY <1>1, <1>3, <1>4 DEF ValueAt

\* Two networks agree on cell x if they agree on its inputs.
Alike(b, at, r, c, K, x) ==
  /\ x # at /\ x # c /\ r.entries[x].type = b.entries[x].type /\ r.entries[x].links = b.entries[x].links
  /\ b.entries[x].type = "IN" => Rank(r, x) = Rank(b, x)
  /\ \A j \in DOMAIN b.entries[x].links : b.entries[x].links[j].idx \in K

\* Two builders give the cells of K the same values if every cell of K either is the same
\* gate over cells of K in both or is known to have the same value.
LEMMA ValuesAgree ==
  ASSUME NEW b, NEW p, Net(b, p), NEW r, NEW q, Net(r, q), NEW at, NEW v, NEW c, NEW w, NEW K,
         K \subseteq Live(b), K \subseteq Live(r),
         \A x \in K : Alike(b, at, r, c, K, x) \/ ValueWith(b, x, at, v) = ValueWith(r, x, c, w)
  PROVE  \A x \in K : ValueWith(b, x, at, v) = ValueWith(r, x, c, w)
<1> DEFINE L == Live(b)
           N == Cardinality(L)
           F(x) == ValueWith(b, x, at, v)
           G(x) == ValueWith(r, x, c, w)
           A == {m \in 0 .. N : \A x \in K : p[x] <= m => F(x) = G(x)}
<1>1. N \in Nat /\ \A k \in L : p[k] \in 1 .. N
  <2>1. Core(b, Wires(b), Targets(b), p, 0)
    BY DEF Net
  <2>2. N \in Nat
    BY <2>1, CoreFacts
  <2> QED BY <2>1, <2>2 DEF Core, Ordered, Thread
<1>2. \A k \in L : \A j \in DOMAIN b.entries[k].links : b.entries[k].links[j].idx \in L /\ p[b.entries[k].links[j].idx] < p[k]
  BY NetTopo DEF Drivers
<1>3. 0 \in A
  BY <1>1
<1>4. ASSUME NEW m \in 0 .. N - 1, m \in A PROVE m + 1 \in A
  <2>1. ASSUME NEW x \in K, p[x] <= m + 1 PROVE F(x) = G(x)
    <3>1. CASE F(x) = G(x)
      BY <3>1
    <3>2. CASE Alike(b, at, r, c, K, x)
      <4>1. /\ x \in Live(b) /\ x \in Live(r) /\ x # at /\ x # c /\ r.entries[x].type = b.entries[x].type
            /\ r.entries[x].links = b.entries[x].links /\ (b.entries[x].type = "IN" => Rank(r, x) = Rank(b, x))
        BY <3>2 DEF Alike
      <4>2. ASSUME NEW j \in DOMAIN b.entries[x].links PROVE F(b.entries[x].links[j].idx) = G(b.entries[x].links[j].idx)
        <5> DEFINE y == b.entries[x].links[j].idx
        <5>1. y \in K /\ p[y] < p[x] /\ p[y] \in 1 .. N /\ p[x] \in 1 .. N
          BY <1>1, <1>2, <3>2 DEF Alike
        <5> HIDE DEF y
        <5>2. p[y] <= m
          BY <5>1, <2>1, <1>1
        <5>3. F(y) = G(y)
          BY <5>1, <5>2, <1>4
        <5> QED BY <5>3 DEF y
      <4>3. InputsWith(b, x, at, v) = InputsWith(r, x, c, w)
        BY <4>1, <4>2 DEF InputsWith
      <4>4. CASE b.entries[x].type = "IN"
        <5>1. F(x) = {a \in Assignments : Rank(b, x) \in a}
          BY <4>1, <4>4, ValueUnfold
        <5>2. G(x) = {a \in Assignments : Rank(r, x) \in a}
          BY <4>1, <4>4, ValueUnfold
        <5> QED BY <5>1, <5>2, <4>1, <4>4
      <4>5. CASE b.entries[x].type # "IN"
        <5>1. F(x) = GateValue(b.entries[x].type, InputsWith(b, x, at, v))
          BY <4>1, <4>5, ValueUnfold
        <5>2. G(x) = GateValue(r.entries[x].type, InputsWith(r, x, c, w))
          BY <4>1, <4>5, ValueUnfold
        <5> QED BY <5>1, <5>2, <4>1, <4>3
      <4> QED BY <4>4, <4>5
    <3>3. Alike(b, at, r, c, K, x) \/ F(x) = G(x)
      OBVIOUS
    <3> QED BY ONLY <3>1, <3>2, <3>3
  <2> HIDE DEF F, G
  <2>2. m + 1 \in 0 .. N
    BY <1>1
  <2> QED BY <2>1, <2>2
<1>5. N \in A
  <2>1. N \in 0 .. N
    BY <1>1
  <2> HIDE DEF A
  <2> QED BY <2>1, <1>1, <1>3, <1>4, IntervalInduction
<1> QED BY <1>1, <1>5

-----------------------------------------------------------------------------
(* Builders that keep the cells of another one.                            *)

\* The builder r has the cells of b, and the same inputs and outputs.
Keeps(r, b) ==
  /\ Live(b) \subseteq Live(r) /\ SameOn(r.entries, b.entries, Live(b))
  /\ SameEnds(r, b)

\* A builder that keeps the cells of b in their order, and adds gates only, keeps b.
LEMMA KeptOrder ==
  ASSUME NEW b, NEW p, Net(b, p), NEW r,
         NEW q, Net(r, q), Live(b) \subseteq Live(r), SameOn(r.entries, b.entries, Live(b)),
         \A x \in Live(r) \ Live(b) : r.entries[x].type \notin {"IN", "OUT"}, SameOrder(q, p, Live(b))
  PROVE  Keeps(r, b)
<1>1. Ends(r.entries, Live(r)) = Ends(b.entries, Live(b))
  BY DEF Ends, SameOn
<1>2. \A x \in Ends(b.entries, Live(b)) : r.entries[x].type = b.entries[x].type
  BY DEF Ends, SameOn
<1>3. SameOrder(q, p, Ends(b.entries, Live(b)))
  BY DEF SameOrder, Ends
<1>4. SameEnds(r, b)
  BY <1>1, <1>2, <1>3, RanksKept
<1> QED BY <1>4 DEF Keeps

\* A builder with the same cells in the same order keeps b.
LEMMA KeptSame ==
  ASSUME NEW b, NEW p, Net(b, p), NEW r, Net(r, p), Live(r) = Live(b), SameOn(r.entries, b.entries, Live(b))
  PROVE  Keeps(r, b)
<1>1. SameOrder(p, p, Live(b))
  BY DEF SameOrder
<1> QED BY <1>1, KeptOrder

\* Keeping is transitive.
LEMMA KeptTrans ==
  ASSUME NEW a, NEW b, NEW c, Keeps(b, a), Keeps(c, b)
  PROVE  Keeps(c, a)
<1>1. Live(a) \subseteq Live(c) /\ SameOn(c.entries, a.entries, Live(a))
  BY DEF Keeps, SameOn
<1>2. SameEnds(c, a)
  BY DEF Keeps, SameEnds
<1> QED BY <1>1, <1>2 DEF Keeps

\* The cells kept keep their values, whatever one of them is redefined to.
LEMMA KeptValues ==
  ASSUME NEW b, NEW r, Sound(b), Sound(r), Keeps(r, b), NEW at, NEW v
  PROVE  \A x \in Live(b) : ValueWith(b, x, at, v) = ValueWith(r, x, at, v)
<1>1. PICK p : Net(b, p)
  BY DEF Sound
<1>2. PICK q : Net(r, q)
  BY DEF Sound
<1> DEFINE K == Live(b)
<1>3. K \subseteq Live(r) /\ SameOn(r.entries, b.entries, K) /\ SameEnds(r, b)
  BY DEF Keeps
<1>4. \A k \in K : \A j \in DOMAIN b.entries[k].links : b.entries[k].links[j].idx \in K
  BY <1>1, NetTopo DEF Drivers
<1>5. ASSUME NEW x \in K PROVE Alike(b, at, r, at, K, x) \/ ValueWith(b, x, at, v) = ValueWith(r, x, at, v)
  <2>1. CASE x = at
    <3>1. ValueWith(b, x, at, v) = v
      BY <2>1, <1>1, ValueUnfold
    <3>2. ValueWith(r, x, at, v) = v
      BY <2>1, <1>2, <1>3, ValueUnfold
    <3> QED BY <3>1, <3>2
  <2>2. CASE x # at
    <3>1. r.entries[x].type = b.entries[x].type /\ r.entries[x].links = b.entries[x].links
      BY <1>3 DEF SameOn
    <3>2. b.entries[x].type = "IN" => Rank(r, x) = Rank(b, x)
      BY <1>3 DEF SameEnds, Ends
    <3> QED BY <2>2, <3>1, <3>2, <1>4 DEF Alike
  <2> QED BY <2>1, <2>2
<1> HIDE DEF K
<1>6. \A x \in K : ValueWith(b, x, at, v) = ValueWith(r, x, at, v)
  <2>1. K \subseteq Live(b)
    BY DEF K
  <2> QED BY <1>1, <1>2, <1>3, <1>5, <2>1, ValuesAgree
<1> QED BY <1>6 DEF K

\* The outputs of builders with the same ends and the same values of the outputs.
LEMMA SameOutputs ==
  ASSUME NEW b, NEW r, SameEnds(r, b), NEW at, NEW v, NEW c, NEW w,
         \A x \in Live(b) \cap Live(r) : b.entries[x].type = "OUT" => ValueWith(b, x, at, v) = ValueWith(r, x, c, w)
  PROVE  OutputsWith(b, at, v) = OutputsWith(r, c, w)
<1> DEFINE A == {k \in Live(b) : b.entries[k].type = "OUT"}
           B == {k \in Live(r) : r.entries[k].type = "OUT"}
<1>1. A = B /\ A \subseteq Ends(b.entries, Live(b))
  BY DEF SameEnds, Ends
<1>2. \A x \in A : Rank(b, x) = Rank(r, x) /\ ValueWith(b, x, at, v) = ValueWith(r, x, c, w)
  BY <1>1 DEF SameEnds
<1>3. OutputsWith(b, at, v) = {<<Rank(b, x), ValueWith(b, x, at, v)>> : x \in A}
  BY DEF OutputsWith
<1>4. OutputsWith(r, c, w) = {<<Rank(r, x), ValueWith(r, x, c, w)>> : x \in B}
  BY DEF OutputsWith
<1> HIDE DEF A, B
<1> QED BY ONLY <1>1, <1>2, <1>3, <1>4

\* The outputs are kept, whatever cell is redefined.
LEMMA KeptOutputs ==
  ASSUME NEW b, NEW r, Sound(b), Sound(r), Keeps(r, b), NEW at, NEW v
  PROVE  OutputsWith(b, at, v) = OutputsWith(r, at, v)
<1>1. \A x \in Live(b) : ValueWith(b, x, at, v) = ValueWith(r, x, at, v)
  BY KeptValues
<1> QED BY <1>1, SameOutputs DEF Keeps

\* The cells that do not depend on cell i keep their values whatever i computes.
LEMMA AwayValues ==
  ASSUME NEW b, NEW p, Net(b, p), NEW i, NEW S, AwayFrom(b, i, S), NEW v
  PROVE  \A x \in S : ValueWith(b, x, i, v) = Value(b, x)
<1>1. S \subseteq Live(b) /\ InvalidID \notin Live(b)
  BY NetPositions DEF AwayFrom, Drivers, InvalidID
<1>2. \A x \in S : Alike(b, i, b, InvalidID, S, x)
  BY <1>1 DEF AwayFrom, Alike
<1>3. \A x \in S : ValueWith(b, x, i, v) = ValueWith(b, x, InvalidID, {})
  BY <1>1, <1>2, ValuesAgree
<1> QED BY <1>3 DEF Value

-----------------------------------------------------------------------------
(* replaceCell redefines the root.                                         *)

\* A replacement keeps the inputs and outputs.
LEMMA ReplacedEnds ==
  ASSUME NEW b, NEW p, Net(b, p), NEW i, NEW t, NEW ls, NEW S, MayReplace(b, i, t, ls, S),
         NEW r, Replaced(r, b, p, i, t, ls)
  PROVE  SameEnds(r, b)
<1>1. PICK q : Net(r, q) /\ SameOrder(q, p, Ends(b.entries, Live(b)))
  BY DEF Replaced
<1>2. b.entries[i].type \notin {"IN", "OUT"} /\ t \notin {"IN", "OUT"} /\ i \in Live(b)
  BY DEF MayReplace, Drivers
<1>3. /\ Live(r) \subseteq Live(b) /\ (\A x \in Live(b) \ Live(r) : b.entries[x].type \notin {"IN", "OUT"})
      /\ (\A x \in Live(r) \ {i} : r.entries[x].type = b.entries[x].type) /\ r.entries[i].type = t
  BY DEF Replaced, SameOn
<1>4. Ends(r.entries, Live(r)) = Ends(b.entries, Live(b))
  BY <1>2, <1>3 DEF Ends
<1>5. \A x \in Ends(b.entries, Live(b)) : r.entries[x].type = b.entries[x].type
  BY <1>2, <1>3 DEF Ends
<1> QED BY <1>1, <1>4, <1>5, RanksKept

\* A replacement makes the root compute the new function of the old values, and the outputs
\* what they compute then.
LEMMA ReplacedOutputs ==
  ASSUME NEW b, NEW p, Net(b, p), NEW i, NEW t, NEW ls, NEW S, MayReplace(b, i, t, ls, S),
         NEW r, Replaced(r, b, p, i, t, ls)
  PROVE  Outputs(r) = OutputsWith(b, i, GateValue(t, LinkValues(b, ls)))
<1> DEFINE V == GateValue(t, LinkValues(b, ls))
           K == S \cap Live(r)
           M == Live(r)
<1>1. PICK q : Net(r, q)
  BY DEF Replaced
<1>2. /\ M \subseteq Live(b) /\ i \in M /\ SameOn(r.entries, b.entries, M \ {i})
      /\ r.entries[i].type = t /\ r.entries[i].links = ls
  BY DEF Replaced, Drivers
<1>3. SameEnds(r, b)
  BY ReplacedEnds
<1>4. /\ t \notin {"IN", "OUT"} /\ S \subseteq Live(b) /\ i \notin S /\ ls \in Seq(LinkSet(S)) /\ i \in Live(b)
      /\ \A x \in S : \A j \in DOMAIN b.entries[x].links : b.entries[x].links[j].idx \in S
  BY DEF MayReplace, AwayFrom, Drivers
<1>5. InvalidID \notin Live(b)
  BY NetPositions DEF InvalidID
<1>6. \A x \in M : \A j \in DOMAIN r.entries[x].links : r.entries[x].links[j].idx \in M
  BY <1>1, NetTopo DEF Drivers
<1>7. \A j \in DOMAIN ls : ls[j].idx \in K
  <2>1. \A j \in DOMAIN ls : ls[j].idx \in S
    BY <1>4, LinkSeq
  <2> QED BY <2>1, <1>2, <1>6
<1>8. \A x \in M \ {i} : /\ r.entries[x].type = b.entries[x].type /\ r.entries[x].links = b.entries[x].links
                         /\ (b.entries[x].type = "IN" => Rank(r, x) = Rank(b, x)) /\ x # InvalidID
  BY <1>2, <1>3, <1>5 DEF SameOn, SameEnds, Ends
<1> HIDE DEF K, M
<1>9. K \subseteq Live(b) /\ K \subseteq Live(r) /\ K \subseteq M \ {i} /\ M \subseteq Live(r) /\ M \subseteq Live(b)
  BY <1>2, <1>4 DEF K, M
<1>10. \A x \in K : Value(b, x) = Value(r, x)
  <2>1. ASSUME NEW x \in K PROVE Alike(b, InvalidID, r, InvalidID, K, x)
    <3>1. x \in M \ {i} /\ x \in S
      BY <1>9 DEF K
    <3>2. \A j \in DOMAIN b.entries[x].links : b.entries[x].links[j].idx \in K
      BY <3>1, <1>4, <1>6, <1>8 DEF K, M
    <3> QED BY <3>1, <3>2, <1>8 DEF Alike
  <2>2. \A x \in K : ValueWith(b, x, InvalidID, {}) = ValueWith(r, x, InvalidID, {})
    BY <1>1, <1>9, <2>1, ValuesAgree
  <2> QED BY <2>2 DEF Value
<1>11. ValueWith(r, i, InvalidID, {}) = V
  <2>1. i \in Live(r) /\ i # InvalidID
    BY <1>2, <1>5 DEF M
  <2>2. ValueWith(r, i, InvalidID, {}) = GateValue(r.entries[i].type, InputsWith(r, i, InvalidID, {}))
    BY <2>1, <1>1, <1>2, <1>4, ValueUnfold
  <2>3. InputsWith(r, i, InvalidID, {}) = [j \in DOMAIN ls |-> LinkValue(Value(r, ls[j].idx), ls[j].inv)]
    BY <1>2 DEF InputsWith, Value
  <2>4. InputsWith(r, i, InvalidID, {}) = LinkValues(b, ls)
    BY <2>3, <1>7, <1>10 DEF LinkValues
  <2> QED BY <2>2, <2>4, <1>2
<1>12. ValueWith(b, i, i, V) = V
  BY <1>4, ValueUnfold
<1> HIDE DEF V
<1>13. \A x \in M : ValueWith(b, x, i, V) = ValueWith(r, x, InvalidID, {})
  <2>1. ASSUME NEW x \in M PROVE Alike(b, i, r, InvalidID, M, x) \/ ValueWith(b, x, i, V) = ValueWith(r, x, InvalidID, {})
    <3>1. CASE x = i
      BY <3>1, <1>11, <1>12
    <3>2. CASE x # i
      BY <3>2, <1>6, <1>8 DEF Alike
    <3> QED BY <3>1, <3>2
  <2> QED BY <1>1, <1>9, <2>1, ValuesAgree
<1>14. OutputsWith(b, i, V) = OutputsWith(r, InvalidID, {})
  BY <1>3, <1>13, SameOutputs DEF M
<1> QED BY <1>14 DEF Outputs, V

-----------------------------------------------------------------------------
(* The value of a gate depends on the bag of its links only.               *)

\* A live cell is a cell of its type.
LEMMA NetCell ==
  ASSUME NEW b, NEW p, Net(b, p), NEW k \in Live(b)
  PROVE  /\ b.entries[k].type \in CellTypes /\ b.entries[k].links \in Seq(LinkSet(DOMAIN b.entries))
         /\ Arity(b.entries[k].type, b.entries[k].links)
<1>1. CellsOK(b.entries) /\ k \in DOMAIN b.entries
  BY DEF Net, Core, Live
<1>2. b.entries[k].type \in CellTypes /\ b.entries[k].links \in Seq(LinkSet(DOMAIN b.entries))
  BY <1>1, CellFields
<1>3. Arity(b.entries[k].type, b.entries[k].links)
  BY DEF Net, Arities
<1> QED BY <1>2, <1>3

\* The number of the elements of ls in K.
CountIn(ls, K) == Cardinality({j \in DOMAIN ls : ls[j] \in K})

\* The number of elements of a list in a set is the number in the rest of it and the
\* occurrences of one element.
LEMMA CountRemove ==
  ASSUME NEW ls, IsFiniteSet(DOMAIN ls), NEW K, NEW x \in K
  PROVE  /\ CountIn(ls, K) = CountIn(ls, K \ {x}) + Cardinality({j \in DOMAIN ls : ls[j] = x})
         /\ CountIn(ls, K) \in Nat
<1> DEFINE A == {j \in DOMAIN ls : ls[j] \in K}
           B == {j \in DOMAIN ls : ls[j] \in K \ {x}}
           C == {j \in DOMAIN ls : ls[j] = x}
<1>1. IsFiniteSet(B) /\ IsFiniteSet(C) /\ IsFiniteSet(A)
  BY FS_Subset
<1>2. A = B \cup C /\ B \cap C = {}
  OBVIOUS
<1>3. Cardinality(A) \in Nat /\ Cardinality(B) \in Nat /\ Cardinality(C) \in Nat /\ Cardinality(B \cap C) = 0
  BY <1>1, <1>2, FS_CardinalityType, FS_EmptySet
<1>4. Cardinality(B \cup C) = Cardinality(B) + Cardinality(C) - Cardinality(B \cap C)
  BY <1>1, FS_Union
<1>5. Cardinality(A) = Cardinality(B) + Cardinality(C)
  BY <1>2, <1>3, <1>4
<1> QED BY <1>3, <1>5 DEF CountIn

\* Lists with equal bags have the same numbers of elements in every set of their elements.
LEMMA BagCounts ==
  ASSUME NEW ls, NEW ms, IsFiniteSet(DOMAIN ls), IsFiniteSet(DOMAIN ms), ToBag(ls) = ToBag(ms),
         NEW K, K \subseteq Range(ls)
  PROVE  CountIn(ls, K) = CountIn(ms, K)
<1> DEFINE R == Range(ls)
           N == Cardinality(R)
           G == {n \in 0 .. N : \A J \in SUBSET R : Cardinality(J) = n => CountIn(ls, J) = CountIn(ms, J)}
<1>1. IsFiniteSet(R) /\ N \in Nat
  <2>1. R = {ls[j] : j \in DOMAIN ls}
    BY DEF Range
  <2> HIDE DEF R
  <2> DEFINE f == [j \in DOMAIN ls |-> ls[j]]
  <2>2. f \in Surjection(DOMAIN ls, R)
    BY <2>1 DEF Surjection
  <2>3. IsFiniteSet(R)
    BY <2>2, FS_Surjection
  <2> QED BY <2>3, FS_CardinalityType
<1>2. \A x \in R : Cardinality({j \in DOMAIN ls : ls[j] = x}) = Cardinality({j \in DOMAIN ms : ms[j] = x})
  <2>1. DOMAIN ToBag(ls) = Range(ls) /\ DOMAIN ToBag(ms) = Range(ms) /\ Range(ms) = R
    BY DEF ToBag
  <2>2. \A x \in R : ToBag(ls)[x] = Cardinality({j \in DOMAIN ls : ls[j] = x})
    BY DEF ToBag
  <2>3. \A x \in R : ToBag(ms)[x] = Cardinality({j \in DOMAIN ms : ms[j] = x})
    BY <2>1 DEF ToBag
  <2> QED BY <2>2, <2>3
<1> HIDE DEF R
<1>3. \A J \in SUBSET R : IsFiniteSet(J) /\ Cardinality(J) \in 0 .. N
  BY <1>1, FS_Subset, FS_CardinalityType
<1>4. 0 \in G
  <2>1. ASSUME NEW J \in SUBSET R, Cardinality(J) = 0 PROVE CountIn(ls, J) = CountIn(ms, J)
    <3>1. J = {}
      BY <1>3, <2>1, FS_EmptySet
    <3>2. {j \in DOMAIN ls : ls[j] \in J} = {j \in DOMAIN ms : ms[j] \in J}
      BY <3>1
    <3> QED BY <3>2 DEF CountIn
  <2>2. 0 \in 0 .. N
    BY <1>1
  <2> HIDE DEF N
  <2> QED BY ONLY <2>1, <2>2
<1>5. ASSUME NEW n \in 0 .. N - 1, n \in G PROVE n + 1 \in G
  <2>1. ASSUME NEW J \in SUBSET R, Cardinality(J) = n + 1 PROVE CountIn(ls, J) = CountIn(ms, J)
    <3>1. IsFiniteSet(J) /\ J # {}
      BY <1>3, <2>1, FS_EmptySet
    <3>2. PICK x \in J : TRUE
      BY <3>1
    <3>3. J \ {x} \in SUBSET R /\ Cardinality(J \ {x}) = n
      <4>1. Cardinality(J \ {x}) = Cardinality(J) - 1
        BY <3>1, <3>2, FS_RemoveElement
      <4>2. n \in Int
        BY <1>1
      <4>3. (n + 1) - 1 = n
        BY ONLY <4>2
      <4> QED BY <2>1, <4>1, <4>3
    <3>4. CountIn(ls, J \ {x}) = CountIn(ms, J \ {x})
      BY <3>3, <1>5
    <3>5. Cardinality({j \in DOMAIN ls : ls[j] = x}) = Cardinality({j \in DOMAIN ms : ms[j] = x})
      BY <1>2, <3>2
    <3>6. CountIn(ls, J) = CountIn(ls, J \ {x}) + Cardinality({j \in DOMAIN ls : ls[j] = x})
      BY <3>2, CountRemove
    <3>7. CountIn(ms, J) = CountIn(ms, J \ {x}) + Cardinality({j \in DOMAIN ms : ms[j] = x})
      BY <3>2, CountRemove
    <3> QED BY <3>4, <3>5, <3>6, <3>7
  <2>2. n + 1 \in 0 .. N
    BY <1>1
  <2> HIDE DEF N
  <2> QED BY <2>1, <2>2
<1>6. \A n \in 0 .. N : n \in G
  <2> HIDE DEF G
  <2> QED BY <1>1, <1>4, <1>5, IntervalInduction
<1>7. K \in SUBSET R
  BY DEF R
<1>8. Cardinality(K) \in 0 .. N
  BY <1>3, <1>7
<1>9. Cardinality(K) \in G
  BY <1>6, <1>8
<1> QED BY <1>7, <1>9

\* The values of the links ls where cell x has the value f[x].
LinksOver(f, ls) == [j \in DOMAIN ls |-> LinkValue(f[ls[j].idx], ls[j].inv)]

\* The links of ls which are true under a.
TrueIn(f, ls, a) == {l \in Range(ls) : a \in LinkValue(f[l.idx], l.inv)}

\* The numbers of the links of ls which are true under a.
TrueAt(f, ls, a) == {j \in DOMAIN ls : a \in LinksOver(f, ls)[j]}

\* Lists with equal bags have as many true links under every assignment.
LEMMA TrueCount ==
  ASSUME NEW f, NEW ls, NEW ms, IsFiniteSet(DOMAIN ls), IsFiniteSet(DOMAIN ms), ToBag(ls) = ToBag(ms)
  PROVE  \A a : Cardinality(TrueAt(f, ls, a)) = Cardinality(TrueAt(f, ms, a))
<1> TAKE a
<1> DEFINE K == TrueIn(f, ls, a)
<1>1. Range(ls) = Range(ms)
  <2>1. DOMAIN ToBag(ls) = Range(ls) /\ DOMAIN ToBag(ms) = Range(ms)
    BY DEF ToBag
  <2> QED BY <2>1
<1>2. TrueAt(f, ls, a) = {j \in DOMAIN ls : ls[j] \in K}
  BY DEF LinksOver, TrueIn, Range, TrueAt
<1>3. TrueAt(f, ms, a) = {j \in DOMAIN ms : ms[j] \in K}
  BY <1>1 DEF LinksOver, TrueIn, Range, TrueAt
<1>4. K \subseteq Range(ls)
  BY DEF TrueIn
<1>5. CountIn(ls, K) = CountIn(ms, K)
  BY <1>4, BagCounts
<1> QED BY <1>2, <1>3, <1>5 DEF CountIn

\* The gates are commutative: what they compute depends on the bag of their links, by which
\* the cells are hashed.
LEMMA GateBag ==
  ASSUME NEW t \in CellTypes \ {"IN"}, NEW D, NEW E, NEW ls \in Seq(LinkSet(D)), NEW ms \in Seq(LinkSet(E)),
         StrashKey(t, ls) = StrashKey(t, ms), Arity(t, ls), Arity(t, ms), NEW f
  PROVE  GateValue(t, LinksOver(f, ls)) = GateValue(t, LinksOver(f, ms))
<1> DEFINE u == LinksOver(f, ls)
           w == LinksOver(f, ms)
<1>1. /\ Len(ls) \in Nat /\ DOMAIN ls = 1 .. Len(ls) /\ Len(ms) \in Nat /\ DOMAIN ms = 1 .. Len(ms)
  BY LinkSeq
<1>2. IsFiniteSet(DOMAIN ls) /\ IsFiniteSet(DOMAIN ms) /\ Cardinality(DOMAIN ls) = Len(ls) /\ Cardinality(DOMAIN ms) = Len(ms)
  <2>1. \A n \in Nat : IsFiniteSet(1 .. n) /\ Cardinality(1 .. n) = n
    BY FS_Interval
  <2> QED BY <2>1, <1>1
<1>3. ToBag(ls) = ToBag(ms)
  BY DEF StrashKey
<1>4. \A a : Cardinality({j \in DOMAIN u : a \in u[j]}) = Cardinality({j \in DOMAIN w : a \in w[j]})
  <2>1. DOMAIN u = DOMAIN ls /\ DOMAIN w = DOMAIN ms
    BY DEF LinksOver
  <2>2. \A a : {j \in DOMAIN u : a \in u[j]} = TrueAt(f, ls, a)
    BY <2>1 DEF TrueAt
  <2>3. \A a : {j \in DOMAIN w : a \in w[j]} = TrueAt(f, ms, a)
    BY <2>1 DEF TrueAt
  <2>4. \A a : Cardinality(TrueAt(f, ls, a)) = Cardinality(TrueAt(f, ms, a))
    BY ONLY <1>2, <1>3, TrueCount
  <2> QED BY ONLY <2>2, <2>3, <2>4
<1>5. (\A j \in DOMAIN ls : \E k \in DOMAIN ms : ls[j] = ms[k]) /\ (\A k \in DOMAIN ms : \E j \in DOMAIN ls : ms[k] = ls[j])
  BY SameBag
<1>6. (\A j \in DOMAIN u : \E k \in DOMAIN w : u[j] = w[k]) /\ (\A k \in DOMAIN w : \E j \in DOMAIN u : w[k] = u[j])
  BY <1>5 DEF LinksOver
<1>7. Len(u) = Len(w)
  <2>1. u = [j \in 1 .. Len(ls) |-> LinkValue(f[ls[j].idx], ls[j].inv)]
    BY <1>1 DEF LinksOver
  <2>2. w = [j \in 1 .. Len(ms) |-> LinkValue(f[ms[j].idx], ms[j].inv)]
    BY <1>1 DEF LinksOver
  <2>3. Len(u) = Len(ls) /\ Len(w) = Len(ms)
    BY <2>1, <2>2, <1>1
  <2>4. CountIn(ls, Range(ls)) = CountIn(ms, Range(ls))
    BY <1>2, <1>3, BagCounts
  <2>5. {j \in DOMAIN ls : ls[j] \in Range(ls)} = DOMAIN ls
    BY DEF Range
  <2>6. {j \in DOMAIN ms : ms[j] \in Range(ls)} = DOMAIN ms
    BY <1>5 DEF Range
  <2> QED BY <2>3, <2>4, <2>5, <2>6, <1>2 DEF CountIn
<1>8. t \in {"BUF", "OUT"} => u[1] = w[1]
  <2>1. SUFFICES ASSUME t \in {"BUF", "OUT"} PROVE u[1] = w[1]
    OBVIOUS
  <2>2. DOMAIN ls = {1} /\ DOMAIN ms = {1}
    BY <2>1 DEF Arity
  <2>3. DOMAIN u = {1} /\ DOMAIN w = {1}
    BY <2>2 DEF LinksOver
  <2> QED BY <2>3, <1>6
<1> HIDE DEF u, w
<1>9. CASE t = "ZERO"
  BY <1>9 DEF GateValue
<1>10. CASE t = "ONE"
  BY <1>10 DEF GateValue
<1>11. CASE t \in {"BUF", "OUT"}
  BY <1>8, <1>11 DEF GateValue
<1>12. CASE t = "AND"
  <2>1. \A v : GateValue(t, v) = {a \in Assignments : \A j \in DOMAIN v : a \in v[j]}
    BY <1>12 DEF GateValue
  <2>2. \A a : (\A j \in DOMAIN u : a \in u[j]) <=> (\A j \in DOMAIN w : a \in w[j])
    BY <1>6
  <2> QED BY <2>1, <2>2 DEF u, w
<1>13. CASE t = "OR"
  <2>1. \A v : GateValue(t, v) = {a \in Assignments : \E j \in DOMAIN v : a \in v[j]}
    BY <1>13 DEF GateValue
  <2>2. \A a : (\E j \in DOMAIN u : a \in u[j]) <=> (\E j \in DOMAIN w : a \in w[j])
    BY <1>6
  <2> QED BY <2>1, <2>2 DEF u, w
<1>14. CASE t = "XOR"
  <2>1. \A v : GateValue(t, v) = {a \in Assignments : Cardinality({j \in DOMAIN v : a \in v[j]}) % 2 = 1}
    BY <1>14 DEF GateValue
  <2>2. \A a : Cardinality({j \in DOMAIN u : a \in u[j]}) % 2 = 1 <=> Cardinality({j \in DOMAIN w : a \in w[j]}) % 2 = 1
    <3> TAKE a
    <3>1. Cardinality({j \in DOMAIN u : a \in u[j]}) = Cardinality({j \in DOMAIN w : a \in w[j]})
      BY <1>4
    <3> QED BY ONLY <3>1, Zenon
  <2>3. GateValue(t, u) = GateValue(t, w)
    <3>1. GateValue(t, u) = {a \in Assignments : Cardinality({j \in DOMAIN u : a \in u[j]}) % 2 = 1}
      BY <2>1
    <3>2. GateValue(t, w) = {a \in Assignments : Cardinality({j \in DOMAIN w : a \in w[j]}) % 2 = 1}
      BY <2>1
    <3> QED BY ONLY <2>2, <3>1, <3>2
  <2> QED BY <2>3 DEF u, w
<1>15. CASE t = "MAJ"
  <2>1. \A v : GateValue(t, v) = {a \in Assignments : Cardinality({j \in DOMAIN v : a \in v[j]}) * 2 > Len(v)}
    BY <1>15 DEF GateValue
  <2>2. \A a : Cardinality({j \in DOMAIN u : a \in u[j]}) * 2 > Len(u) <=> Cardinality({j \in DOMAIN w : a \in w[j]}) * 2 > Len(w)
    <3> TAKE a
    <3>1. Cardinality({j \in DOMAIN u : a \in u[j]}) = Cardinality({j \in DOMAIN w : a \in w[j]})
      BY <1>4
    <3>2. Len(u) = Len(w)
      BY <1>7 DEF u, w
    <3> QED BY ONLY <3>1, <3>2, Zenon
  <2>3. GateValue(t, u) = GateValue(t, w)
    <3>1. GateValue(t, u) = {a \in Assignments : Cardinality({j \in DOMAIN u : a \in u[j]}) * 2 > Len(u)}
      BY <2>1
    <3>2. GateValue(t, w) = {a \in Assignments : Cardinality({j \in DOMAIN w : a \in w[j]}) * 2 > Len(w)}
      BY <2>1
    <3> QED BY ONLY <2>2, <3>1, <3>2
  <2> QED BY <2>3 DEF u, w
<1> QED BY <1>9, <1>10, <1>11, <1>12, <1>13, <1>14, <1>15 DEF CellTypes

-----------------------------------------------------------------------------
(* addCell returns a cell that computes the gate asked for.                *)

\* A value is a set of assignments.
LEMMA ValueType ==
  ASSUME NEW b, NEW p, Net(b, p), NEW k \in Live(b), NEW at, NEW v, v \subseteq Assignments
  PROVE  ValueWith(b, k, at, v) \subseteq Assignments
<1> DEFINE t == b.entries[k].type
           u == InputsWith(b, k, at, v)
<1>1. t \in CellTypes /\ Arity(t, b.entries[k].links)
  BY NetCell
<1>2. t \in {"BUF", "OUT"} => u[1] \subseteq Assignments
  BY <1>1 DEF Arity, InputsWith, LinkValue
<1> HIDE DEF u
<1>3. t # "IN" => GateValue(t, u) \subseteq Assignments
  BY <1>1, <1>2 DEF GateValue, CellTypes
<1>4. k = at => ValueWith(b, k, at, v) = v
  BY ValueUnfold
<1>5. k # at /\ t = "IN" => ValueWith(b, k, at, v) = {a \in Assignments : Rank(b, k) \in a}
  BY ValueUnfold
<1>6. k # at /\ t # "IN" => ValueWith(b, k, at, v) = GateValue(t, u)
  BY ValueUnfold DEF u
<1> HIDE DEF t
<1> QED BY <1>3, <1>4, <1>5, <1>6

\* The values of links, over the values of the live cells.
LEMMA LinkValuesOver ==
  ASSUME NEW b, NEW ls, \A j \in DOMAIN ls : ls[j].idx \in Live(b)
  PROVE  LinkValues(b, ls) = LinksOver([x \in Live(b) |-> Value(b, x)], ls)
BY DEF LinkValues, LinksOver

\* The value of a gate of the network.
LEMMA GateIs ==
  ASSUME NEW b, NEW p, Net(b, p), NEW k \in Live(b), b.entries[k].type # "IN"
  PROVE  Value(b, k) = GateValue(b.entries[k].type, LinkValues(b, b.entries[k].links))
<1>1. k # InvalidID
  BY NetPositions DEF InvalidID
<1>2. ValueWith(b, k, InvalidID, {}) = GateValue(b.entries[k].type, InputsWith(b, k, InvalidID, {}))
  BY <1>1, ValueUnfold
<1>3. InputsWith(b, k, InvalidID, {}) = LinkValues(b, b.entries[k].links)
  BY DEF InputsWith, LinkValues, Value
<1> QED BY <1>2, <1>3 DEF Value

\* addCell returns a cell which computes the gate asked for, found or new.
LEMMA AddedValue ==
  ASSUME NEW b, NEW p, Net(b, p), NEW S, S \subseteq Drivers(b), NEW t, NEW ls, IsGate(t, ls, S), Live(b) # {}
  PROVE  /\ Sound(addCell(b, t, ls).b) /\ Keeps(addCell(b, t, ls).b, b)
         /\ addCell(b, t, ls).idx \in Live(addCell(b, t, ls).b)
         /\ Value(addCell(b, t, ls).b, addCell(b, t, ls).idx) = GateValue(t, LinkValues(b, ls))
<1> DEFINE r == addCell(b, t, ls).b
           n == addCell(b, t, ls).idx
           key == StrashKey(t, ls)
<1>1. t \in CellTypes /\ t \notin {"IN", "OUT"} /\ Arity(t, ls) /\ ls \in Seq(LinkSet(S)) /\ StrashEnabled(t)
  BY DEF IsGate, StrashEnabled
<1>2. Drivers(b) \subseteq Live(b)
  BY DEF Drivers
<1>3. \A j \in DOMAIN ls : ls[j].idx \in Live(b)
  BY <1>1, <1>2, LinkSeq
<1>4. CASE key \in DOMAIN b.strash
  <2>1. Same(r, b, {"log"}) /\ n = b.strash[key]
    BY <1>1, <1>4, AddFound
  <2>2. n \in Live(b) /\ StrashKey(b.entries[n].type, b.entries[n].links) = key
    BY <1>4, <2>1 DEF Net, Core, KeysOf
  <2> HIDE DEF r, n
  <2>3. Net(r, p) /\ Live(r) = Live(b) /\ r.entries = b.entries
    BY <2>1, NetLog
  <2>4. SameOn(r.entries, b.entries, Live(b))
    BY <2>3 DEF SameOn
  <2>5. Keeps(r, b) /\ Sound(r) /\ Sound(b)
    BY <2>3, <2>4, KeptSame DEF Sound
  <2>6. Value(r, n) = Value(b, n)
    BY <2>2, <2>5, KeptValues DEF Value
  <2> DEFINE ms == b.entries[n].links
             f == [x \in Live(b) |-> Value(b, x)]
  <2>7. b.entries[n].type = t
    BY <2>2, SameBag
  <2>8. Value(b, n) = GateValue(t, LinkValues(b, ms))
    BY <2>2, <2>7, <1>1, GateIs
  <2>9. \A j \in DOMAIN ms : ms[j].idx \in Live(b)
    BY <2>2, NetTopo, <1>2
  <2>10. LinkValues(b, ms) = LinksOver(f, ms) /\ LinkValues(b, ls) = LinksOver(f, ls)
    BY <2>9, <1>3, LinkValuesOver
  <2>11. ms \in Seq(LinkSet(DOMAIN b.entries)) /\ Arity(t, ms) /\ StrashKey(t, ls) = StrashKey(t, ms)
    BY <2>2, <2>7, NetCell
  <2> HIDE DEF ms, f
  <2>12. GateValue(t, LinksOver(f, ls)) = GateValue(t, LinksOver(f, ms))
    BY <2>11, <1>1, GateBag
  <2>13. Value(r, n) = GateValue(t, LinkValues(b, ls))
    BY <2>6, <2>8, <2>10, <2>12
  <2>14. n \in Live(r)
    BY <2>2, <2>3
  <2> QED BY <2>5, <2>13, <2>14 DEF r, n
<1>5. CASE key \notin DOMAIN b.strash
  <2>1. ls \in Seq(LinkSet(Drivers(b)))
    BY <1>1, SeqMono
  <2>2. Extended(r, b, p, n, t, ls)
    BY <2>1, <1>1, <1>5, AddNew
  <2> HIDE DEF r, n
  <2>3. PICK q : Net(r, q) /\ SameOrder(q, p, Live(b))
    BY <2>2 DEF Extended
  <2>4. /\ n \notin Live(b) /\ Live(r) = Live(b) \cup {n} /\ r.entries[n].type = t /\ r.entries[n].links = ls
        /\ SameOn(r.entries, b.entries, Live(b))
    BY <2>2 DEF Extended, SameOn
  <2>5. \A x \in Live(r) \ Live(b) : r.entries[x].type \notin {"IN", "OUT"}
    BY <2>4, <1>1
  <2>6. Keeps(r, b) /\ Sound(r) /\ Sound(b)
    BY <2>3, <2>4, <2>5, KeptOrder DEF Sound
  <2>7. \A x \in Live(b) : Value(b, x) = Value(r, x)
    BY <2>6, KeptValues DEF Value
  <2>8. Value(r, n) = GateValue(t, LinkValues(r, ls))
    BY <2>3, <2>4, <1>1, GateIs
  <2>9. LinkValues(r, ls) = LinkValues(b, ls)
    BY <2>7, <1>3 DEF LinkValues
  <2>10. n \in Live(r) /\ Value(r, n) = GateValue(t, LinkValues(b, ls))
    BY <2>4, <2>8, <2>9
  <2> QED BY <2>6, <2>10 DEF r, n
<1> QED BY <1>4, <1>5

-----------------------------------------------------------------------------
(* The values of a replacement subnet.                                     *)

\* The value of entry k of an rhs over the values f.
RhsAt(rhs, vs, f, k) ==
  IF k < rhs.nIn THEN vs[k + 1]
  ELSE GateValue(rhs.cells[k - rhs.nIn + 1].type, LinksOver(f, rhs.cells[k - rhs.nIn + 1].links))

\* f solves the recursive definition of the values of an rhs.
AreRhsValues(rhs, vs, f) == f = [k \in 0 .. RhsOutID(rhs) - 1 |-> RhsAt(rhs, vs, f, k)]

\* A cell of a replacement subnet is a gate over what precedes it.
LEMMA RhsLinks ==
  ASSUME NEW rhs, LegalRhs(rhs), NEW k \in 0 .. RhsOutID(rhs) - 1, ~(k < rhs.nIn)
  PROVE  /\ k - rhs.nIn + 1 \in 1 .. Len(rhs.cells)
         /\ IsGate(rhs.cells[k - rhs.nIn + 1].type, rhs.cells[k - rhs.nIn + 1].links, 0 .. k - 1)
         /\ \A j \in DOMAIN rhs.cells[k - rhs.nIn + 1].links : rhs.cells[k - rhs.nIn + 1].links[j].idx \in 0 .. k - 1
<1> DEFINE m == k - rhs.nIn + 1
<1>1. rhs.nIn \in Nat /\ Len(rhs.cells) \in Nat /\ \A x \in 1 .. Len(rhs.cells) : IsGate(rhs.cells[x].type, rhs.cells[x].links, 0 .. rhs.nIn + x - 2)
  BY DEF LegalRhs
<1>2. m \in 1 .. Len(rhs.cells) /\ rhs.nIn + m - 2 = k - 1
  BY <1>1 DEF RhsOutID
<1>3. IsGate(rhs.cells[m].type, rhs.cells[m].links, 0 .. rhs.nIn + m - 2)
  BY <1>1, <1>2
<1>4. IsGate(rhs.cells[m].type, rhs.cells[m].links, 0 .. k - 1)
  BY <1>2, <1>3
<1>5. rhs.cells[m].links \in Seq(LinkSet(0 .. k - 1))
  BY <1>4 DEF IsGate
<1>6. \A j \in DOMAIN rhs.cells[m].links : rhs.cells[m].links[j].idx \in 0 .. k - 1
  BY <1>5, LinkSeq
<1> QED BY <1>2, <1>4, <1>6

\* The value of an rhs entry depends on what precedes it only.
LEMMA RhsLocal ==
  ASSUME NEW rhs, LegalRhs(rhs), NEW k \in 0 .. RhsOutID(rhs) - 1, NEW vs, NEW f,
         NEW g, \A x \in 0 .. k - 1 : f[x] = g[x]
  PROVE  RhsAt(rhs, vs, f, k) = RhsAt(rhs, vs, g, k)
<1>1. CASE k < rhs.nIn
  BY <1>1 DEF RhsAt
<1>2. CASE ~(k < rhs.nIn)
  <2> DEFINE ls == rhs.cells[k - rhs.nIn + 1].links
  <2>1. \A j \in DOMAIN ls : ls[j].idx \in 0 .. k - 1
    BY <1>2, RhsLinks
  <2> HIDE DEF ls
  <2>2. LinksOver(f, ls) = LinksOver(g, ls)
    BY <2>1 DEF LinksOver
  <2> QED BY <2>2, <1>2 DEF RhsAt, ls
<1> QED BY <1>1, <1>2

\* The recursive definition of the rhs values has a solution.
LEMMA RhsValuesExist ==
  ASSUME NEW rhs, LegalRhs(rhs), NEW vs
  PROVE  \E f : AreRhsValues(rhs, vs, f)
<1> DEFINE N == RhsOutID(rhs)
           D == 0 .. N - 1
           Right(g, m) == \A k \in D : k < m => g[k] = RhsAt(rhs, vs, g, k)
           G == {m \in 0 .. N : \E g : Right(g, m)}
<1>1. N \in Nat
  BY DEF LegalRhs, RhsOutID
<1>2. 0 \in G
  <2>1. Right(<< >>, 0)
    BY <1>1
  <2> QED BY <2>1, <1>1
<1>3. ASSUME NEW m \in 0 .. N - 1, m \in G PROVE m + 1 \in G
  <2>1. PICK g : Right(g, m)
    BY <1>3
  <2> DEFINE h == [k \in D |-> RhsAt(rhs, vs, g, k)]
  <2>2. ASSUME NEW k \in D, k < m + 1 PROVE h[k] = RhsAt(rhs, vs, h, k)
    <3>1. ASSUME NEW x \in 0 .. k - 1 PROVE g[x] = h[x]
      <4>1. x \in D /\ x < m
        BY <1>1, <2>2
      <4> QED BY <4>1, <2>1
    <3>2. h[k] = RhsAt(rhs, vs, g, k)
      OBVIOUS
    <3> HIDE DEF h
    <3>3. RhsAt(rhs, vs, g, k) = RhsAt(rhs, vs, h, k)
      BY <3>1, RhsLocal
    <3> QED BY <3>2, <3>3
  <2>3. Right(h, m + 1)
    BY <2>2
  <2> HIDE DEF Right
  <2> QED BY <2>3, <1>1
<1>4. N \in G
  <2>1. N \in 0 .. N
    BY <1>1
  <2> HIDE DEF G, N
  <2> QED BY <2>1, <1>1, <1>2, <1>3, IntervalInduction
<1>5. PICK g : Right(g, N)
  BY <1>4
<1> DEFINE f == [k \in D |-> RhsAt(rhs, vs, g, k)]
<1>6. \A k \in D : g[k] = f[k]
  BY <1>1, <1>5
<1>7. ASSUME NEW k \in D PROVE RhsAt(rhs, vs, g, k) = RhsAt(rhs, vs, f, k)
  <2>1. \A x \in 0 .. k - 1 : g[x] = f[x]
    BY <1>1, <1>6
  <2> HIDE DEF f
  <2> QED BY <2>1, RhsLocal
<1>8. f = [k \in D |-> RhsAt(rhs, vs, f, k)]
  BY <1>7
<1> HIDE DEF f
<1>9. AreRhsValues(rhs, vs, f)
  BY <1>8 DEF AreRhsValues
<1> QED BY <1>9

\* The value of an entry of an rhs.
LEMMA RhsUnfold ==
  ASSUME NEW rhs, LegalRhs(rhs), NEW vs
  PROVE  \E f : /\ \A k \in 0 .. RhsOutID(rhs) - 1 : f[k] = RhsAt(rhs, vs, f, k)
                /\ \A k : RhsValue(rhs, vs, k) = f[k]
<1> DEFINE cell(k) == rhs.cells[k - rhs.nIn + 1]
           IsF(g) == g = [k \in 0 .. RhsOutID(rhs) - 1 |->
                            IF k < rhs.nIn THEN vs[k + 1]
                            ELSE GateValue(cell(k).type, [j \in DOMAIN cell(k).links |->
                                   LinkValue(g[cell(k).links[j].idx], cell(k).links[j].inv)])]
           f == CHOOSE g : IsF(g)
<1>1. \A k : RhsValue(rhs, vs, k) = f[k]
  BY DEF RhsValue
<1>2. \A g : AreRhsValues(rhs, vs, g) <=> IsF(g)
  BY DEF AreRhsValues, RhsAt, LinksOver
<1>3. \E g : IsF(g)
  BY <1>2, RhsValuesExist
<1>4. IsF(f)
  <2> HIDE DEF IsF
  <2> QED BY <1>3
<1> HIDE DEF f, IsF
<1>5. AreRhsValues(rhs, vs, f)
  BY <1>2, <1>4
<1>6. \A k \in 0 .. RhsOutID(rhs) - 1 : f[k] = RhsAt(rhs, vs, f, k)
  BY <1>5 DEF AreRhsValues
<1> QED BY <1>1, <1>6

-----------------------------------------------------------------------------
(* The steps of replace.                                                   *)

\* k gates have been added for the cells of the rhs, and compute their values h; the cells of b
\* are still there.
Valued(s, b, t, root, S, k, n, h) ==
  /\ Adding(s, t, root, S, k, n)
  /\ Keeps(s.b, b)
  /\ \A x \in 0 .. n + k - 1 : Value(s.b, s.m[x]) = h[x]

\* The links of an rhs cell have the values of the lhs cells to which they are mapped.
LEMMA MappedValues ==
  ASSUME NEW b, NEW m, NEW h, NEW ls, \A j \in DOMAIN ls : Value(b, m[ls[j].idx]) = h[ls[j].idx]
  PROVE  LinkValues(b, MapLinks(m, ls)) = LinksOver(h, ls)
BY DEF LinkValues, MapLinks, LinksOver, Link

\* A callback changes no value.
LEMMA DoneKeeps ==
  ASSUME NEW b, Sound(b), NEW c, Same(c, b, {"log"})
  PROVE  Sound(c) /\ Keeps(c, b)
<1>1. PICK p : Net(b, p)
  BY DEF Sound
<1>2. Net(c, p) /\ Live(c) = Live(b) /\ c.entries = b.entries
  BY <1>1, NetLog
<1>3. SameOn(c.entries, b.entries, Live(b))
  BY <1>2 DEF SameOn
<1> QED BY <1>1, <1>2, <1>3, KeptSame DEF Sound

\* What the cells added so far may be linked to.
LEMMA OpenedFacts ==
  ASSUME NEW b, NEW i, NEW S, Opened(b, i, S)
  PROVE  /\ Sound(b) /\ S \subseteq Drivers(b) /\ S \subseteq Live(b) /\ Live(b) # {} /\ i \in Drivers(b)
         /\ \E p : Net(b, p)
BY DEF Opened, Sound, AwayFrom, Drivers

\* One rhs cell more is mapped to a cell, found or new, that computes its value.
LEMMA ValuedStep ==
  ASSUME NEW s, NEW b, NEW t, NEW root, NEW S, NEW k \in Nat, NEW n \in Nat, NEW h, Valued(s, b, t, root, S, k, n, h),
         NEW u, NEW ls, IsGate(u, ls, 0 .. n + k - 1), h[n + k] = GateValue(u, LinksOver(h, ls)),
         NEW hit \in BOOLEAN, NEW oldDepth
  PROVE  \E S2 : Valued(CellAdded(s, n + k, addCell(s.b, u, MapLinks(s.m, ls)), hit, oldDepth), b, t, root, S2, k + 1, n, h)
<1> DEFINE ms == MapLinks(s.m, ls)
           a == addCell(s.b, u, ms)
           r == CellAdded(s, n + k, a, hit, oldDepth)
           c == CellDone(a.b, a.idx, a.b.nCell > s.b.nCell, oldDepth)
<1>1. Adding(s, t, root, S, k, n) /\ Keeps(s.b, b) /\ \A x \in 0 .. n + k - 1 : Value(s.b, s.m[x]) = h[x]
  BY DEF Valued
<1>2. PICK S2 : Adding(r, t, root, S2, k + 1, n)
  BY <1>1, AddStep
<1>3. Opened(s.b, root, S) /\ \A x \in 0 .. n + k - 1 : s.m[x] \in S
  BY <1>1 DEF Adding
<1>4. IsGate(u, ms, S)
  BY <1>3, MappedGate
<1>5. Sound(s.b) /\ S \subseteq Drivers(s.b) /\ S \subseteq Live(s.b) /\ Live(s.b) # {} /\ \E p : Net(s.b, p)
  BY <1>3, OpenedFacts
<1>6. \A j \in DOMAIN ls : ls[j].idx \in 0 .. n + k - 1
  <2>1. ls \in Seq(LinkSet(0 .. n + k - 1))
    BY DEF IsGate
  <2> QED BY <2>1, LinkSeq
<1>7. LinkValues(s.b, ms) = LinksOver(h, ls)
  <2>1. \A j \in DOMAIN ls : Value(s.b, s.m[ls[j].idx]) = h[ls[j].idx]
    BY <1>1, <1>6
  <2> QED BY <2>1, MappedValues
<1>8. r.b = c /\ r.m = MapTo(s.m, n + k, a.idx)
  BY DEF CellAdded
<1> HIDE DEF ms, r
<1>9. Sound(a.b) /\ Keeps(a.b, s.b) /\ a.idx \in Live(a.b) /\ Value(a.b, a.idx) = GateValue(u, LinkValues(s.b, ms))
  BY <1>4, <1>5, AddedValue
<1>10. Sound(c) /\ Keeps(c, a.b)
  <2>1. Same(c, a.b, {"log"})
    BY <1>9, SoundRec, DoneSame
  <2> HIDE DEF a, c
  <2> QED BY <2>1, <1>9, DoneKeeps
<1> HIDE DEF a, c
<1>11. Keeps(c, s.b) /\ Keeps(c, b)
  BY <1>1, <1>9, <1>10, KeptTrans
<1>12. \A x \in Live(s.b) : Value(c, x) = Value(s.b, x)
  BY <1>5, <1>10, <1>11, KeptValues DEF Value
<1>13. Value(c, a.idx) = h[n + k]
  BY <1>7, <1>9, <1>10, KeptValues DEF Value
<1>14. ASSUME NEW x \in 0 .. n + k PROVE Value(c, r.m[x]) = h[x]
  <2>1. CASE x = n + k
    BY <2>1, <1>8, <1>13 DEF MapTo
  <2>2. CASE x # n + k
    <3>1. x \in 0 .. n + k - 1
      BY <2>2
    <3>2. s.m[x] \in S /\ x \in DOMAIN s.m
      BY <3>1, <1>1 DEF Adding
    <3>3. r.m[x] = s.m[x]
      BY <3>2, <2>2, <1>8 DEF MapTo
    <3>4. Value(c, s.m[x]) = Value(s.b, s.m[x])
      BY <3>2, <1>5, <1>12
    <3> QED BY <3>1, <3>3, <3>4, <1>1
  <2> QED BY <2>1, <2>2
<1>15. n + (k + 1) - 1 = n + k
  OBVIOUS
<1>16. Valued(r, b, t, root, S2, k + 1, n, h)
  BY <1>2, <1>8, <1>11, <1>14, <1>15 DEF Valued
<1> QED BY <1>16 DEF r, a, ms

\* The outputs of r compute what they compute in b if the root computes v.
Rerouted(r, b, root, v) == Sound(r) /\ Outputs(r) = OutputsWith(b, root, v)

\* The root becomes a gate over the cells added: the outputs compute what the root computes now.
LEMMA RootStep ==
  ASSUME NEW s, NEW b, NEW t, NEW root, NEW S, NEW k \in Nat, NEW n \in Nat, NEW h, NEW u, NEW ls, NEW D,
         Valued(s, b, t, root, S, k, n, h), IsGate(u, ls, D), D = 0 .. n + k - 1, Sound(b), t # "IN"
  PROVE  Rerouted(replaceCell(s.b, root, u, MapLinks(s.m, ls), TRUE), b, root, GateValue(u, LinksOver(h, ls)))
<1> DEFINE ms == MapLinks(s.m, ls)
           r == replaceCell(s.b, root, u, ms, TRUE)
<1>1. Adding(s, t, root, S, k, n) /\ Keeps(s.b, b) /\ \A x \in 0 .. n + k - 1 : Value(s.b, s.m[x]) = h[x]
  BY DEF Valued
<1>2. Opened(s.b, root, S) /\ s.b.entries[root].type # "IN" /\ \A x \in 0 .. n + k - 1 : s.m[x] \in S
  BY <1>1 DEF Adding
<1>3. IsGate(u, ms, S)
  BY <1>2, MappedGate
<1>4. PICK p : Net(s.b, p)
  BY <1>2, OpenedFacts
<1>5. \A j \in DOMAIN ls : ls[j].idx \in 0 .. n + k - 1
  <2>1. ls \in Seq(LinkSet(0 .. n + k - 1))
    BY DEF IsGate
  <2> QED BY <2>1, LinkSeq
<1>6. LinkValues(s.b, ms) = LinksOver(h, ls)
  <2>1. \A j \in DOMAIN ls : Value(s.b, s.m[ls[j].idx]) = h[ls[j].idx]
    BY <1>1, <1>5
  <2> QED BY <2>1, MappedValues
<1> HIDE DEF ms
<1>7. MayReplace(s.b, root, u, ms, S)
  BY <1>2, <1>3 DEF MayReplace, Opened, IsGate
<1>8. Replaced(r, s.b, p, root, u, ms)
  BY <1>4, <1>7, ReplaceCellNet
<1> HIDE DEF r
<1>9. Outputs(r) = OutputsWith(s.b, root, GateValue(u, LinksOver(h, ls)))
  BY <1>4, <1>6, <1>7, <1>8, ReplacedOutputs
<1>10. OutputsWith(b, root, GateValue(u, LinksOver(h, ls))) = OutputsWith(s.b, root, GateValue(u, LinksOver(h, ls)))
  BY <1>1, <1>4, KeptOutputs DEF Sound
<1>11. Sound(r)
  BY <1>8 DEF Replaced, Sound
<1> QED BY <1>9, <1>10, <1>11 DEF r, ms, Rerouted

\* A gate computes a set of assignments.
LEMMA GateType ==
  ASSUME NEW t, NEW D, NEW ls, IsGate(t, ls, D), NEW f
  PROVE  GateValue(t, LinksOver(f, ls)) \subseteq Assignments
<1> DEFINE u == LinksOver(f, ls)
<1>1. t \in CellTypes \ {"IN", "OUT"} /\ Arity(t, ls)
  BY DEF IsGate
<1>2. t = "BUF" => u[1] \subseteq Assignments
  BY <1>1 DEF Arity, LinksOver, LinkValue
<1> HIDE DEF u
<1>3. GateValue(t, u) \subseteq Assignments
  BY <1>1, <1>2 DEF GateValue, CellTypes
<1> QED BY <1>3 DEF u

\* A link without inversion has the value of its cell.
LEMMA PlainLink ==
  ASSUME NEW v, v \subseteq Assignments
  PROVE  LinkValue(v, FALSE) = v
<1> SUFFICES ASSUME NEW a \in Assignments PROVE ((a \in v) # FALSE) <=> a \in v
  BY DEF LinkValue
<1>1. CASE a \in v
  <2>1. (a \in v) # FALSE
    BY <1>1
  <2> QED BY <1>1, <2>1
<1>2. CASE a \notin v
  <2>1. (a \in v) = FALSE
    BY <1>2
  <2> QED BY <1>2, <2>1
<1> QED BY <1>1, <1>2

\* If the root computes v, the replacement is finished.
Finished(s, b, i, v) == s.found = FALSE /\ Outputs(s.b) = OutputsWith(b, i, v)

\* The outcome of one rhs cell, the k-th from 0: the root computes its value, or one more entry is mapped.
Outcome(r, b, t, i, k, n, h, out) ==
  \/ out.idx = n + k /\ ~out.inv /\ Finished(r, b, i, h[n + k])
  \/ /\ \E S2 : Valued(r, b, t, i, S2, k + 1, n, h)
     /\ IF out.idx = n + k /\ ~out.inv THEN r.found = TRUE ELSE r.found = FALSE

\* One rhs cell.
LEMMA ReplaceOneStep ==
  ASSUME NEW s, NEW b, NEW t, NEW i, NEW S, NEW k, NEW n, NEW h, NEW c, NEW D, NEW x, NEW out, NEW oldDepth,
         k \in Nat, n \in Nat, Sound(b), t # "IN", Valued(s, b, t, i, S, k, n, h), s.found = FALSE, D = 0 .. n + k - 1, x = n + k,
         IsGate(c.type, c.links, D), h[x] = GateValue(c.type, LinksOver(h, c.links)), out.inv \in BOOLEAN
  PROVE  Outcome(ReplaceStep(s, x, c, i, out, FALSE, oldDepth), b, t, i, k, n, h, out)
<1> DEFINE ms == MapLinks(s.m, c.links)
           isRoot == out.idx = n + k /\ ~out.inv
           found == StrashFind(s.b, StrashKey(c.type, ms)) # InvalidID
           r == CellAdded(s, n + k, addCell(s.b, c.type, ms), isRoot, oldDepth)
           s2 == ReplaceStep(s, n + k, c, i, out, FALSE, oldDepth)
<1>0. IsGate(c.type, c.links, 0 .. n + k - 1) /\ h[n + k] = GateValue(c.type, LinksOver(h, c.links))
  OBVIOUS
<1> SUFFICES Outcome(s2, b, t, i, k, n, h, out)
  OBVIOUS
<1>1. DOMAIN s = {"b", "m", "found"}
  BY DEF Valued, Adding
<1>2. CASE isRoot /\ ~found
  <2> DEFINE d == replaceCell(s.b, i, c.type, ms, TRUE)
             e == CellDone(d, i, FALSE, oldDepth)
  <2>1. s2.b = e /\ s2.found = s.found
    BY <1>1, <1>2 DEF ReplaceStep
  <2>2. Sound(d) /\ Outputs(d) = OutputsWith(b, i, GateValue(c.type, LinksOver(h, c.links)))
    <3> DEFINE u == c.type
               ls == c.links
    <3>1. IsGate(u, ls, D) /\ D = 0 .. n + k - 1 /\ Valued(s, b, t, i, S, k, n, h) /\ Sound(b) /\ t # "IN" /\ k \in Nat /\ n \in Nat
      OBVIOUS
    <3> HIDE DEF u, ls
    <3>2. Rerouted(replaceCell(s.b, i, u, MapLinks(s.m, ls), TRUE), b, i, GateValue(u, LinksOver(h, ls)))
      BY ONLY <3>1, RootStep
    <3> QED BY <3>2 DEF u, ls, Rerouted
  <2> HIDE DEF ms, s2
  <2>3. Same(e, d, {"log"})
    <3> HIDE DEF d
    <3> QED BY <2>2, SoundRec, DoneSame
  <2> HIDE DEF d, e
  <2>4. Sound(e) /\ Keeps(e, d)
    BY <2>2, <2>3, DoneKeeps
  <2>5. Outputs(e) = Outputs(d)
    BY <2>2, <2>4, KeptOutputs DEF Outputs
  <2>6. Finished(s2, b, i, h[n + k])
    BY <2>1, <2>2, <2>5 DEF Finished
  <2> QED BY <2>6, <1>2 DEF Outcome
<1>3. CASE ~(isRoot /\ ~found)
  <2>1. s2 = r
    BY <1>3 DEF ReplaceStep
  <2>2. isRoot \in BOOLEAN
    OBVIOUS
  <2>3. r.found = (s.found \/ isRoot)
    BY DEF CellAdded
  <2>5. \E S2 : Valued(r, b, t, i, S2, k + 1, n, h)
    <3> DEFINE u == c.type
               ls == c.links
    <3>1. IsGate(u, ls, 0 .. n + k - 1) /\ h[n + k] = GateValue(u, LinksOver(h, ls))
      BY <1>0
    <3> HIDE DEF isRoot, u, ls
    <3>2. \E S2 : Valued(CellAdded(s, n + k, addCell(s.b, u, MapLinks(s.m, ls)), isRoot, oldDepth), b, t, i, S2, k + 1, n, h)
      BY <3>1, <2>2, ValuedStep
    <3> QED BY <3>2 DEF u, ls, Rerouted
  <2>6. IF isRoot THEN s2.found = TRUE ELSE s2.found = FALSE
    <3> HIDE DEF isRoot, r, s2
    <3>1. CASE isRoot
      BY <2>1, <2>3, <3>1, Zenon
    <3>2. CASE ~isRoot
      BY <2>1, <2>3, <3>2, Zenon
    <3> QED BY <3>1, <3>2
  <2> HIDE DEF r, s2
  <2> QED BY <2>1, <2>5, <2>6 DEF Outcome
<1> QED BY <1>2, <1>3

\* A cell that computes what it computed.
LEMMA SameValue ==
  ASSUME NEW b, NEW p, Net(b, p), NEW i \in Live(b)
  PROVE  OutputsWith(b, i, Value(b, i)) = Outputs(b)
<1> DEFINE v == Value(b, i)
           K == Live(b)
<1>1. InvalidID \notin K
  BY NetPositions DEF InvalidID
<1>2. \A k \in K : \A j \in DOMAIN b.entries[k].links : b.entries[k].links[j].idx \in K
  BY NetTopo DEF Drivers
<1>3. ValueWith(b, i, i, v) = v
  BY ValueUnfold
<1>4. v = ValueWith(b, i, InvalidID, {})
  BY DEF Value
<1> HIDE DEF v
<1>5. ASSUME NEW x \in K PROVE Alike(b, i, b, InvalidID, K, x) \/ ValueWith(b, x, i, v) = ValueWith(b, x, InvalidID, {})
  BY <1>1, <1>2, <1>3, <1>4 DEF Alike
<1> HIDE DEF K
<1>6. \A x \in K : ValueWith(b, x, i, v) = ValueWith(b, x, InvalidID, {})
  <2>1. K \subseteq Live(b)
    BY DEF K
  <2> QED BY <2>1, <1>5, ValuesAgree
<1>7. SameEnds(b, b)
  BY DEF SameEnds
<1>8. OutputsWith(b, i, v) = OutputsWith(b, InvalidID, {})
  BY <1>6, <1>7, SameOutputs DEF K
<1> QED BY <1>8 DEF Outputs, v

\* h holds the values of the entries of the rhs for the values of the cells ins.
RhsSolved(h, b, rhs, ins) ==
  /\ \A k \in 0 .. RhsOutID(rhs) - 1 : h[k] = RhsAt(rhs, [x \in DOMAIN ins |-> Value(b, ins[x])], h, k)
  /\ RhsOutValue(rhs, [x \in DOMAIN ins |-> Value(b, ins[x])]) = LinkValue(h[rhs.out.idx], rhs.out.inv)

\* Values of the rhs entries for the values of the lhs inputs.
LEMMA RhsSolution ==
  ASSUME NEW b, NEW rhs, LegalRhs(rhs), NEW ins
  PROVE  \E h : RhsSolved(h, b, rhs, ins)
<1> DEFINE vs == [x \in DOMAIN ins |-> Value(b, ins[x])]
<1>1. PICK h : /\ \A k \in 0 .. RhsOutID(rhs) - 1 : h[k] = RhsAt(rhs, vs, h, k)
               /\ \A k : RhsValue(rhs, vs, k) = h[k]
  <2> HIDE DEF vs
  <2> QED BY RhsUnfold
<1>2. RhsOutValue(rhs, vs) = LinkValue(h[rhs.out.idx], rhs.out.inv)
  BY <1>1 DEF RhsOutValue
<1>3. RhsSolved(h, b, rhs, ins)
  BY <1>1, <1>2 DEF RhsSolved
<1> QED BY <1>3

\* Before the first rhs cell.
LEMMA ValuedStart ==
  ASSUME NEW b, NEW p, Net(b, p), NEW i \in Drivers(b), NEW S, AwayFrom(b, i, S), NEW rhs, LegalRhs(rhs),
         NEW ins \in [1 .. rhs.nIn -> S],
         NEW h, RhsSolved(h, b, rhs, ins), NEW s, s = Start(b, rhs, ins, i)
  PROVE  Valued(s, b, b.entries[i].type, i, S, 0, rhs.nIn, h) /\ s.found = FALSE
<1> DEFINE n == rhs.nIn
           d == destrashEntry(b, i)
<1>1. n \in Nat /\ n > 0 /\ Len(rhs.cells) \in Nat
  BY DEF LegalRhs
<1>2. ins[1] # i
  BY <1>1 DEF AwayFrom
<1>3. Opened(d, i, S) /\ d.entries = b.entries /\ Net(d, p) /\ Live(d) = Live(b)
  BY DestrashOpens
<1>4. s = [b |-> d, m |-> fillMapping(rhs, ins, i), found |-> FALSE]
  BY <1>2 DEF Start
<1> HIDE DEF d
<1>5. ASSUME NEW x \in 0 .. n - 1 PROVE fillMapping(rhs, ins, i)[x] = ins[x + 1] /\ x \in DOMAIN fillMapping(rhs, ins, i) /\ x + 1 \in 1 .. n
  <2>1. x \in 0 .. n - 1 /\ x # RhsOutID(rhs) /\ x + 1 \in 1 .. n
    BY <1>1 DEF RhsOutID
  <2> QED BY <2>1 DEF fillMapping
<1>6. DOMAIN s = {"b", "m", "found"} /\ s.b = d /\ s.m = fillMapping(rhs, ins, i) /\ s.found = FALSE
  BY <1>4
<1>7. n + 0 - 1 = n - 1
  BY <1>1
<1>8. \A x \in 0 .. n - 1 : s.m[x] \in S /\ x \in DOMAIN s.m
  BY <1>5, <1>6
<1>9. Adding(s, b.entries[i].type, i, S, 0, n)
  BY <1>3, <1>6, <1>7, <1>8 DEF Adding
<1>10. SameOn(d.entries, b.entries, Live(b))
  BY <1>3 DEF SameOn
<1>11. Keeps(d, b) /\ Sound(b) /\ Sound(d)
  BY <1>3, <1>10, KeptSame DEF Sound
<1>12. \A x \in S : Value(d, x) = Value(b, x)
  BY <1>11, KeptValues DEF Value, AwayFrom, Drivers
<1>13. ASSUME NEW x \in 0 .. n - 1 PROVE Value(s.b, s.m[x]) = h[x]
  <2>1. x + 1 \in DOMAIN ins /\ ins[x + 1] \in S /\ s.m[x] = ins[x + 1]
    BY <1>5, <1>6
  <2>2. x < rhs.nIn /\ x \in 0 .. RhsOutID(rhs) - 1
    BY <1>1 DEF RhsOutID
  <2>3. h[x] = Value(b, ins[x + 1])
    <3> DEFINE vs == [y \in DOMAIN ins |-> Value(b, ins[y])]
    <3>1. vs[x + 1] = Value(b, ins[x + 1])
      BY <2>1
    <3> HIDE DEF vs
    <3>2. \A y : y < rhs.nIn => RhsAt(rhs, vs, h, y) = vs[y + 1]
      BY DEF RhsAt
    <3>3. \A y \in 0 .. RhsOutID(rhs) - 1 : h[y] = RhsAt(rhs, vs, h, y)
      BY DEF RhsSolved, vs
    <3> QED BY <2>2, <3>1, <3>2, <3>3
  <2> QED BY <2>1, <2>3, <1>6, <1>12
<1>14. Valued(s, b, b.entries[i].type, i, S, 0, n, h)
  BY <1>6, <1>7, <1>9, <1>11, <1>13 DEF Valued
<1> QED BY <1>6, <1>14

\* The value of an rhs gate.
LEMMA RhsGate ==
  ASSUME NEW b, NEW rhs, LegalRhs(rhs), NEW ins, NEW h, RhsSolved(h, b, rhs, ins), NEW k \in 1 .. Len(rhs.cells)
  PROVE  /\ IsGate(rhs.cells[k].type, rhs.cells[k].links, 0 .. rhs.nIn + (k - 1) - 1)
         /\ h[rhs.nIn + (k - 1)] = GateValue(rhs.cells[k].type, LinksOver(h, rhs.cells[k].links))
<1> DEFINE x == rhs.nIn + (k - 1)
<1>1. rhs.nIn \in Nat /\ Len(rhs.cells) \in Nat
  BY DEF LegalRhs
<1>2. x \in 0 .. RhsOutID(rhs) - 1 /\ ~(x < rhs.nIn) /\ x - rhs.nIn + 1 = k
  BY <1>1 DEF RhsOutID
<1> HIDE DEF x
<1>3. IsGate(rhs.cells[k].type, rhs.cells[k].links, 0 .. x - 1)
  BY <1>2, RhsLinks
<1>4. h[x] = GateValue(rhs.cells[k].type, LinksOver(h, rhs.cells[k].links))
  BY <1>2 DEF RhsSolved, RhsAt
<1>5. IsGate(rhs.cells[k].type, rhs.cells[k].links, 0 .. rhs.nIn + (k - 1) - 1)
  <2>1. 0 .. x - 1 = 0 .. rhs.nIn + (k - 1) - 1
    BY <1>1 DEF x
  <2> QED BY <1>3, <2>1
<1>6. h[rhs.nIn + (k - 1)] = GateValue(rhs.cells[k].type, LinksOver(h, rhs.cells[k].links))
  BY <1>4 DEF x
<1> QED BY <1>5, <1>6

\* After k rhs cells: all are there, and the last is marked if it should have become the root,
\* or it has become the root.
Progress(s, b, i, k, rhs, h) ==
  \/ /\ \E V : Valued(s, b, b.entries[i].type, i, V, k, rhs.nIn, h)
     /\ IF k > 0 /\ rhs.out.idx = rhs.nIn + k - 1 /\ ~rhs.out.inv THEN s.found = TRUE ELSE s.found = FALSE
  \/ k > 0 /\ rhs.out.idx = rhs.nIn + k - 1 /\ ~rhs.out.inv /\ Finished(s, b, i, h[rhs.out.idx])

\* One step of replace: one rhs cell more is mapped, or the root computes the rhs output.
LEMMA ProgressStep ==
  ASSUME NEW b, Sound(b), NEW i, b.entries[i].type # "IN", NEW rhs, LegalRhs(rhs), NEW ins,
         NEW h, RhsSolved(h, b, rhs, ins),
         NEW k \in 0 .. Len(rhs.cells) - 1, NEW s, Progress(s, b, i, k, rhs, h), NEW oldDepth
  PROVE  Progress(ReplaceStep(s, rhs.nIn + k, rhs.cells[k + 1], i, rhs.out, FALSE, oldDepth), b, i, k + 1, rhs, h)
<1> DEFINE n == rhs.nIn
           N == Len(rhs.cells)
           c == rhs.cells[k + 1]
           t == b.entries[i].type
           r == ReplaceStep(s, n + k, c, i, rhs.out, FALSE, oldDepth)
<1>1. n \in Nat /\ n > 0 /\ N \in Nat /\ rhs.out.inv \in BOOLEAN /\ rhs.out.idx \in 0 .. n - 1 \cup {n + N - 1}
  BY DEF LegalRhs
<1>2. k \in Nat /\ k + 1 \in 1 .. N /\ (k + 1) - 1 = k /\ n + (k + 1) - 1 = n + k /\ k + 1 > 0
  BY <1>1
<1>3. ~(k > 0 /\ rhs.out.idx = n + k - 1)
  BY <1>1, <1>2
<1>4. IsGate(c.type, c.links, 0 .. n + k - 1) /\ h[n + k] = GateValue(c.type, LinksOver(h, c.links))
  <2> DEFINE m == k + 1
  <2>1. /\ IsGate(rhs.cells[m].type, rhs.cells[m].links, 0 .. n + (m - 1) - 1)
        /\ h[n + (m - 1)] = GateValue(rhs.cells[m].type, LinksOver(h, rhs.cells[m].links))
    <3>1. m \in 1 .. N
      BY <1>2
    <3> HIDE DEF m
    <3> QED BY <3>1, RhsGate
  <2>2. m - 1 = k
    BY <1>2
  <2> HIDE DEF m
  <2>3. /\ IsGate(rhs.cells[m].type, rhs.cells[m].links, 0 .. n + k - 1)
        /\ h[n + k] = GateValue(rhs.cells[m].type, LinksOver(h, rhs.cells[m].links))
    BY <2>1, <2>2
  <2> QED BY <2>3 DEF m
<1>5. PICK V : Valued(s, b, t, i, V, k, n, h) /\ s.found = FALSE
  BY <1>3 DEF Progress
<1> HIDE DEF c, t
<1>6. Outcome(r, b, t, i, k, n, h, rhs.out)
  <2> DEFINE out == rhs.out
             D == 0 .. n + k - 1
             x == n + k
  <2>1. /\ Sound(b) /\ t # "IN" /\ k \in Nat /\ n \in Nat /\ Valued(s, b, t, i, V, k, n, h) /\ s.found = FALSE
        /\ D = 0 .. n + k - 1 /\ x = n + k
        /\ IsGate(c.type, c.links, D) /\ h[x] = GateValue(c.type, LinksOver(h, c.links)) /\ out.inv \in BOOLEAN
    BY <1>1, <1>2, <1>4, <1>5 DEF t
  <2> HIDE DEF out, n, D, x
  <2>2. Outcome(ReplaceStep(s, x, c, i, out, FALSE, oldDepth), b, t, i, k, n, h, out)
    BY ONLY <2>1, ReplaceOneStep
  <2> QED BY <2>2 DEF out, x, n
<1> HIDE DEF r
<1>7. CASE rhs.out.idx = n + k /\ ~rhs.out.inv /\ Finished(r, b, i, h[n + k])
  <2>1. h[n + k] = h[rhs.out.idx] /\ rhs.out.idx = n + (k + 1) - 1
    BY <1>2, <1>7
  <2>2. Finished(r, b, i, h[rhs.out.idx])
    BY <1>7, <2>1
  <2>3. Progress(r, b, i, k + 1, rhs, h)
    BY <1>2, <1>7, <2>1, <2>2 DEF Progress
  <2> QED BY <2>3 DEF r, c
<1>8. CASE /\ \E S2 : Valued(r, b, t, i, S2, k + 1, n, h)
           /\ IF rhs.out.idx = n + k /\ ~rhs.out.inv THEN r.found = TRUE ELSE r.found = FALSE
  <2>1. Progress(r, b, i, k + 1, rhs, h)
    BY <1>2, <1>8 DEF Progress, t
  <2> QED BY <2>1 DEF r, c
<1> QED BY <1>6, <1>7, <1>8 DEF r, c, Outcome

-----------------------------------------------------------------------------
(* replace redefines the root.                                             *)

\* The steps of a replacement, one rhs cell after the other.
LEMMA AllProgress ==
  ASSUME NEW b, NEW p, Net(b, p), NEW i \in Drivers(b), b.entries[i].type # "IN", NEW S, AwayFrom(b, i, S),
         NEW rhs, LegalRhs(rhs),
         NEW ins \in [1 .. rhs.nIn -> S], NEW h, RhsSolved(h, b, rhs, ins),
         NEW step, IsReplacing(step, b, rhs, ins, i)
  PROVE  Progress(step[Len(rhs.cells)], b, i, Len(rhs.cells), rhs, h)
<1> DEFINE N == Len(rhs.cells)
           G == {k \in 0 .. N : Progress(step[k], b, i, k, rhs, h)}
<1>1. N \in Nat /\ rhs.nIn \in Nat
  BY DEF LegalRhs
<1>2. 0 \in G
  <2>1. step[0] = Start(b, rhs, ins, i)
    BY DEF IsReplacing
  <2>2. Valued(step[0], b, b.entries[i].type, i, S, 0, rhs.nIn, h) /\ step[0].found = FALSE
    BY <2>1, ValuedStart
  <2>3. Progress(step[0], b, i, 0, rhs, h)
    BY <2>2 DEF Progress
  <2> QED BY <2>3, <1>1
<1>3. ASSUME NEW k \in 0 .. N - 1, k \in G PROVE k + 1 \in G
  <2>1. k + 1 \in 1 .. N /\ k + 1 \in 0 .. N /\ (k + 1) - 1 = k /\ rhs.nIn + (k + 1) - 1 = rhs.nIn + k
    BY <1>1
  <2>2. step[k + 1] = ReplaceStep(step[k], rhs.nIn + k, rhs.cells[k + 1], i, rhs.out, FALSE, b.depth[i])
    <3> DEFINE m == k + 1
    <3>1. step[m] = ReplaceStep(step[m - 1], rhs.nIn + m - 1, rhs.cells[m], i, rhs.out, FALSE, b.depth[i])
      BY <2>1 DEF IsReplacing
    <3>2. m - 1 = k /\ rhs.nIn + m - 1 = rhs.nIn + k
      BY <2>1
    <3> HIDE DEF m
    <3>3. step[m] = ReplaceStep(step[k], rhs.nIn + k, rhs.cells[m], i, rhs.out, FALSE, b.depth[i])
      BY <3>1, <3>2
    <3> QED BY <3>3 DEF m
  <2>3. Progress(step[k], b, i, k, rhs, h) /\ Sound(b) /\ k \in 0 .. Len(rhs.cells) - 1
    BY <1>3 DEF Sound
  <2>4. Progress(step[k + 1], b, i, k + 1, rhs, h)
    <3> DEFINE s == step[k]
               o == b.depth[i]
    <3> HIDE DEF s, o
    <3>1. Progress(s, b, i, k, rhs, h) /\ Sound(b) /\ k \in 0 .. Len(rhs.cells) - 1
      BY <2>3 DEF s
    <3>2. Progress(ReplaceStep(s, rhs.nIn + k, rhs.cells[k + 1], i, rhs.out, FALSE, o), b, i, k + 1, rhs, h)
      BY <3>1, ProgressStep
    <3> QED BY <3>2, <2>2 DEF s, o
  <2> QED BY <2>1, <2>4
<1>4. \A k \in 0 .. N : k \in G
  <2> HIDE DEF G, N
  <2> QED BY <1>1, <1>2, <1>3, IntervalInduction
<1> QED BY <1>1, <1>4

\* The outputs compute v in place of the root once it is a buffer over the rhs output.
BuffersTo(s, b, i, out, v) ==
  Outputs(replaceCell(s.b, i, "BUF", <<Link(s.m[out.idx], out.inv)>>, TRUE)) = OutputsWith(b, i, v)

\* The buffer that addBuffer makes of the root computes the mapped output.
LEMMA Buffered ==
  ASSUME NEW s, NEW b, NEW t, NEW i, NEW S, NEW k, NEW n, NEW h, NEW out, NEW D,
         k \in Nat, n \in Nat, Valued(s, b, t, i, S, k, n, h), Sound(b), t # "IN", D = 0 .. n + k - 1, out.idx \in D, out.inv \in BOOLEAN
  PROVE  BuffersTo(s, b, i, out, LinkValue(h[out.idx], out.inv))
<1> DEFINE l == Link(out.idx, out.inv)
           ls == <<l>>
           u == "BUF"
<1>1. l \in LinkSet(D) /\ l.idx = out.idx /\ l.inv = out.inv
  BY DEF Link, LinkSet
<1>2. IsGate(u, ls, D)
  <2>1. ls \in Seq(LinkSet(D)) /\ DOMAIN ls = {1}
    <3> HIDE DEF l
    <3> QED BY <1>1
  <2> HIDE DEF ls
  <2> QED BY <2>1 DEF IsGate, Arity, CellTypes
<1>3. GateValue(u, LinksOver(h, ls)) = LinkValue(h[out.idx], out.inv)
  <2>1. LinksOver(h, ls) = <<LinkValue(h[out.idx], out.inv)>>
    <3> HIDE DEF l
    <3>1. DOMAIN ls = {1} /\ ls[1] = l
      OBVIOUS
    <3> HIDE DEF ls
    <3> QED BY <1>1, <3>1 DEF LinksOver
  <2> HIDE DEF ls
  <2> QED BY <2>1 DEF GateValue
<1>4. MapLinks(s.m, ls) = <<Link(s.m[out.idx], out.inv)>>
  <2> HIDE DEF l
  <2>1. DOMAIN ls = {1} /\ ls[1] = l
    OBVIOUS
  <2> HIDE DEF ls
  <2> QED BY <1>1, <2>1 DEF MapLinks
<1> HIDE DEF ls, u
<1>5. Rerouted(replaceCell(s.b, i, u, MapLinks(s.m, ls), TRUE), b, i, GateValue(u, LinksOver(h, ls)))
  BY <1>2, RootStep
<1> QED BY <1>3, <1>4, <1>5 DEF Rerouted, u, BuffersTo

\* The value of an inner cell of the rhs.
LEMMA RhsInner ==
  ASSUME NEW b, NEW rhs, LegalRhs(rhs), NEW ins, NEW h, RhsSolved(h, b, rhs, ins), Len(rhs.cells) > 0,
         rhs.out.idx = rhs.nIn + Len(rhs.cells) - 1, rhs.out.inv = FALSE
  PROVE  LinkValue(h[rhs.out.idx], rhs.out.inv) = h[rhs.out.idx]
<1> DEFINE k == Len(rhs.cells)
           D == 0 .. rhs.nIn + (k - 1) - 1
<1>1. k \in 1 .. Len(rhs.cells) /\ rhs.nIn + (k - 1) = rhs.out.idx
  BY DEF LegalRhs
<1> HIDE DEF k
<1>2. /\ IsGate(rhs.cells[k].type, rhs.cells[k].links, D)
      /\ h[rhs.out.idx] = GateValue(rhs.cells[k].type, LinksOver(h, rhs.cells[k].links))
  BY <1>1, RhsGate
<1>3. h[rhs.out.idx] \subseteq Assignments
  <2> HIDE DEF D
  <2> QED BY <1>2, GateType
<1> QED BY <1>3, PlainLink

\* What a replacement does to the outputs.
LEMMA ReplaceOutputs ==
  ASSUME NEW b, NEW p, Net(b, p), NEW i \in Drivers(b), b.entries[i].type # "IN", NEW rhs, LegalRhs(rhs), NEW ins,
         LegalIns(b, i, rhs, ins)
  PROVE  Outputs(replace(b, rhs, ins, i)) = OutputsWith(b, i, RhsOutValue(rhs, [k \in DOMAIN ins |-> Value(b, ins[k])]))
<1> DEFINE n == rhs.nIn
           N == Len(rhs.cells)
           t == b.entries[i].type
           v == RhsOutValue(rhs, [k \in DOMAIN ins |-> Value(b, ins[k])])
<1>1. n \in Nat /\ n > 0 /\ N \in Nat /\ rhs.out.inv \in BOOLEAN /\ rhs.out.idx \in 0 .. n - 1 \cup {n + N - 1}
  BY DEF LegalRhs
<1>2. b.entries[i].type # "OUT" /\ i \in Live(b)
  BY DEF Drivers
<1>3. PICK step : IsReplacing(step, b, rhs, ins, i)
  BY <1>1, <1>2, ReplaceRun
<1>4. replace(b, rhs, ins, i) = AddBuffer(step[N], rhs, i, rhs.out, ins[1] = i)
  BY <1>3 DEF IsReplacing
<1>5. PICK h : RhsSolved(h, b, rhs, ins)
  BY RhsSolution
<1>6. v = LinkValue(h[rhs.out.idx], rhs.out.inv)
  BY <1>5 DEF RhsSolved
<1>7. CASE ins = <<i>> /\ rhs.nIn = 1 /\ rhs.cells = << >> /\ ~rhs.out.inv
  <2>1. N = 0 /\ rhs.out.idx = 0 /\ rhs.out.inv = FALSE /\ RhsOutID(rhs) = 1
    BY <1>1, <1>7 DEF RhsOutID
  <2>2. step[0].b = b /\ step[0].found = FALSE
    BY <1>3, <1>7 DEF IsReplacing, Start
  <2>3. replace(b, rhs, ins, i) = b
    BY <2>1, <2>2, <1>4, <1>7 DEF AddBuffer
  <2>4. h[0] = Value(b, i)
    <3>1. DOMAIN ins = {1} /\ ins[1] = i
      BY <1>7
    <3> DEFINE vs == [x \in DOMAIN ins |-> Value(b, ins[x])]
    <3>2. vs[0 + 1] = Value(b, i)
      BY <3>1
    <3> HIDE DEF vs
    <3>3. h[0] = RhsAt(rhs, vs, h, 0)
      BY <1>5, <2>1 DEF RhsSolved, vs
    <3> QED BY <3>2, <3>3, <1>1 DEF RhsAt
  <2>5. v = Value(b, i)
    <3>1. Value(b, i) \subseteq Assignments
      BY <1>2, ValueType DEF Value
    <3> QED BY <3>1, <2>1, <2>4, <1>6, PlainLink
  <2> HIDE DEF v
  <2>6. Outputs(b) = OutputsWith(b, i, Value(b, i))
    BY <1>2, SameValue
  <2> QED BY <2>3, <2>5, <2>6 DEF v
<1>8. CASE \E S : AwayFrom(b, i, S) /\ ins \in [1 .. rhs.nIn -> S]
  <2>1. PICK S : AwayFrom(b, i, S) /\ ins \in [1 .. rhs.nIn -> S]
    BY <1>8
  <2>2. ins[1] # i
    BY <2>1, <1>1 DEF AwayFrom
  <2>3. Progress(step[N], b, i, N, rhs, h)
    BY <2>1, <1>3, <1>5, AllProgress
  <2> DEFINE s == step[N]
  <2> HIDE DEF v
  <2>4. CASE /\ \E V : Valued(s, b, t, i, V, N, n, h)
             /\ IF N > 0 /\ rhs.out.idx = n + N - 1 /\ ~rhs.out.inv THEN s.found = TRUE ELSE s.found = FALSE
    <3>1. PICK V : Valued(s, b, t, i, V, N, n, h)
      BY <2>4
    <3>2. (rhs.out.idx < n /\ ins[1] # i) \/ rhs.out.inv \/ s.found
      <4>1. CASE rhs.out.idx < n
        BY <4>1, <2>2
      <4>2. CASE ~(rhs.out.idx < n)
        <5>1. N > 0 /\ rhs.out.idx = n + N - 1
          BY <4>2, <1>1
        <5> QED BY <5>1, <2>4
      <4> QED BY <4>1, <4>2
    <3>3. replace(b, rhs, ins, i) = replaceCell(s.b, i, "BUF", <<Link(s.m[rhs.out.idx], rhs.out.inv)>>, TRUE)
      BY <3>2, <1>4 DEF AddBuffer
    <3>4. Outputs(replaceCell(s.b, i, "BUF", <<Link(s.m[rhs.out.idx], rhs.out.inv)>>, TRUE)) = OutputsWith(b, i, LinkValue(h[rhs.out.idx], rhs.out.inv))
      <4> DEFINE out == rhs.out
                 D == 0 .. n + N - 1
      <4>1. out.idx \in D
        BY <1>1
      <4>2. out.inv \in BOOLEAN /\ Sound(b) /\ t # "IN" /\ D = 0 .. n + N - 1 /\ N \in Nat /\ n \in Nat
        BY <1>1 DEF Sound
      <4> HIDE DEF s, t, n, N, out, D
      <4>3. BuffersTo(s, b, i, out, LinkValue(h[out.idx], out.inv))
        BY ONLY <4>1, <4>2, <3>1, Buffered
      <4> QED BY <4>3 DEF out, s, BuffersTo
    <3> QED BY <3>3, <3>4, <1>6 DEF v
  <2>5. CASE N > 0 /\ rhs.out.idx = n + N - 1 /\ ~rhs.out.inv /\ Finished(s, b, i, h[rhs.out.idx])
    <3>1. ~(rhs.out.idx < n) /\ rhs.out.inv = FALSE
      BY <2>5, <1>1
    <3>2. s.found = FALSE /\ Outputs(s.b) = OutputsWith(b, i, h[rhs.out.idx])
      BY <2>5 DEF Finished
    <3>3. replace(b, rhs, ins, i) = s.b
      BY <3>1, <3>2, <1>4 DEF AddBuffer
    <3>4. LinkValue(h[rhs.out.idx], rhs.out.inv) = h[rhs.out.idx]
      BY <3>1, <2>5, <1>5, RhsInner
    <3> QED BY <3>2, <3>3, <3>4, <1>6 DEF v
  <2> QED BY <2>3, <2>4, <2>5 DEF Progress
<1> QED BY <1>7, <1>8 DEF LegalIns

-----------------------------------------------------------------------------
(* The calls.                                                              *)

\* Keeps preserves the outputs.
LEMMA KeepsOutputs ==
  ASSUME NEW b, NEW r, Sound(b), Sound(r), Keeps(r, b)
  PROVE  Outputs(r) = Outputs(b)
BY KeptOutputs DEF Outputs

\* Emptying the log changes no output.
LEMMA QuietOutputs ==
  ASSUME NEW b, Sound(b)
  PROVE  Outputs(Quiet(b)) = Outputs(b)
<1>1. Same(Quiet(b), b, {"log"})
  BY SoundRec DEF Quiet, Same, IsRec, EmptyBuilder
<1> QED BY <1>1, DoneKeeps, KeepsOutputs

\* replaceCell changes the outputs as if the cell had been redefined.
LEMMA ReplaceCellValues ==
  ASSUME Sound(sb), ReplaceCell
  PROVE  Outputs(sb') = spec'
<1>1. PICK c \in ReplaceCellCalls(sb), del \in BOOLEAN :
        /\ sb' = Quiet(replaceCell(sb, c.root, c.type, c.links, del))
        /\ spec' = OutputsWith(sb, c.root, GateValue(c.type, LinkValues(sb, c.links)))
  BY DEF ReplaceCell
<1>2. PICK p : Net(sb, p)
  BY DEF Sound
<1>3. MayReplace(sb, c.root, c.type, c.links, Before(sb, c.root))
  BY <1>1, ReplaceCellCall
<1> DEFINE r == replaceCell(sb, c.root, c.type, c.links, del)
<1>4. Replaced(r, sb, p, c.root, c.type, c.links)
  BY <1>2, <1>3, ReplaceCellNet
<1>5. Sound(r)
  BY <1>4 DEF Replaced, Sound
<1> HIDE DEF r
<1>6. Outputs(r) = OutputsWith(sb, c.root, GateValue(c.type, LinkValues(sb, c.links)))
  BY <1>2, <1>3, <1>4, ReplacedOutputs
<1>7. Outputs(Quiet(r)) = Outputs(r)
  BY <1>5, QuietOutputs
<1> QED BY <1>1, <1>6, <1>7 DEF r

\* replace changes the outputs as if the root had been redefined as the rhs output.
LEMMA ReplaceValues ==
  ASSUME Sound(sb), "OUT" \notin Roots, Replace
  PROVE  Outputs(sb') = spec'
<1>1. PICK c \in ReplaceCalls(sb) :
        /\ sb' = Quiet(replace(sb, c.rhs, c.ins, c.root))
        /\ spec' = OutputsWith(sb, c.root, RhsOutValue(c.rhs, [k \in DOMAIN c.ins |-> Value(sb, c.ins[k])]))
  BY DEF Replace
<1>2. PICK p : Net(sb, p)
  BY DEF Sound
<1>3. /\ c.root \in Drivers(sb) /\ sb.entries[c.root].type # "IN"
      /\ LegalRhs(c.rhs) /\ LegalIns(sb, c.root, c.rhs, c.ins)
  BY <1>1, ReplaceCall
<1> DEFINE r == replace(sb, c.rhs, c.ins, c.root)
<1>4. Sound(r)
  BY <1>2, <1>3, ReplaceNet
<1>5. Outputs(r) = OutputsWith(sb, c.root, RhsOutValue(c.rhs, [k \in DOMAIN c.ins |-> Value(sb, c.ins[k])]))
  BY <1>2, <1>3, ReplaceOutputs
<1> HIDE DEF r
<1>6. Outputs(Quiet(r)) = Outputs(r)
  BY <1>4, QuietOutputs
<1> QED BY <1>1, <1>5, <1>6 DEF r

\* Fanouts do not change the outputs.
LEMMA ToggledValues ==
  ASSUME Sound(sb), EnableFanouts \/ DisableFanouts
  PROVE  Outputs(sb') = Outputs(sb) /\ spec' = spec
<1>1. PICK p : Net(sb, p)
  BY DEF Sound
<1>2. IsRec(sb)
  BY SoundRec
<1>3. Net(sb', p) /\ Same(sb', sb, {"fanouts", "fanoutsEnabled"})
  <2>1. CASE EnableFanouts
    <3>1. ~sb.fanoutsEnabled /\ sb' = enableFanouts(sb)
      BY <2>1 DEF EnableFanouts
    <3>2. Same(enableFanouts(sb), sb, {"fanouts", "fanoutsEnabled"})
      BY <1>2 DEF enableFanouts, Same, IsRec, EmptyBuilder
    <3> QED BY <1>1, <3>1, <3>2, EnableNet
  <2>2. CASE DisableFanouts
    <3>1. sb' = disableFanouts(sb)
      BY <2>2 DEF DisableFanouts
    <3>2. Same(disableFanouts(sb), sb, {"fanouts", "fanoutsEnabled"})
      BY <1>2 DEF disableFanouts, Same, IsRec, EmptyBuilder
    <3> QED BY <1>1, <3>1, <3>2, DisableNet
  <2> QED BY <2>1, <2>2
<1>4. \A r : Net(r, p) /\ Same(r, sb, {"fanouts", "fanoutsEnabled"}) => Keeps(r, sb) /\ Sound(r)
  <2>1. SUFFICES ASSUME NEW r, Net(r, p), Same(r, sb, {"fanouts", "fanoutsEnabled"}) PROVE Keeps(r, sb) /\ Sound(r)
    OBVIOUS
  <2>2. r.entries = sb.entries /\ r.depth = sb.depth
    BY <1>2, <2>1 DEF Same, IsRec, EmptyBuilder
  <2>3. Live(r) = Live(sb) /\ SameOn(r.entries, sb.entries, Live(sb))
    BY <2>2 DEF Live, SameOn
  <2> QED BY <1>1, <2>1, <2>3, KeptSame DEF Sound
<1>5. Keeps(sb', sb) /\ Sound(sb')
  BY <1>3, <1>4
<1> QED BY <1>5, KeepsOutputs DEF EnableFanouts, DisableFanouts

\* The inductive invariant with the outputs.
ValuesInv == BuilderInv /\ (~made => ReplaceSound)

\* Every call keeps the invariant.
LEMMA ValuesNext ==
  ASSUME ~LateInput, "OUT" \notin Roots, ValuesInv, [Next]_vars
  PROVE  ValuesInv'
<1>1. BuilderInv'
  BY NextInv DEF ValuesInv
<1>2. ~made => Sound(sb) /\ Outputs(sb) = spec
  BY DEF ValuesInv, BuilderInv, ReplaceSound
<1>3. ~made' => Outputs(sb') = spec'
  <2>1. CASE AddInput \/ AddOutput \/ AddGate
    BY <2>1 DEF AddInput, AddOutput, AddGate, Add
  <2>2. CASE ReplaceCell
    BY <1>2, <2>2, ReplaceCellValues DEF ReplaceCell
  <2>3. CASE Replace
    BY <1>2, <2>3, ReplaceValues DEF Replace
  <2>4. CASE EnableFanouts \/ DisableFanouts
    BY <1>2, <2>4, ToggledValues DEF EnableFanouts, DisableFanouts
  <2>5. CASE Make
    BY <2>5 DEF Make
  <2>6. CASE UNCHANGED vars
    BY <1>2, <2>6 DEF vars
  <2> QED BY <2>1, <2>2, <2>3, <2>4, <2>5, <2>6 DEF Next
<1> QED BY <1>1, <1>3 DEF ValuesInv, ReplaceSound

\* Until a subnet is made, every replaceCell and every replace changes the outputs exactly
\* as if its root had been redefined as the new function of its inputs, whatever cells the
\* hash finds, the call moves and deleteCell removes, and no later call changes them: for
\* every network, every fragment and every sequence of calls.  (An addition starts from
\* the outputs it leaves.)  The hypotheses leave out what the runs show to break it: cells
\* added before the first input, and outputs as roots of replace.
THEOREM ReplacedSoundly ==
  ASSUME ~LateInput, "OUT" \notin Roots
  PROVE  Spec => [](~made => ReplaceSound)
<1>1. Init => ValuesInv
  BY InitInv DEF Init, ValuesInv, ReplaceSound
<1>2. ValuesInv /\ [Next]_vars => ValuesInv'
  BY ValuesNext
<1>3. ValuesInv => (~made => ReplaceSound)
  BY DEF ValuesInv
<1> QED BY <1>1, <1>2, <1>3, PTL DEF Spec
=============================================================================
