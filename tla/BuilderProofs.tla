--------------------------- MODULE BuilderProofs ----------------------------
(***************************************************************************)
(* SubnetBuilder keeps its network, its order, its depths, its counters,   *)
(* its fanouts and its hash in agreement under every sequence of calls,    *)
(* for every network, every fragment and every choice of cells.            *)
(*                                                                         *)
(* The inductive invariant is Sound: some numbering p of the live cells is *)
(* their order, depths grow along it, bounds, counters, fanout lists and   *)
(* keys are those of the cells (Net). replaceCell is followed through the  *)
(* states in which it breaks this: the new links are counted before the    *)
(* old ones are dropped (Rewiring, Dropped), the cell is rewritten at its  *)
(* old place (Put), and the cells above it are moved one after the other   *)
(* (Walking), where the counter of the walk must be the number of links to *)
(* moved cells that are still ahead.                                       *)
(***************************************************************************)
EXTENDS NetworkProofs, BuilderCalls

-----------------------------------------------------------------------------
(* What moving a cell keeps.                                               *)

\* g renames the tokens X to V.
Renaming(g, X, T, V, T2) == Matches(g, X, V) /\ \A x \in X : T2[g[x]] = T[x] /\ g[x][1] = x[1]

\* Renaming tokens keeps their numbers.
LEMMA RenamedTo ==
  ASSUME NEW X, IsFiniteSet(X), NEW T, NEW V, NEW T2, NEW g, Renaming(g, X, T, V, T2)
  PROVE  /\ IsFiniteSet(V)
         /\ \A s : Cardinality(To(V, T2, s)) = Cardinality(To(X, T, s))
         /\ \A k, s : Cardinality(From(V, T2, k, s)) = Cardinality(From(X, T, k, s))
<1>1. IsFiniteSet(V)
  BY SameCardinality DEF Renaming
<1>2. ASSUME NEW s PROVE Cardinality(To(V, T2, s)) = Cardinality(To(X, T, s))
  <2>1. Matches(g, To(X, T, s), To(V, T2, s))
    BY DEF Renaming, Matches, To
  <2>2. IsFiniteSet(To(X, T, s))
    BY TokensFinite
  <2> QED BY <2>1, <2>2, SameCardinality
<1>3. ASSUME NEW k, NEW s PROVE Cardinality(From(V, T2, k, s)) = Cardinality(From(X, T, k, s))
  <2>1. Matches(g, From(X, T, k, s), From(V, T2, k, s))
    BY DEF Renaming, Matches, From
  <2>2. IsFiniteSet(From(X, T, k, s))
    BY TokensFinite
  <2> QED BY <2>1, <2>2, SameCardinality
<1> QED BY <1>1, <1>2, <1>3

\* Counters and fanouts do not depend on the names of the tokens.
LEMMA RefsRenamed ==
  ASSUME NEW e, NEW D, NEW X, NEW T, Refs(e, D, X, T), NEW V, NEW T2, NEW g, Renaming(g, X, T, V, T2), NEW en,
         NEW f, Fan(en, f, X, T)
  PROVE  Refs(e, D, V, T2) /\ Fan(en, f, V, T2)
<1>1. IsFiniteSet(X)
  BY DEF Refs
<1>2. /\ IsFiniteSet(V)
      /\ \A s : Cardinality(To(V, T2, s)) = Cardinality(To(X, T, s))
      /\ \A k, s : Cardinality(From(V, T2, k, s)) = Cardinality(From(X, T, k, s))
  BY <1>1, RenamedTo
<1>3. \A w \in V : T2[w] \in D
  BY DEF Refs, Renaming, Matches
<1>4. Refs(e, D, V, T2)
  BY <1>2, <1>3 DEF Refs
<1>5. Fan(en, f, V, T2)
  BY <1>2 DEF Fan
<1> QED BY <1>4, <1>5

\* The builder without its order and its depths.
Body(b) ==
  /\ CellsOK(b.entries) /\ DepthsOK(b.depth, DOMAIN b.entries)
  /\ FreeOf(b.empty, DOMAIN b.entries, Live(b))
  /\ KeysOf(b.strash, b.entries, Live(b))
  /\ Refs(b.entries, Drivers(b), Wires(b), Targets(b))
  /\ Fan(b.fanoutsEnabled, b.fanouts, Wires(b), Targets(b))
  /\ Counts(b, 0)
  /\ b.fault = FALSE
  /\ Arities(b.entries, Live(b))

\* A network is a body with an order and exact depths.
LEMMA NetBody ==
  ASSUME NEW b, NEW p
  PROVE  Net(b, p) <=> Body(b) /\ Ordered(b, Live(b), p) /\ ExactOn(b, Live(b))
BY DEF Net, Core, Body

\* What the moves of cells change.
MoveFields == BoundFields \cup {"depth", "log"}

\* The builder r is b with other positions and depths.
Moved(r, b) ==
  /\ Same(r, b, MoveFields) /\ DOMAIN r.depth = DOMAIN b.entries
  /\ \A x \in Live(b) : r.depth[x] \in Nat
  /\ \A x \in DOMAIN b.entries \ Live(b) : r.depth[x] = b.depth[x]

\* What moving cells keeps.
LEMMA MovedFields ==
  ASSUME NEW b, IsRec(b), NEW r, Moved(r, b)
  PROVE  /\ IsRec(r) /\ r.entries = b.entries /\ r.empty = b.empty /\ r.strash = b.strash /\ r.fanouts = b.fanouts
         /\ r.fanoutsEnabled = b.fanoutsEnabled /\ r.fault = b.fault
         /\ r.nCell = b.nCell /\ r.nBuf = b.nBuf /\ r.nIn = b.nIn /\ r.nOut = b.nOut
         /\ Live(r) = Live(b) /\ Drivers(r) = Drivers(b)
<1>1. /\ IsRec(r) /\ r.entries = b.entries /\ r.empty = b.empty /\ r.strash = b.strash /\ r.fanouts = b.fanouts
      /\ r.fanoutsEnabled = b.fanoutsEnabled /\ r.fault = b.fault
      /\ r.nCell = b.nCell /\ r.nBuf = b.nBuf /\ r.nIn = b.nIn /\ r.nOut = b.nOut
  BY DEF Moved, Same, MoveFields, BoundFields, OrderFields, IsRec, EmptyBuilder
<1>2. Live(r) = Live(b)
  BY <1>1 DEF Moved, Live, InvalidDepth
<1> QED BY <1>1, <1>2 DEF Drivers

\* Moving cells keeps the body.
LEMMA MovedBody ==
  ASSUME NEW b, IsRec(b), Body(b), NEW r, Moved(r, b)
  PROVE  Body(r)
<1>1. /\ r.entries = b.entries /\ r.empty = b.empty /\ r.strash = b.strash /\ r.fanouts = b.fanouts
      /\ r.fanoutsEnabled = b.fanoutsEnabled /\ r.fault = b.fault
      /\ r.nCell = b.nCell /\ r.nBuf = b.nBuf /\ r.nIn = b.nIn /\ r.nOut = b.nOut
      /\ Live(r) = Live(b) /\ Drivers(r) = Drivers(b)
  BY MovedFields
<1>2. Wires(r) = Wires(b) /\ Targets(r) = Targets(b)
  BY <1>1, WiresSame
<1>3. DepthsOK(r.depth, DOMAIN r.entries)
  BY <1>1 DEF Body, DepthsOK, Moved
<1>4. Counts(r, 0)
  BY <1>1 DEF Body, Counts
<1> QED BY <1>1, <1>2, <1>3, <1>4 DEF Body

\* Moving twice.
LEMMA MovedTrans ==
  ASSUME NEW a, NEW b, NEW c, IsRec(a), Moved(b, a), Moved(c, b)
  PROVE  Moved(c, a)
<1>1. Live(b) = Live(a) /\ b.entries = a.entries
  BY MovedFields
<1>2. Same(c, a, MoveFields)
  BY DEF Moved, Same
<1> QED BY <1>1, <1>2 DEF Moved

-----------------------------------------------------------------------------
(* replaceCell: links, counters and fanouts.                               *)

\* What a cell adds to the counter of buffers.
Bit(t) == IF t = "BUF" THEN 1 ELSE 0

\* A set of drivers other than i with everything they depend on.
AwayFrom(b, i, S) ==
  /\ S \subseteq Drivers(b) /\ i \notin S
  /\ \A x \in S : \A j \in DOMAIN b.entries[x].links : b.entries[x].links[j].idx \in S

\* Cell i may be replaced by a cell of type t with the links ls, which lead to S.
MayReplace(b, i, t, ls, S) ==
  /\ i \in Drivers(b) /\ b.entries[i].type # "IN"
  /\ t \in CellTypes \ {"IN", "OUT"} /\ Arity(t, ls)
  /\ AwayFrom(b, i, S) /\ ls \in Seq(LinkSet(S))

\* The builder b without the key of cell i, and with the counter of the buffers it will have.
Unkeyed(b, i, t) ==
  [destrashEntry(b, i) EXCEPT
     !.nBuf = @ - (IF b.entries[i].type = "BUF" THEN 1 ELSE 0) + (IF t = "BUF" THEN 1 ELSE 0)]

\* replaceCell takes the key of cell i out of the hash and counts buffers in advance.
LEMMA ReplaceStart ==
  ASSUME NEW b, NEW p, Net(b, p), NEW i, NEW t, NEW a, a = Unkeyed(b, i, t)
  PROVE  /\ Core(a, Wires(b), Targets(b), p, Bit(t) - Bit(b.entries[i].type))
         /\ Same(a, b, {"strash", "nBuf"}) /\ KeysOf(a.strash, b.entries, Live(b) \ {i}) /\ KeysWithin(a.strash, b.strash)
<1> DEFINE c == destrashEntry(b, i)
           L == Live(b)
           m == b.nBuf - Bit(b.entries[i].type) + Bit(t)
           z == Bit(t) - Bit(b.entries[i].type)
<1>1. Core(b, Wires(b), Targets(b), p, 0)
  BY DEF Net
<1>2. IsRec(b) /\ L \subseteq DOMAIN b.entries /\ IsFiniteSet(L)
  BY <1>1, CoreFacts
<1>3. Same(c, b, {"strash"}) /\ KeysOf(c.strash, b.entries, L \ {i}) /\ KeysWithin(c.strash, b.strash)
  BY <1>1, <1>2, Destrash DEF Core
<1>4. IsRec(c) /\ c.nBuf = b.nBuf
  BY <1>2, <1>3 DEF Same, IsRec, EmptyBuilder
<1>5. a = [c EXCEPT !.nBuf = m]
  BY <1>4 DEF Unkeyed, Bit
<1> HIDE DEF c, m
<1>6. Same(a, c, {"nBuf"}) /\ a.nBuf = m /\ a.strash = c.strash
  BY <1>4, <1>5 DEF Same, IsRec, EmptyBuilder
<1>7. Same(a, b, {"strash", "nBuf"})
  BY <1>3, <1>6 DEF Same
<1>8. /\ IsRec(a) /\ a.entries = b.entries /\ a.prev = b.prev /\ a.next = b.next /\ a.begin = b.begin /\ a.end = b.end
      /\ a.depth = b.depth /\ a.depthBounds = b.depthBounds /\ a.empty = b.empty /\ a.fanouts = b.fanouts
      /\ a.fanoutsEnabled = b.fanoutsEnabled /\ a.nCell = b.nCell /\ a.nIn = b.nIn /\ a.nOut = b.nOut /\ a.fault = b.fault
  BY <1>2, <1>7 DEF Same, IsRec, EmptyBuilder
<1>9. Live(a) = L /\ Drivers(a) = Drivers(b)
  BY <1>8 DEF Live, Drivers
<1>10. Ordered(a, L, p)
  <2>1. SameCells(a.entries, b.entries)
    BY <1>8 DEF SameCells
  <2>2. Ordered(b, L, p)
    BY <1>1 DEF Core
  <2> QED BY <2>1, <2>2, <1>8, OrderedSame
<1>11. KeysOf(a.strash, a.entries, L)
  BY <1>3, <1>6, <1>8 DEF KeysOf
<1>12. Counts(a, z)
  <2>1. Counts(b, 0)
    BY <1>1 DEF Core
  <2>2. Num(b.entries, L, "BUF") \in Nat
    BY <1>2, NumType
  <2>3. b.nBuf = Num(b.entries, L, "BUF") + 0
    BY <2>1 DEF Counts
  <2>4. Bit(t) \in Int /\ Bit(b.entries[i].type) \in Int
    BY DEF Bit
  <2>5. a.nBuf = Num(b.entries, L, "BUF") + z
    BY <2>2, <2>3, <2>4, <1>6 DEF m
  <2> QED BY <2>1, <2>5, <1>8, <1>9 DEF Counts
<1>13. Core(a, Wires(b), Targets(b), p, z)
  BY <1>1, <1>8, <1>9, <1>10, <1>11, <1>12 DEF Core
<1> QED BY <1>3, <1>6, <1>7, <1>13

\* The tokens after the new links have been added to the old ones: <<i, -j>> is the new link j.
NewToken(i, ls) == [j \in DOMAIN ls |-> <<i, -j>>]

\* The tokens of the old links and of the new ones.
BothWires(b, i, ls) == Wires(b) \cup {NewToken(i, ls)[j] : j \in DOMAIN ls}

\* Where the old links and the new ones lead.
BothTargets(b, i, ls) == [w \in BothWires(b, i, ls) |-> IF w \in Wires(b) THEN WireTo(b, w) ELSE ls[-w[2]].idx]

\* The tokens V are W and the new links ls of cell i.
NewTokensOf(V, T2, W, i, ls) ==
  /\ \A w \in V : w \in W \/ \E j \in DOMAIN ls : w = <<i, -j>>
  /\ \A j \in DOMAIN ls : <<i, -j>> \in V /\ <<i, -j>> \notin W /\ T2[<<i, -j>>] = ls[j].idx

\* The new links have tokens of their own.
LEMMA BothTokens ==
  ASSUME NEW b, NEW p, Net(b, p), NEW i, NEW D, NEW ls \in Seq(LinkSet(D))
  PROVE  /\ Tokens(BothWires(b, i, ls), BothTargets(b, i, ls), Wires(b), Targets(b), NewToken(i, ls), i, ls)
         /\ NewTokensOf(BothWires(b, i, ls), BothTargets(b, i, ls), Wires(b), i, ls)
<1> DEFINE g == NewToken(i, ls)
           V == BothWires(b, i, ls)
           T2 == BothTargets(b, i, ls)
<1>1. DOMAIN ls \subseteq Nat \ {0} /\ \A j \in DOMAIN ls : -(-j) = j
  BY LinkSeq
<1>2. \A j \in DOMAIN ls : g[j] = <<i, -j>>
  BY DEF NewToken
<1>3. \A w \in Wires(b) : w[1] \in Live(b) /\ w[2] \in Nat
  <2> TAKE w \in Wires(b)
  <2>1. PICK k \in Live(b) : \E j \in DOMAIN b.entries[k].links : w = <<k, j>>
    BY DEF Wires
  <2>2. PICK j \in DOMAIN b.entries[k].links : w = <<k, j>>
    BY <2>1
  <2>3. CellsOK(b.entries) /\ k \in DOMAIN b.entries
    BY DEF Net, Core, Live
  <2>4. DOMAIN b.entries[k].links = 1 .. Len(b.entries[k].links)
    BY <2>3, LinksOf
  <2> QED BY <2>2, <2>4
<1>4. \A j \in DOMAIN ls : g[j] \notin Wires(b)
  <2> SUFFICES ASSUME NEW j \in DOMAIN ls, g[j] \in Wires(b) PROVE FALSE
    OBVIOUS
  <2>1. g[j][2] \in Nat /\ g[j][2] = -j
    BY <1>2, <1>3
  <2> QED BY <2>1, <1>1
<1>5. \A j, m \in DOMAIN ls : g[j] = g[m] => j = m
  <2> TAKE j, m \in DOMAIN ls
  <2> HAVE g[j] = g[m]
  <2>1. -j = -m
    BY <1>2
  <2> QED BY <2>1, <1>1
<1>6. V = Wires(b) \cup {g[j] : j \in DOMAIN ls}
  BY DEF BothWires
<1>7. \A j \in DOMAIN ls : T2[g[j]] = ls[j].idx
  <2> TAKE j \in DOMAIN ls
  <2>1. g[j] \in V /\ g[j] \notin Wires(b) /\ g[j] = <<i, -j>>
    BY <1>2, <1>4, <1>6
  <2>2. T2[g[j]] = ls[-g[j][2]].idx
    BY <2>1 DEF BothTargets
  <2>3. g[j][2] = -j
    BY <2>1
  <2> QED BY <2>2, <2>3, <1>1
<1>8. \A w \in Wires(b) : T2[w] = Targets(b)[w]
  <2>1. \A w \in Wires(b) : w \in V
    BY <1>6
  <2> QED BY <2>1 DEF BothTargets, Targets
<1>9. \A j \in DOMAIN ls : g[j][1] = i
  BY <1>2
<1> HIDE DEF g, V, T2
<1>10. Tokens(V, T2, Wires(b), Targets(b), g, i, ls)
  BY <1>4, <1>5, <1>6, <1>7, <1>8, <1>9 DEF Tokens
<1>11. \A w \in V : w \in Wires(b) \/ \E j \in DOMAIN ls : w = <<i, -j>>
  BY <1>2, <1>6
<1>12. \A j \in DOMAIN ls : <<i, -j>> \in V /\ <<i, -j>> \notin Wires(b) /\ T2[<<i, -j>>] = ls[j].idx
  BY <1>2, <1>4, <1>6, <1>7
<1>13. NewTokensOf(V, T2, Wires(b), i, ls)
  BY <1>11, <1>12 DEF NewTokensOf
<1> QED BY <1>10, <1>13 DEF g, V, T2

\* The references of the new links have been added, the old ones are still there.
Rewiring(a, b, p, i, t, ls) ==
  /\ Deleting(a, << >>, BothWires(b, i, ls), BothTargets(b, i, ls), p, Bit(t) - Bit(b.entries[i].type), b.depth[i], {i})
  /\ Live(a) = Live(b) /\ SameCells(a.entries, b.entries) /\ a.depth = b.depth
  /\ KeysOf(a.strash, b.entries, Live(b) \ {i}) /\ KeysWithin(a.strash, b.strash)
  /\ a.log = b.log /\ a.fanoutsEnabled = b.fanoutsEnabled

\* The builder in which the references of the new links have been added.
LEMMA ReplaceLinked ==
  ASSUME NEW b, NEW p, Net(b, p), NEW i, NEW t, NEW ls, NEW S, MayReplace(b, i, t, ls, S),
         NEW a, a = LinkTo(Unkeyed(b, i, t), i, ls)
  PROVE  Rewiring(a, b, p, i, t, ls)
<1> DEFINE u == Unkeyed(b, i, t)
           z == Bit(t) - Bit(b.entries[i].type)
           V == BothWires(b, i, ls)
           T2 == BothTargets(b, i, ls)
           W == Wires(b)
           T == Targets(b)
           g == NewToken(i, ls)
<1>1. /\ i \in Drivers(b) /\ S \subseteq Drivers(b) /\ i \notin S /\ ls \in Seq(LinkSet(S)) /\ ls \in Seq(LinkSet(Drivers(b)))
  <2>1. i \in Drivers(b) /\ S \subseteq Drivers(b) /\ i \notin S /\ ls \in Seq(LinkSet(S))
    BY DEF MayReplace, AwayFrom
  <2> QED BY <2>1, SeqMono
<1>2. /\ IsRec(b) /\ Live(b) \subseteq DOMAIN b.entries /\ Drivers(b) \subseteq Live(b) /\ DOMAIN b.entries \subseteq Nat
      /\ \A x \in Live(b) : b.depth[x] \in Nat
  BY CoreFacts DEF Net
<1>3. /\ Core(u, W, T, p, z) /\ Same(u, b, {"strash", "nBuf"}) /\ KeysOf(u.strash, b.entries, Live(b) \ {i}) /\ KeysWithin(u.strash, b.strash)
  BY ReplaceStart
<1> HIDE DEF u, z
<1>4. IsRec(u) /\ u.entries = b.entries /\ u.depth = b.depth /\ u.log = b.log /\ u.fanoutsEnabled = b.fanoutsEnabled
  BY <1>2, <1>3 DEF Same, IsRec, EmptyBuilder
<1>5. Live(u) = Live(b) /\ Drivers(u) = Drivers(b)
  BY <1>4 DEF Live, Drivers
<1>6. Tokens(V, T2, W, T, g, i, ls) /\ \A w \in V : w \in W \/ \E j \in DOMAIN ls : w = <<i, -j>>
  <2>1. Tokens(V, T2, W, T, g, i, ls) /\ NewTokensOf(V, T2, W, i, ls)
    BY BothTokens, <1>1
  <2> HIDE DEF V, T2, W, T, g
  <2> QED BY <2>1 DEF NewTokensOf
<1>7. Core(a, V, T2, p, z) /\ Same(a, u, {"entries", "fanouts"}) /\ SameCells(a.entries, u.entries)
  <2>1. a = LinkTo(u, i, ls) /\ i \in Nat /\ ls \in Seq(LinkSet(Drivers(u)))
    BY <1>1, <1>2, <1>5 DEF u
  <2> HIDE DEF V, T2, W, T, g
  <2> QED BY <2>1, <1>3, <1>6, LinkToCore
<1>8. a.depth = b.depth /\ a.strash = u.strash /\ SameCells(a.entries, b.entries) /\ a.log = b.log /\ a.fanoutsEnabled = b.fanoutsEnabled
  BY <1>4, <1>7 DEF Same, IsRec, EmptyBuilder
<1>9. Live(a) = Live(b)
  BY <1>8, LiveSame
<1>10. /\ Wired(b.entries, Live(b), W, T) /\ \A w \in W : w[1] \in Live(b)
  BY WiresWired
<1> HIDE DEF V, T2, W, T, g
<1>11. \A x \in Live(b) : a.entries[x].links = b.entries[x].links
  BY <1>2, <1>8 DEF SameCells
<1>12. Wired(a.entries, Live(a) \ {i}, V, T2)
  <2> SUFFICES ASSUME NEW k \in Live(b) \ {i}
               PROVE  /\ \A j \in DOMAIN b.entries[k].links : <<k, j>> \in V /\ T2[<<k, j>>] = b.entries[k].links[j].idx
                      /\ \A w \in V : w[1] = k => \E j \in DOMAIN b.entries[k].links : w = <<k, j>>
    BY <1>9, <1>11 DEF Wired
  <2>1. \A j \in DOMAIN b.entries[k].links : <<k, j>> \in W /\ T[<<k, j>>] = b.entries[k].links[j].idx
    BY <1>10 DEF Wired
  <2>2. \A w \in W : w \in V /\ T2[w] = T[w]
    BY <1>6 DEF Tokens
  <2>3. \A w \in V : w[1] = k => w \in W
    <3> SUFFICES ASSUME NEW w \in V, w[1] = k, w \notin W PROVE FALSE
      OBVIOUS
    <3>1. PICK j \in DOMAIN ls : w = <<i, -j>>
      BY <1>6
    <3>2. w[1] = i
      BY <3>1
    <3> QED BY <3>2
  <2>4. \A w \in W : w[1] = k => \E j \in DOMAIN b.entries[k].links : w = <<k, j>>
    BY <1>10 DEF Wired
  <2> QED BY <2>1, <2>2, <2>3, <2>4
<1>13. \A w \in V : w[1] \in Live(a)
  <2> SUFFICES ASSUME NEW w \in V PROVE w[1] \in Live(b)
    BY <1>9
  <2>1. CASE w \in W
    BY <2>1, <1>10
  <2>2. CASE w \notin W
    <3>1. PICK j \in DOMAIN ls : w = <<i, -j>>
      BY <2>2, <1>6
    <3>2. w[1] = i
      BY <3>1
    <3> QED BY <3>2, <1>1, <1>2
  <2> QED BY <2>1, <2>2
<1>14. ExactOn(a, Live(a) \ {i})
  <2>1. ExactOn(b, Live(b))
    BY DEF Net
  <2> QED BY <2>1, <1>8, <1>9, <1>11 DEF ExactOn, IsDepthOver
<1>15. \A x \in {i} \cap Live(a) : a.depth[x] >= b.depth[i]
  <2>1. b.depth[i] \in Nat /\ a.depth[i] = b.depth[i]
    BY <1>1, <1>2, <1>8
  <2>2. b.depth[i] >= b.depth[i]
    BY <2>1
  <2> QED BY <2>1, <2>2
<1>16. QueueOK(a, << >>, b.depth[i])
  BY EmptyQueue
<1>17. Deleting(a, << >>, V, T2, p, z, b.depth[i], {i})
  BY <1>7, <1>12, <1>13, <1>14, <1>15, <1>16 DEF Deleting
<1> QED BY <1>3, <1>8, <1>9, <1>17 DEF Rewiring, V, T2, z

\* What is left when the old links and the cells below them have gone.
LeftTokens(b, i, ls, L) == Held(Spent(BothWires(b, i, ls), i, Len(b.entries[i].links)), L)

\* The old inputs are dropped after the new links have been counted, so no cell that the
\* new links need is deleted.
LEMMA ReplaceDropped ==
  ASSUME NEW b, NEW p, Net(b, p), NEW i, NEW t, NEW ls, NEW S, MayReplace(b, i, t, ls, S), NEW del,
         NEW a, a = LinkTo(Unkeyed(b, i, t), i, ls), NEW c, c = DropOldInputs(a, i, b.entries[i].links, del)
  PROVE  \E q : /\ Deleting(c, << >>, LeftTokens(b, i, ls, Live(c)), BothTargets(b, i, ls), q, Bit(t) - Bit(b.entries[i].type), b.depth[i], {i})
                /\ Pruned(c, a, q, p, b.depth[i])
<1> DEFINE V == BothWires(b, i, ls)
           T2 == BothTargets(b, i, ls)
           z == Bit(t) - Bit(b.entries[i].type)
           ol == b.entries[i].links
<1>1. Deleting(a, << >>, V, T2, p, z, b.depth[i], {i}) /\ Live(a) = Live(b) /\ a.depth = b.depth
  <2>1. Rewiring(a, b, p, i, t, ls)
    BY ReplaceLinked
  <2> QED BY <2>1 DEF Rewiring
<1>2. z \in Int
  BY DEF Bit
<1>3. i \in Live(b) /\ i \in DOMAIN b.entries /\ b.depth[i] \in Nat /\ \A x \in Live(b) : b.depth[x] \in Nat
  BY CoreFacts DEF Net, MayReplace
<1>4. ol \in Seq(LinkSet(DOMAIN b.entries))
  BY <1>3, CellFields DEF Net, Core
<1>5. \A j \in DOMAIN ol : <<i, j>> \in V /\ T2[<<i, j>>] = ol[j].idx /\ a.depth[ol[j].idx] < b.depth[i]
  <2> TAKE j \in DOMAIN ol
  <2>1. <<i, j>> \in Wires(b) /\ Targets(b)[<<i, j>>] = ol[j].idx
    BY <1>3, WiresWired DEF Wired
  <2>2. Tokens(V, T2, Wires(b), Targets(b), NewToken(i, ls), i, ls)
    BY BothTokens DEF MayReplace
  <2>3. b.depth[ol[j].idx] < b.depth[i]
    BY <1>3 DEF Net, ExactOn, IsDepthOver
  <2> HIDE DEF V, T2
  <2> QED BY <2>1, <2>2, <2>3, <1>1 DEF Tokens
<1> HIDE DEF V, T2, z, ol
<1>6. Cleaned(c, a, Spent(V, i, Len(ol)), T2, p, z, b.depth[i], {i})
  <2>1. c = DropOldInputs(a, i, ol, del) /\ i \in Live(a)
    BY <1>1, <1>3 DEF ol
  <2> QED BY <2>1, <1>1, <1>2, <1>3, <1>4, <1>5, DropOld
<1> QED BY <1>6 DEF Cleaned, LeftTokens, V, T2, z, ol

\* The new cell has taken the place of cell i, but not yet its position.
Put(d, b, i, t, ls, p, q) ==
  /\ Body(d) /\ Arrays(d) /\ DOMAIN d.entries = DOMAIN b.entries
  /\ Thread(d, Live(d), q) /\ Levels(Drivers(d), Live(d), q, d.depth, d.depthBounds) /\ SameOrder(q, p, Live(d))
  /\ Live(d) \subseteq Live(b) /\ i \in Drivers(d)
  /\ \A x \in Live(b) \ Live(d) : b.depth[x] < b.depth[i] /\ b.entries[x].type \notin {"IN", "OUT"}
  /\ \A x \in Live(d) : d.depth[x] = b.depth[x]
  /\ SameOn(d.entries, b.entries, Live(d) \ {i}) /\ d.entries[i].type = t /\ d.entries[i].links = ls
  /\ ExactOn(d, Live(d) \ {i})
  /\ KeysFrom(d.strash, b.strash, i) /\ d.log = b.log /\ d.fanoutsEnabled = b.fanoutsEnabled

\* Counting when cell i gets another type.
LEMMA NumPut ==
  ASSUME NEW L, IsFiniteSet(L), NEW i \in L, NEW e, NEW e2, SameOn(e2, e, L \ {i}), NEW u
  PROVE  /\ Num(e, L, u) \in Nat /\ Num(e2, L, u) \in Nat
         /\ Num(e2, L, u) = Num(e, L, u) - (IF e[i].type = u THEN 1 ELSE 0) + (IF e2[i].type = u THEN 1 ELSE 0)
<1>1. /\ Num(e, L \ {i}, u) \in Nat /\ Num(e, L, u) \in Nat
      /\ Num(e, L, u) = IF e[i].type = u THEN Num(e, L \ {i}, u) + 1 ELSE Num(e, L \ {i}, u)
  BY NumRemove
<1>2. /\ Num(e2, L, u) \in Nat
      /\ Num(e2, L, u) = IF e2[i].type = u THEN Num(e2, L \ {i}, u) + 1 ELSE Num(e2, L \ {i}, u)
  BY NumRemove
<1>3. {x \in L \ {i} : e2[x].type = u} = {x \in L \ {i} : e[x].type = u}
  BY DEF SameOn
<1>4. Num(e2, L \ {i}, u) = Num(e, L \ {i}, u)
  BY <1>3 DEF Num
<1> QED BY <1>1, <1>2, <1>4

\* The counters are right when the type of the cell has changed.
LEMMA CountsPut ==
  ASSUME NEW b, NEW i, NEW t,
         NEW z, z = Bit(t) - Bit(b.entries[i].type), Counts(b, z), IsFiniteSet(Live(b)), i \in Live(b), NEW r,
         Live(r) = Live(b), SameOn(r.entries, b.entries, Live(b) \ {i}), r.entries[i].type = t, t \notin {"IN", "OUT"},
         b.entries[i].type \notin {"IN", "OUT"}, r.nIn = b.nIn, r.nOut = b.nOut, r.nCell = b.nCell, r.nBuf = b.nBuf
  PROVE  Counts(r, 0)
<1> DEFINE L == Live(b)
           e == b.entries
           e2 == r.entries
<1>1. IsFiniteSet(L) /\ i \in L /\ SameOn(e2, e, L \ {i}) /\ e2[i].type = t
  OBVIOUS
<1>2. /\ b.nCell = Cardinality(L) /\ b.nIn = Num(e, L, "IN") /\ b.nOut = Num(e, L, "OUT") /\ b.nBuf = Num(e, L, "BUF") + z
  BY DEF Counts
<1>3. z = (IF t = "BUF" THEN 1 ELSE 0) - (IF e[i].type = "BUF" THEN 1 ELSE 0)
  BY DEF Bit
<1>4. t # "IN" /\ t # "OUT" /\ e[i].type # "IN" /\ e[i].type # "OUT"
  OBVIOUS
<1> HIDE DEF L, e, e2
<1>5. Num(e2, L, "IN") = Num(e, L, "IN")
  <2>1. /\ Num(e, L, "IN") \in Nat
        /\ Num(e2, L, "IN") = Num(e, L, "IN") - (IF e[i].type = "IN" THEN 1 ELSE 0) + (IF e2[i].type = "IN" THEN 1 ELSE 0)
    BY <1>1, NumPut
  <2>2. Num(e2, L, "IN") = Num(e, L, "IN") - 0 + 0
    BY <2>1, <1>1, <1>4
  <2> QED BY <2>1, <2>2
<1>6. Num(e2, L, "OUT") = Num(e, L, "OUT")
  <2>1. /\ Num(e, L, "OUT") \in Nat
        /\ Num(e2, L, "OUT") = Num(e, L, "OUT") - (IF e[i].type = "OUT" THEN 1 ELSE 0) + (IF e2[i].type = "OUT" THEN 1 ELSE 0)
    BY <1>1, NumPut
  <2>2. Num(e2, L, "OUT") = Num(e, L, "OUT") - 0 + 0
    BY <2>1, <1>1, <1>4
  <2> QED BY <2>1, <2>2
<1>7. b.nBuf = Num(e2, L, "BUF") + 0
  <2>0. Num(e2, L, "BUF") \in Nat
    BY <1>1, NumType
  <2>1. /\ Num(e, L, "BUF") \in Nat
        /\ Num(e2, L, "BUF") = Num(e, L, "BUF") - (IF e[i].type = "BUF" THEN 1 ELSE 0) + (IF e2[i].type = "BUF" THEN 1 ELSE 0)
    BY <1>1, NumPut
  <2> DEFINE x == IF e[i].type = "BUF" THEN 1 ELSE 0
             y == IF t = "BUF" THEN 1 ELSE 0
  <2>2. x \in Int /\ y \in Int /\ z = y - x /\ Num(e2, L, "BUF") = Num(e, L, "BUF") - x + y
    BY <2>1, <1>1, <1>3
  <2> HIDE DEF x, y
  <2> QED BY <2>0, <2>1, <2>2, <1>2
<1> QED BY <1>2, <1>5, <1>6, <1>7 DEF Counts, L, e2

\* What PutCell assigns.
LEMMA PutFields ==
  ASSUME NEW c, IsRec(c), NEW i \in DOMAIN c.entries, NEW t, StrashEnabled(t), NEW ls, NEW n,
         NEW d, d = PutCell(c, i, t, ls, n)
  PROVE  /\ Same(d, c, {"entries", "strash"}) /\ d.strash = StrashWith(c.strash, StrashKey(t, ls), i)
         /\ DOMAIN d.entries = DOMAIN c.entries /\ d.entries[i].type = t /\ d.entries[i].links = ls /\ d.entries[i].refcount = n
         /\ d.entries[i] = [type |-> t, links |-> ls, refcount |-> n]
         /\ \A x \in DOMAIN c.entries \ {i} : d.entries[x] = c.entries[x]
<1> DEFINE cell == [type |-> t, links |-> ls, refcount |-> n]
           e2 == SetAt(c.entries, i, cell)
           key == StrashKey(t, ls)
           c1 == [c EXCEPT !.entries = e2]
<1>1. [Cell(t, ls) EXCEPT !.refcount = n] = cell
  BY DEF Cell
<1>2. d = StrashInsert(c1, key, i)
  BY <1>1 DEF PutCell
<1>3. DOMAIN e2 = DOMAIN c.entries /\ e2[i] = cell /\ \A x \in DOMAIN c.entries \ {i} : e2[x] = c.entries[x]
  BY DEF SetAt
<1>3a. cell.type = t /\ cell.links = ls /\ cell.refcount = n
  OBVIOUS
<1> HIDE DEF e2, key, cell
<1>4. Same(c1, c, {"entries"}) /\ c1.entries = e2 /\ c1.strash = c.strash /\ IsRec(c1)
  BY DEF Same, IsRec, EmptyBuilder
<1> HIDE DEF c1
<1>5. Same(d, c1, {"strash"}) /\ d.strash = StrashWith(c.strash, key, i) /\ d.entries = e2
  <2>1. CASE key \in DOMAIN c1.strash
    BY <2>1, <1>2, <1>4 DEF StrashInsert, StrashWith, Same
  <2>2. CASE key \notin DOMAIN c1.strash
    <3>1. d = [c1 EXCEPT !.strash = [k \in DOMAIN c.strash \cup {key} |-> IF k = key THEN i ELSE c.strash[k]]]
      BY <2>2, <1>2, <1>4 DEF StrashInsert
    <3>2. StrashWith(c.strash, key, i) = [k \in DOMAIN c.strash \cup {key} |-> IF k = key THEN i ELSE c.strash[k]]
      BY <2>2, <1>4 DEF StrashWith
    <3> QED BY <3>1, <3>2, <1>4 DEF Same, IsRec, EmptyBuilder
  <2> QED BY <2>1, <2>2
<1>6. Same(d, c, {"entries", "strash"})
  BY <1>4, <1>5 DEF Same
<1> QED BY <1>3, <1>3a, <1>5, <1>6 DEF key, cell

\* The old links of cell i have gone, with the cells that only they have used; the new links are counted.
Dropped(c, b, p, q, i, t, ls) ==
  /\ Deleting(c, << >>, LeftTokens(b, i, ls, Live(c)), BothTargets(b, i, ls), q, Bit(t) - Bit(b.entries[i].type), b.depth[i], {i})
  /\ i \in Live(c) /\ Live(c) \subseteq Live(b)
  /\ \A x \in Live(b) \ Live(c) : b.depth[x] < b.depth[i] /\ b.entries[x].type \notin {"IN", "OUT"}
  /\ SameCells(c.entries, b.entries) /\ \A x \in Live(c) : c.depth[x] = b.depth[x]
  /\ SameOrder(q, p, Live(c))
  /\ KeysWithin(c.strash, b.strash) /\ \A key \in DOMAIN c.strash : c.strash[key] # i
  /\ c.log = b.log /\ c.fanoutsEnabled = b.fanoutsEnabled

\* The builder when the old inputs have gone.
LEMMA DroppedAll ==
  ASSUME NEW b, NEW p, Net(b, p), NEW i, NEW t, NEW ls, NEW S, MayReplace(b, i, t, ls, S), NEW del,
         NEW c, c = DropOldInputs(LinkTo(Unkeyed(b, i, t), i, ls), i, b.entries[i].links, del)
  PROVE  \E q : Dropped(c, b, p, q, i, t, ls)
<1> DEFINE a == LinkTo(Unkeyed(b, i, t), i, ls)
           T2 == BothTargets(b, i, ls)
           z == Bit(t) - Bit(b.entries[i].type)
           dm == b.depth[i]
<1>1. Rewiring(a, b, p, i, t, ls)
  BY ReplaceLinked
<1>2. c = DropOldInputs(a, i, b.entries[i].links, del)
  OBVIOUS
<1>3. i \in Live(b) /\ dm \in Nat /\ Live(b) \subseteq DOMAIN b.entries
  BY CoreFacts DEF MayReplace, Net
<1> HIDE DEF a
<1>4. PICK q : /\ Deleting(c, << >>, LeftTokens(b, i, ls, Live(c)), BothTargets(b, i, ls), q, Bit(t) - Bit(b.entries[i].type), b.depth[i], {i})
               /\ Pruned(c, a, q, p, b.depth[i])
  BY <1>2, ReplaceDropped DEF a
<1>5. /\ Live(a) = Live(b) /\ SameCells(a.entries, b.entries) /\ a.depth = b.depth
      /\ KeysOf(a.strash, b.entries, Live(b) \ {i}) /\ KeysWithin(a.strash, b.strash)
      /\ a.log = b.log /\ a.fanoutsEnabled = b.fanoutsEnabled
  BY <1>1 DEF Rewiring
<1>6. /\ Live(c) \subseteq Live(a)
      /\ \A x \in Live(a) \ Live(c) : a.depth[x] < dm /\ a.entries[x].type \notin {"IN", "OUT"}
      /\ SameCells(c.entries, a.entries)
      /\ \A x \in Live(c) : c.depth[x] = a.depth[x]
      /\ SameOrder(q, p, Live(c))
      /\ KeysWithin(c.strash, a.strash)
      /\ c.log = a.log /\ c.fanoutsEnabled = a.fanoutsEnabled
  BY <1>4 DEF Pruned
<1>7. i \in Live(c)
  BY <1>3, <1>5, <1>6
<1>8. SameCells(c.entries, b.entries)
  BY <1>5, <1>6 DEF SameCells
<1>9. KeysWithin(c.strash, b.strash) /\ \A key \in DOMAIN c.strash : c.strash[key] # i
  BY <1>5, <1>6 DEF KeysWithin, KeysOf
<1>10. \A x \in Live(b) \ Live(c) : b.depth[x] < dm /\ b.entries[x].type \notin {"IN", "OUT"}
  BY <1>3, <1>5, <1>6 DEF SameCells
<1>11. /\ \A x \in Live(c) : c.depth[x] = b.depth[x]
       /\ Live(c) \subseteq Live(b) /\ c.log = b.log /\ c.fanoutsEnabled = b.fanoutsEnabled
  BY <1>5, <1>6
<1> QED BY <1>4, <1>6, <1>7, <1>8, <1>9, <1>10, <1>11 DEF Dropped

\* The tokens that are left: the links of the other cells, and the new links.
LeftIs(X, T2, e, L, i, ls) ==
  /\ \A k \in L \ {i} : \A j \in DOMAIN e[k].links : <<k, j>> \in X /\ T2[<<k, j>>] = e[k].links[j].idx
  /\ \A j \in DOMAIN ls : <<i, -j>> \in X /\ T2[<<i, -j>>] = ls[j].idx
  /\ \A x \in X : \/ \E k \in L \ {i} : \E j \in DOMAIN e[k].links : x = <<k, j>>
                  \/ \E j \in DOMAIN ls : x = <<i, -j>>

\* The tokens that are left are the links of the other cells and the new links.
LEMMA LeftAre ==
  ASSUME NEW b, NEW p, Net(b, p), NEW i, NEW t, NEW ls, NEW S, MayReplace(b, i, t, ls, S), NEW c,
         NEW q, Dropped(c, b, p, q, i, t, ls)
  PROVE  LeftIs(LeftTokens(b, i, ls, Live(c)), BothTargets(b, i, ls), c.entries, Live(c), i, ls)
<1> DEFINE X == LeftTokens(b, i, ls, Live(c))
           T2 == BothTargets(b, i, ls)
           V == BothWires(b, i, ls)
           n == Len(b.entries[i].links)
<1>1. Wired(c.entries, Live(c) \ {i}, X, T2) /\ \A w \in X : w[1] \in Live(c)
  BY DEF Dropped, Deleting
<1>2. NewTokensOf(V, T2, Wires(b), i, ls)
  BY BothTokens DEF MayReplace
<1>3. i \in Live(c) /\ i \in Live(b) /\ DOMAIN b.entries[i].links = 1 .. n /\ n \in Nat
  BY CoreFacts, LinksOf DEF MayReplace, Net, Core, Dropped
<1>4. ls \in Seq(LinkSet(S))
  BY DEF MayReplace
<1>5. DOMAIN ls = 1 .. Len(ls) /\ Len(ls) \in Nat
  BY <1>4, LinkSeq
<1>6. X = {w \in V \ {<<i, m>> : m \in 1 .. n} : w[1] \in Live(c)}
  BY DEF LeftTokens, Held, Spent
<1>7. \A w \in Wires(b) : w[1] = i => \E m \in 1 .. n : w = <<i, m>>
  BY <1>3, WiresWired DEF Wired
<1> HIDE DEF X, T2, V, n
<1>8. ASSUME NEW k \in Live(c) \ {i}, NEW j \in DOMAIN c.entries[k].links
      PROVE  <<k, j>> \in X /\ T2[<<k, j>>] = c.entries[k].links[j].idx
  BY <1>1 DEF Wired
<1>9. ASSUME NEW j \in DOMAIN ls
      PROVE  <<i, -j>> \in X /\ T2[<<i, -j>>] = ls[j].idx
  <2>1. <<i, -j>> \in V /\ T2[<<i, -j>>] = ls[j].idx
    BY <1>2 DEF NewTokensOf
  <2>2. <<i, -j>> \notin {<<i, m>> : m \in 1 .. n}
    BY <1>5, <1>3
  <2>3. <<i, -j>>[1] = i
    OBVIOUS
  <2> QED BY <2>1, <2>2, <2>3, <1>6, <1>3
<1>10. ASSUME NEW x \in X
       PROVE  \/ \E k \in Live(c) \ {i} : \E j \in DOMAIN c.entries[k].links : x = <<k, j>>
              \/ \E j \in DOMAIN ls : x = <<i, -j>>
  <2>1. CASE x[1] # i
    BY <2>1, <1>1 DEF Wired
  <2>2. CASE x[1] = i
    <3>1. x \in V /\ x \notin {<<i, m>> : m \in 1 .. n}
      BY <1>6
    <3>2. x \notin Wires(b)
      BY <3>1, <2>2, <1>7
    <3> QED BY <3>1, <3>2, <1>2 DEF NewTokensOf
  <2> QED BY <2>1, <2>2
<1> QED BY <1>8, <1>9, <1>10 DEF LeftIs, X, T2

\* The users of the cell itself all stay.
LEMMA UsersStay ==
  ASSUME NEW b, NEW p, Net(b, p), NEW i, NEW t, NEW ls, NEW S, MayReplace(b, i, t, ls, S), NEW c,
         NEW q, Dropped(c, b, p, q, i, t, ls)
  PROVE  To(LeftTokens(b, i, ls, Live(c)), BothTargets(b, i, ls), i) = To(Wires(b), Targets(b), i)
<1> DEFINE X == LeftTokens(b, i, ls, Live(c))
           T2 == BothTargets(b, i, ls)
           V == BothWires(b, i, ls)
           n == Len(b.entries[i].links)
<1>1. NewTokensOf(V, T2, Wires(b), i, ls)
  BY BothTokens DEF MayReplace
<1>1a. V = Wires(b) \cup {NewToken(i, ls)[j] : j \in DOMAIN ls} /\ T2 = [w \in V |-> IF w \in Wires(b) THEN WireTo(b, w) ELSE ls[-w[2]].idx]
  BY DEF BothWires, BothTargets
<1>2. \A w \in Wires(b) : w \in V /\ T2[w] = Targets(b)[w]
  BY <1>1a DEF Targets
<1>3. X = {w \in V \ {<<i, m>> : m \in 1 .. n} : w[1] \in Live(c)}
  BY DEF LeftTokens, Held, Spent
<1>4. /\ \A x \in Live(b) \ Live(c) : b.depth[x] < b.depth[i] 
      /\ \A x \in Live(b) : b.depth[x] \in Nat
      /\ i \in Live(b)
  BY CoreFacts DEF Dropped, Net, MayReplace
<1>5. ls \in Seq(LinkSet(S)) /\ i \notin S
  BY DEF MayReplace, AwayFrom
<1>6. \A j \in DOMAIN ls : ls[j].idx # i
  BY <1>5, LinkSeq
<1>7. Wired(b.entries, Live(b), Wires(b), Targets(b)) /\ \A w \in Wires(b) : w = <<w[1], w[2]>> /\ w[1] \in Live(b)
  BY WiresWired
<1>8. \A k \in Live(b) : \A j \in DOMAIN b.entries[k].links : b.depth[b.entries[k].links[j].idx] < b.depth[k]
  BY DEF Net, ExactOn, IsDepthOver
<1> HIDE DEF X, T2, V, n
<1>9. ASSUME NEW w \in X, T2[w] = i
      PROVE  w \in Wires(b) /\ Targets(b)[w] = i
  <2>1. w \in V
    BY <1>3
  <2>2. w \in Wires(b)
    BY <2>1, <1>1, <1>6, <1>9 DEF NewTokensOf
  <2> QED BY <2>2, <1>2, <1>9
<1>10. ASSUME NEW w \in Wires(b), Targets(b)[w] = i
       PROVE  w \in X /\ T2[w] = i
  <2>1. w = <<w[1], w[2]>> /\ w[1] \in Live(b)
    BY <1>7
  <2>2. b.depth[i] < b.depth[w[1]]
    BY <2>1, <1>7, <1>8, <1>10 DEF Wired
  <2>3. w[1] # i /\ w[1] \in Live(c)
    BY <2>1, <2>2, <1>4
  <2>4. w \notin {<<i, m>> : m \in 1 .. n}
    BY <2>3
  <2> QED BY <2>3, <2>4, <1>2, <1>3, <1>10
<1> QED BY <1>9, <1>10 DEF To, X, T2

\* The tokens that are left are the links of the builder with the new cell.
LEMMA LeftRenamed ==
  ASSUME NEW b, NEW X, NEW T2, NEW e, NEW i, NEW ls, NEW d, i \in Live(d), LeftIs(X, T2, e, Live(d), i, ls),
         DOMAIN ls \subseteq Int, d.entries[i].links = ls, \A k \in Live(d) \ {i} : d.entries[k].links = e[k].links /\ DOMAIN e[k].links \subseteq Int
  PROVE  \E g : Renaming(g, X, T2, Wires(d), Targets(d))
<1> DEFINE g == [x \in X |-> IF x[1] = i THEN <<i, -x[2]>> ELSE x]
           R == Targets(d)
<1>1. /\ \A k \in Live(d) : \A j \in DOMAIN d.entries[k].links : <<k, j>> \in Wires(d) /\ R[<<k, j>>] = d.entries[k].links[j].idx
      /\ \A w \in Wires(d) : \E k \in Live(d) : \E j \in DOMAIN d.entries[k].links : w = <<k, j>>
  BY DEF Wires, Targets, WireTo
<1>2. ASSUME NEW k \in Live(d) \ {i}, NEW j \in DOMAIN e[k].links
      PROVE  /\ <<k, j>> \in X /\ g[<<k, j>>] = <<k, j>> /\ <<k, j>> \in Wires(d) /\ R[<<k, j>>] = T2[<<k, j>>]
  <2>1. <<k, j>> \in X /\ T2[<<k, j>>] = e[k].links[j].idx
    BY DEF LeftIs
  <2> QED BY <2>1, <1>1
<1>3. ASSUME NEW j \in DOMAIN ls
      PROVE  /\ <<i, -j>> \in X /\ g[<<i, -j>>] = <<i, j>> /\ <<i, j>> \in Wires(d) /\ R[<<i, j>>] = T2[<<i, -j>>]
  <2>1. <<i, -j>> \in X /\ T2[<<i, -j>>] = ls[j].idx /\ -(-j) = j
    BY DEF LeftIs
  <2> QED BY <2>1, <1>1
<1>4. \A x \in X : \/ \E k \in Live(d) \ {i} : \E j \in DOMAIN e[k].links : x = <<k, j>>
                   \/ \E j \in DOMAIN ls : x = <<i, -j>>
  BY DEF LeftIs
<1> HIDE DEF g, R
<1>5. \A x \in X : g[x] \in Wires(d) /\ R[g[x]] = T2[x] /\ g[x][1] = x[1]
  <2> TAKE x \in X
  <2>1. CASE \E k \in Live(d) \ {i} : \E j \in DOMAIN e[k].links : x = <<k, j>>
    BY <2>1, <1>2
  <2>2. CASE \E j \in DOMAIN ls : x = <<i, -j>>
    <3>1. PICK j \in DOMAIN ls : x = <<i, -j>>
      BY <2>2
    <3>2. <<i, -j>> \in X /\ g[<<i, -j>>] = <<i, j>> /\ <<i, j>> \in Wires(d) /\ R[<<i, j>>] = T2[<<i, -j>>]
      BY <1>3
    <3>3. g[x] = <<i, j>> /\ x[1] = i
      BY <3>1, <3>2
    <3> QED BY <3>1, <3>2, <3>3
  <2> QED BY <2>1, <2>2, <1>4
<1>6. ASSUME NEW x \in X, NEW y \in X, g[x] = g[y]
      PROVE  x = y
  <2>1. CASE \E k \in Live(d) \ {i} : \E j \in DOMAIN e[k].links : x = <<k, j>>
    <3>1. PICK k \in Live(d) \ {i} : \E j \in DOMAIN e[k].links : x = <<k, j>>
      BY <2>1
    <3>2. g[x] = x /\ x[1] # i
      BY <3>1, <1>2
    <3>3. ~\E j2 \in DOMAIN ls : y = <<i, -j2>>
      <4> SUFFICES ASSUME NEW j2 \in DOMAIN ls, y = <<i, -j2>> PROVE FALSE
        OBVIOUS
      <4>1. g[y] = <<i, j2>>
        BY <1>3
      <4> QED BY <4>1, <3>2, <1>6
    <3>4. g[y] = y
      BY <3>3, <1>2, <1>4
    <3> QED BY <3>2, <3>4, <1>6
  <2>2. CASE \E j \in DOMAIN ls : x = <<i, -j>>
    <3>1. PICK j \in DOMAIN ls : x = <<i, -j>>
      BY <2>2
    <3>2. g[x] = <<i, j>>
      BY <3>1, <1>3
    <3>3. PICK j2 \in DOMAIN ls : y = <<i, -j2>>
      BY <3>2, <1>2, <1>4, <1>6
    <3>4. g[y] = <<i, j2>>
      BY <3>3, <1>3
    <3> QED BY <3>1, <3>2, <3>3, <3>4, <1>6
  <2> QED BY <2>1, <2>2, <1>4
<1>7. ASSUME NEW w \in Wires(d)
      PROVE  \E x \in X : g[x] = w
  <2>1. PICK k \in Live(d) : \E j \in DOMAIN d.entries[k].links : w = <<k, j>>
    BY <1>1
  <2>2. CASE k = i
    BY <2>1, <2>2, <1>3
  <2>3. CASE k # i
    BY <2>1, <2>3, <1>2
  <2> QED BY <2>2, <2>3
<1> QED BY <1>5, <1>6, <1>7 DEF Renaming, Matches, R

\* The new cell takes the place of the old one: types, references, fanouts and keys.
LEMMA PutBody ==
  ASSUME NEW b, NEW p, Net(b, p), NEW i, NEW t, NEW ls, NEW S, MayReplace(b, i, t, ls, S), NEW c,
         NEW q, Dropped(c, b, p, q, i, t, ls),
         NEW d, d = PutCell(c, i, t, ls, b.entries[i].refcount)
  PROVE  /\ Body(d) /\ Live(d) = Live(c) /\ Drivers(d) = Drivers(c)
         /\ KeysFrom(d.strash, b.strash, i) /\ Same(d, c, {"entries", "strash"}) /\ DOMAIN d.entries = DOMAIN c.entries
         /\ SameOn(d.entries, b.entries, Live(d) \ {i}) /\ d.entries[i].type = t /\ d.entries[i].links = ls
<1> DEFINE X == LeftTokens(b, i, ls, Live(c))
           T2 == BothTargets(b, i, ls)
           z == Bit(t) - Bit(b.entries[i].type)
           n == b.entries[i].refcount
           D == DOMAIN c.entries
<1>1. Core(c, X, T2, q, z) /\ i \in Live(c) /\ Live(c) \subseteq Live(b) /\ SameCells(c.entries, b.entries)
      /\ KeysWithin(c.strash, b.strash) /\ \A key \in DOMAIN c.strash : c.strash[key] # i
  BY DEF Dropped, Deleting
<1>2. LeftIs(X, T2, c.entries, Live(c), i, ls) /\ To(X, T2, i) = To(Wires(b), Targets(b), i)
  BY LeftAre, UsersStay
<1>3. /\ i \in Drivers(b) /\ b.entries[i].type # "IN" /\ t \in CellTypes \ {"IN", "OUT"} /\ Arity(t, ls) /\ ls \in Seq(LinkSet(S))
      /\ StrashEnabled(t)
  BY DEF MayReplace, StrashEnabled
<1>4. IsRec(c) /\ Live(c) \subseteq D /\ Drivers(c) \subseteq Live(c) /\ D \subseteq Nat /\ IsFiniteSet(Live(c))
  BY <1>1, CoreFacts
<1>5. /\ Same(d, c, {"entries", "strash"}) /\ d.strash = StrashWith(c.strash, StrashKey(t, ls), i)
      /\ DOMAIN d.entries = DOMAIN c.entries /\ d.entries[i].type = t /\ d.entries[i].links = ls /\ d.entries[i].refcount = n
      /\ d.entries[i] = [type |-> t, links |-> ls, refcount |-> n]
      /\ \A x \in DOMAIN c.entries \ {i} : d.entries[x] = c.entries[x]
  BY <1>1, <1>3, <1>4, PutFields
<1> HIDE DEF X, T2, z, n
<1>6. d.depth = c.depth /\ d.empty = c.empty /\ d.fanouts = c.fanouts /\ d.fanoutsEnabled = c.fanoutsEnabled
      /\ d.nIn = c.nIn /\ d.nOut = c.nOut /\ d.nCell = c.nCell /\ d.nBuf = c.nBuf /\ d.fault = c.fault /\ IsRec(d)
  BY <1>4, <1>5 DEF Same, IsRec, EmptyBuilder
<1>7. c.entries[i].type = b.entries[i].type /\ c.entries[i].type \notin {"IN", "OUT"}
  BY <1>1, <1>3, <1>4 DEF SameCells, Drivers
<1>8. Live(d) = Live(c) /\ Drivers(d) = Drivers(c)
  <2>1. Live(d) = Live(c)
    BY <1>5, <1>6 DEF Live
  <2>2. \A x \in Live(c) : d.entries[x].type # "OUT" <=> c.entries[x].type # "OUT"
    BY <1>3, <1>4, <1>5, <1>7
  <2> QED BY <2>1, <2>2 DEF Drivers
<1>9. /\ CellsOK(c.entries) /\ DepthsOK(c.depth, D) /\ FreeOf(c.empty, D, Live(c)) /\ KeysOf(c.strash, c.entries, Live(c))
      /\ Refs(c.entries, Drivers(c), X, T2) /\ Fan(c.fanoutsEnabled, c.fanouts, X, T2) /\ Counts(c, z) /\ c.fault = FALSE
  BY <1>1 DEF Core
<1>10. DOMAIN ls = 1 .. Len(ls) /\ Len(ls) \in Nat /\ \A j \in DOMAIN ls : ls[j].idx \in D /\ ls[j] \in LinkSet(D)
  <2>1. DOMAIN ls = 1 .. Len(ls) /\ Len(ls) \in Nat /\ \A j \in DOMAIN ls : ls[j].idx \in S /\ ls[j].inv \in BOOLEAN
    BY <1>3, LinkSeq
  <2>2. \A j \in DOMAIN ls : ls[j].idx \in D
    BY <1>2, <1>4, <1>9 DEF LeftIs, Refs
  <2>3. S \subseteq DOMAIN b.entries /\ DOMAIN b.entries = D
    BY <1>1 DEF MayReplace, AwayFrom, Drivers, Live, SameCells
  <2>4. ls \in Seq(LinkSet(D))
    BY <2>3, <1>3, SeqMono
  <2> QED BY <2>1, <2>2, <2>4
<1>11. ls \in Seq(LinkSet(D))
  <2>1. S \subseteq DOMAIN b.entries /\ DOMAIN b.entries = D
    BY <1>1 DEF MayReplace, AwayFrom, Drivers, Live, SameCells
  <2> QED BY <2>1, <1>3, SeqMono
<1>12. n \in Nat /\ n = c.entries[i].refcount
  <2>1. CellsOK(b.entries) /\ Refs(b.entries, Drivers(b), Wires(b), Targets(b))
    BY DEF Net, Core
  <2>2. i \in DOMAIN b.entries
    BY <1>3 DEF Drivers, Live
  <2>3. n = Cardinality(To(Wires(b), Targets(b), i)) /\ n \in Nat
    BY <2>1, <2>2, CellFields DEF Refs, n
  <2>4. c.entries[i].refcount = Cardinality(To(X, T2, i))
    BY <1>9, <1>1, <1>4 DEF Refs
  <2> QED BY <2>3, <2>4, <1>2
<1>13. CellsOK(d.entries)
  <2>1. d.entries[i] \in CellRec(D)
    BY <1>3, <1>5, <1>11, <1>12 DEF CellRec
  <2> QED BY <2>1, <1>5, <1>9 DEF CellsOK
<1>14. Refs(d.entries, Drivers(d), X, T2)
  BY <1>5, <1>8, <1>9, <1>12 DEF Refs
<1>15. \E g : Renaming(g, X, T2, Wires(d), Targets(d))
  <2>1. \A k \in Live(d) \ {i} : d.entries[k].links = c.entries[k].links /\ DOMAIN c.entries[k].links \subseteq Int
    <3> TAKE k \in Live(d) \ {i}
    <3>1. k \in D
      BY <1>8, <1>4
    <3>2. Len(c.entries[k].links) \in Nat /\ DOMAIN c.entries[k].links = 1 .. Len(c.entries[k].links)
      BY <3>1, <1>9, LinksOf
    <3> QED BY <3>1, <3>2, <1>5
  <2>2. LeftIs(X, T2, c.entries, Live(d), i, ls) /\ i \in Live(d) /\ DOMAIN ls \subseteq Int
    BY <1>1, <1>2, <1>8, <1>10
  <2> QED BY <2>1, <2>2, <1>5, LeftRenamed
<1>16. Refs(d.entries, Drivers(d), Wires(d), Targets(d)) /\ Fan(d.fanoutsEnabled, d.fanouts, Wires(d), Targets(d))
  BY <1>6, <1>9, <1>14, <1>15, RefsRenamed
<1>17. SameOn(d.entries, c.entries, Live(c) \ {i}) /\ SameOn(d.entries, b.entries, Live(d) \ {i})
  BY <1>1, <1>4, <1>5, <1>8 DEF SameOn, SameCells
<1>18. Counts(d, 0)
  <2>1. z = Bit(t) - Bit(c.entries[i].type)
    BY <1>7 DEF z
  <2>2. t \notin {"IN", "OUT"}
    BY <1>3
  <2> QED BY <2>1, <2>2, <1>9, <1>4, <1>1, <1>8, <1>17, <1>5, <1>7, <1>6, CountsPut
<1>19. KeysOf(d.strash, d.entries, Live(d)) /\ KeysFrom(d.strash, b.strash, i)
  <2> DEFINE key0 == StrashKey(t, ls)
  <2>1. \A key \in DOMAIN c.strash : d.strash[key] = c.strash[key]
    BY <1>5 DEF StrashWith
  <2>2. \A key \in DOMAIN d.strash : key \in DOMAIN c.strash \/ (key = key0 /\ d.strash[key] = i)
    BY <1>5 DEF StrashWith
  <2> HIDE DEF key0
  <2>3. ASSUME NEW key \in DOMAIN c.strash
        PROVE  /\ d.strash[key] \in Live(d) /\ StrashEnabled(d.entries[d.strash[key]].type)
               /\ StrashKey(d.entries[d.strash[key]].type, d.entries[d.strash[key]].links) = key
               /\ key \in DOMAIN b.strash /\ d.strash[key] = b.strash[key]
    <3> DEFINE x == c.strash[key]
    <3>1. x \in Live(c) \ {i} /\ StrashEnabled(c.entries[x].type) /\ StrashKey(c.entries[x].type, c.entries[x].links) = key
      BY <1>1, <1>9 DEF KeysOf
    <3>2. d.entries[x].type = c.entries[x].type /\ d.entries[x].links = c.entries[x].links
      BY <3>1, <1>17 DEF SameOn
    <3>3. key \in DOMAIN b.strash /\ x = b.strash[key]
      BY <1>1 DEF KeysWithin
    <3> HIDE DEF x
    <3>4. d.strash[key] = x
      BY <2>1 DEF x
    <3> QED BY <3>1, <3>2, <3>3, <3>4, <1>8
  <2>4. StrashKey(d.entries[i].type, d.entries[i].links) = key0 /\ StrashEnabled(d.entries[i].type) /\ i \in Live(d)
    BY <1>5, <1>3, <1>1, <1>8 DEF key0
  <2> QED BY <2>2, <2>3, <2>4 DEF KeysOf, KeysFrom
<1>20. Arities(d.entries, Live(d))
  <2>1. Arities(b.entries, Live(b))
    BY DEF Net
  <2> QED BY <2>1, <1>1, <1>3, <1>5, <1>8, <1>17 DEF Arities, SameOn
<1>21. DepthsOK(d.depth, DOMAIN d.entries) /\ FreeOf(d.empty, DOMAIN d.entries, Live(d)) /\ d.fault = FALSE
  BY <1>5, <1>6, <1>8, <1>9
<1>22. Body(d)
  BY <1>13, <1>16, <1>18, <1>19, <1>20, <1>21 DEF Body
<1> QED BY <1>22, <1>8, <1>19, <1>5, <1>17

\* PutCell completes the body of the network: only position and depth of cell i are
\* still those of the old cell.
LEMMA PutCellNet ==
  ASSUME NEW b, NEW p, Net(b, p), NEW i, NEW t, NEW ls, NEW S, MayReplace(b, i, t, ls, S), NEW c,
         NEW q, Dropped(c, b, p, q, i, t, ls),
         NEW d, d = PutCell(c, i, t, ls, b.entries[i].refcount)
  PROVE  Put(d, b, i, t, ls, p, q)
<1>1. /\ Body(d) /\ Live(d) = Live(c) /\ Drivers(d) = Drivers(c)
      /\ KeysFrom(d.strash, b.strash, i) /\ Same(d, c, {"entries", "strash"}) /\ DOMAIN d.entries = DOMAIN c.entries
      /\ SameOn(d.entries, b.entries, Live(d) \ {i}) /\ d.entries[i].type = t /\ d.entries[i].links = ls
  BY PutBody
<1> DEFINE X == LeftTokens(b, i, ls, Live(c))
           T2 == BothTargets(b, i, ls)
           z == Bit(t) - Bit(b.entries[i].type)
<1>2. /\ Core(c, X, T2, q, z) /\ ExactOn(c, Live(c) \ {i}) /\ i \in Live(c) /\ Live(c) \subseteq Live(b)
      /\ \A x \in Live(b) \ Live(c) : b.depth[x] < b.depth[i] /\ b.entries[x].type \notin {"IN", "OUT"}
      /\ SameCells(c.entries, b.entries) /\ \A x \in Live(c) : c.depth[x] = b.depth[x]
      /\ SameOrder(q, p, Live(c)) /\ c.log = b.log /\ c.fanoutsEnabled = b.fanoutsEnabled
  BY DEF Dropped, Deleting
<1> HIDE DEF X, T2, z
<1>3. IsRec(c) /\ Arrays(c) /\ Inner(c, Live(c)) = Drivers(c) /\ Live(c) \subseteq DOMAIN c.entries
  BY <1>2, CoreFacts
<1>4. /\ IsRec(d) /\ d.depth = c.depth /\ d.prev = c.prev /\ d.next = c.next /\ d.begin = c.begin /\ d.end = c.end
      /\ d.depthBounds = c.depthBounds /\ d.log = c.log /\ d.fanoutsEnabled = c.fanoutsEnabled
  BY <1>1, <1>3 DEF Same, IsRec, EmptyBuilder
<1>5. Arrays(d)
  BY <1>1, <1>3, <1>4 DEF Arrays
<1>6. Thread(c, Live(c), q) /\ Levels(Drivers(c), Live(c), q, c.depth, c.depthBounds)
  BY <1>2, <1>3 DEF Core, Ordered
<1>7. Thread(d, Live(d), q)
  BY <1>1, <1>4, <1>6, ThreadFields
<1>8. Levels(Drivers(d), Live(d), q, d.depth, d.depthBounds)
  BY <1>1, <1>4, <1>6
<1>9. i \in Drivers(d)
  <2>1. i \in Drivers(b) /\ i \in DOMAIN b.entries
    BY DEF MayReplace, Drivers, Live
  <2> QED BY <2>1, <1>1, <1>2 DEF Drivers, SameCells
<1>10. \A x \in Live(d) \ {i} : d.entries[x].links = c.entries[x].links
  BY <1>1, <1>2, <1>3 DEF SameOn, SameCells
<1>11. ExactOn(d, Live(d) \ {i})
  <2>1. ExactOn(c, Live(d) \ {i})
    BY <1>1, <1>2
  <2> QED BY <2>1, <1>4, <1>10, ExactSame
<1>12. DOMAIN d.entries = DOMAIN b.entries
  BY <1>1, <1>2 DEF SameCells
<1>13. /\ Live(d) \subseteq Live(b) /\ SameOrder(q, p, Live(d))
       /\ \A x \in Live(b) \ Live(d) : b.depth[x] < b.depth[i] /\ b.entries[x].type \notin {"IN", "OUT"}
       /\ \A x \in Live(d) : d.depth[x] = b.depth[x]
       /\ d.log = b.log /\ d.fanoutsEnabled = b.fanoutsEnabled
  BY <1>1, <1>2, <1>4
<1> QED BY <1>1, <1>5, <1>7, <1>8, <1>9, <1>11, <1>12, <1>13 DEF Put

-----------------------------------------------------------------------------
(* Moving a cell to another depth.                                         *)

\* Cell i may be moved to depth d.
MayMove(b, L, p, i, d) ==
  /\ Arrays(b) /\ L \subseteq DOMAIN b.entries /\ IsFiniteSet(L)
  /\ Thread(b, L, p) /\ Levels(Inner(b, L), L, p, b.depth, b.depthBounds) /\ InsFirst(b, L \ {i}, p)
  /\ i \in Inner(b, L) /\ b.entries[i].type # "IN" /\ L \ {i} # {}
  /\ d \in Nat /\ (d = 0 => b.entries[i].type \in Consts)
  /\ (d > 0 => \E x \in Inner(b, L) \ {i} : b.depth[x] = d - 1)
  /\ Size(b.entries) \in Nat /\ Cardinality(L) <= Size(b.entries)

\* Cell i is moved to depth d, as changeDepth does, and the move is logged.
MoveOf(b, i, d, name) ==
  addDepthBounds(Callback([deleteDepthBounds(b, i) EXCEPT !.depth = SetAt(@, i, d)], name, i), i)

\* The builder r is b with cell i at depth d; q numbers the cells in the new order.
Relocated(r, b, L, p, q, i, d) ==
  /\ Same(r, b, MoveFields) /\ Ordered(r, L, q)
  /\ DOMAIN r.depth = DOMAIN b.depth /\ r.depth[i] = d /\ \A x \in DOMAIN b.depth \ {i} : r.depth[x] = b.depth[x]
  /\ SameOrder(q, p, L \ {i}) /\ \A x \in L \ {i} : q[x] >= p[x] - 1

\* Inputs still come first without cell i.
LEMMA RemovedIns ==
  ASSUME NEW b, NEW L, NEW p, IsOrder(L, p), NEW i \in L, InsFirst(b, L \ {i}, p), NEW c, c.entries = b.entries,
         \A x \in L \ {i} : c.depth[x] = b.depth[x]
  PROVE  InsFirst(c, L \ {i}, Removed(L, p, i))
<1> DEFINE p1 == Removed(L, p, i)
<1>1. \A x, y \in L \ {i} : p1[x] < p1[y] <=> p[x] < p[y]
  BY RemovedOrder
<1> HIDE DEF p1
<1>2. \A x, y \in L \ {i} : b.entries[x].type = "IN" /\ b.entries[y].type # "IN" => p1[x] < p1[y]
  BY <1>1 DEF InsFirst
<1> QED BY <1>2 DEF InsFirst, p1

\* The other cells keep their order, and no cell comes nearer to the beginning by more than one.
Shifted(q, p, L, i) == SameOrder(q, p, L \ {i}) /\ \A x \in L \ {i} : q[x] >= p[x] - 1

\* Taking a cell out and inserting it elsewhere shifts the others by one at most.
LEMMA ReplacedOrder ==
  ASSUME NEW L, NEW p, IsOrder(L, p), NEW i \in L, NEW k \in Nat, IsOrder(L \ {i}, Removed(L, p, i))
  PROVE  Shifted(Inserted(L \ {i}, Removed(L, p, i), i, k), p, L, i)
<1> DEFINE p1 == Removed(L, p, i)
           q == Inserted(L \ {i}, p1, i, k)
<1>1. \A x, y \in L \ {i} : p1[x] < p1[y] <=> p[x] < p[y]
  BY RemovedOrder
<1>2. \A x, y \in L \ {i} : q[x] < q[y] <=> p1[x] < p1[y]
  <2>1. i \notin L \ {i}
    OBVIOUS
  <2> QED BY <2>1, InsertedOrder
<1>3. SameOrder(q, p, L \ {i})
  BY <1>1, <1>2 DEF SameOrder
<1>4. ASSUME NEW x \in L \ {i}
      PROVE  q[x] >= p[x] - 1
  <2>1. p[x] \in Nat /\ p[i] \in Nat
    BY DEF IsOrder
  <2>2. p1[x] = IF p[x] > p[i] THEN p[x] - 1 ELSE p[x]
    BY DEF Removed
  <2>3. q[x] = IF p1[x] > k THEN p1[x] + 1 ELSE p1[x]
    BY DEF Inserted
  <2> HIDE DEF p1, q
  <2> QED BY <2>1, <2>2, <2>3
<1> QED BY <1>3, <1>4 DEF Shifted

\* Moving a cell to a depth keeps the order by depths, inputs first and outputs last.
LEMMA Relocate ==
  ASSUME NEW b, NEW L, NEW p, NEW i, NEW d, MayMove(b, L, p, i, d), NEW name
  PROVE  \E q : Relocated(MoveOf(b, i, d, name), b, L, p, q, i, d)
<1> DEFINE In == Inner(b, L)
           p1 == Removed(L, p, i)
           M == L \ {i}
           c1 == deleteDepthBounds(b, i)
           dep == SetAt(b.depth, i, d)
           c2 == [c1 EXCEPT !.depth = SetAt(@, i, d)]
           c3 == Callback(c2, name, i)
           r == addDepthBounds(c3, i)
<1>1. /\ Arrays(b) /\ L \subseteq DOMAIN b.entries /\ IsFiniteSet(L)
      /\ Thread(b, L, p) /\ Levels(In, L, p, b.depth, b.depthBounds) /\ InsFirst(b, M, p)
      /\ i \in In /\ i \in L /\ b.entries[i].type # "IN" /\ b.entries[i].type # "OUT" /\ M # {}
      /\ d \in Nat /\ (d = 0 => b.entries[i].type \in Consts)
      /\ (d > 0 => \E x \in In \ {i} : b.depth[x] = d - 1)
      /\ Size(b.entries) \in Nat /\ Cardinality(L) <= Size(b.entries)
  BY DEF MayMove, Inner
<1>2. /\ Same(c1, b, BoundFields) /\ Arrays(c1) /\ Thread(c1, M, p1)
      /\ Levels(In \ {i}, M, p1, b.depth, c1.depthBounds)
  BY <1>1, DeleteBounds
<1>3. IsRec(b) /\ DOMAIN b.depth = DOMAIN b.entries
  BY <1>1 DEF Arrays
<1> HIDE DEF c1, p1
<1>4. IsRec(c1) /\ c1.depth = b.depth /\ c1.entries = b.entries
  BY <1>2, <1>3 DEF Same, IsRec, EmptyBuilder, BoundFields, OrderFields
<1>5. c2 = [c1 EXCEPT !.depth = dep]
  BY <1>4
<1>6. DOMAIN dep = DOMAIN b.depth /\ dep[i] = d /\ \A x \in DOMAIN b.depth \ {i} : dep[x] = b.depth[x]
  BY <1>1, <1>3 DEF SetAt
<1> HIDE DEF dep
<1>7. Same(c2, c1, {"depth"}) /\ c2.depth = dep /\ IsRec(c2)
  BY <1>4, <1>5 DEF Same, IsRec, EmptyBuilder
<1> HIDE DEF c2
<1>8. Same(c3, c2, {"log"}) /\ IsRec(c3)
  BY <1>7 DEF Callback, Same, IsRec, EmptyBuilder
<1> HIDE DEF c3
<1>9. /\ c3.depth = dep /\ c3.entries = b.entries /\ c3.prev = c1.prev /\ c3.next = c1.next /\ c3.begin = c1.begin /\ c3.end = c1.end
      /\ c3.depthBounds = c1.depthBounds
  BY <1>4, <1>7, <1>8 DEF Same, IsRec, EmptyBuilder
<1>10. Arrays(c3)
  BY <1>2, <1>3, <1>4, <1>6, <1>8, <1>9 DEF Arrays
<1>11. Thread(c3, M, p1)
  BY <1>2, <1>9, ThreadFields
<1>12. Inner(c3, M) = In \ {i}
  BY <1>9 DEF Inner
<1>13. \A x \in M : dep[x] = b.depth[x]
  BY <1>1, <1>3, <1>6
<1>14. Levels(Inner(c3, M), M, p1, c3.depth, c3.depthBounds)
  <2>1. \A x \in In \ {i} : dep[x] = b.depth[x]
    BY <1>13 DEF Inner
  <2>2. Levels(In \ {i}, M, p1, dep, c1.depthBounds)
    BY <2>1, <1>2, LevelsDepth
  <2> QED BY <2>2, <1>9, <1>12
<1>15. IsOrder(L, p) /\ IsOrder(M, p1)
  BY <1>1, <1>2 DEF Thread, IsOrder
<1>16. InsFirst(c3, M, p1)
  <2>1. c3.entries = b.entries /\ \A x \in L \ {i} : c3.depth[x] = b.depth[x]
    BY <1>9, <1>13
  <2>2. InsFirst(b, L \ {i}, p) /\ i \in L
    BY <1>1
  <2> QED BY <2>1, <2>2, <1>15, RemovedIns DEF p1
<1>17. Ordered(c3, M, p1)
  <2>1. M \subseteq DOMAIN c3.entries /\ IsFiniteSet(M)
    BY <1>1, <1>9, FS_RemoveElement
  <2> QED BY <2>1, <1>10, <1>11, <1>14, <1>16 DEF Ordered
<1>18. MayAdd(c3, M, i)
  <2>1. i \in DOMAIN c3.entries \ M /\ c3.depth[i] = d /\ c3.entries[i].type = b.entries[i].type
    BY <1>1, <1>6, <1>9
  <2>2. d > 0 => \E x \in Inner(c3, M) : c3.depth[x] = d - 1
    BY <1>1, <1>9, <1>12, <1>13 DEF Inner
  <2> QED BY <2>1, <2>2, <1>1 DEF MayAdd, Consts
<1>19. Size(c3.entries) \in Nat /\ Cardinality(M) <= Size(c3.entries)
  <2>1. Cardinality(M) = Cardinality(L) - 1 /\ Cardinality(L) \in Nat
    BY <1>1, FS_RemoveElement, FS_CardinalityType
  <2> QED BY <2>1, <1>1, <1>9
<1>20. PICK k \in Nat : AddedAt(r, c3, M, p1, i, k)
  BY <1>17, <1>18, <1>19, AddBounds
<1> HIDE DEF r
<1> DEFINE q == Inserted(M, p1, i, k)
<1>21. Ordered(r, L, q) /\ Same(r, c3, BoundFields)
  <2>1. M \cup {i} = L
    BY <1>1
  <2> QED BY <2>1, <1>20 DEF AddedAt
<1>22. SameOrder(q, p, M) /\ \A x \in M : q[x] >= p[x] - 1
  <2>1. Shifted(q, p, L, i)
    BY <1>1, <1>15, ReplacedOrder DEF p1
  <2> QED BY <2>1 DEF Shifted
<1> HIDE DEF q
<1>23. r.depth = dep /\ Same(r, b, MoveFields)
  BY <1>2, <1>7, <1>8, <1>9, <1>21, <1>3, <1>4 DEF Same, MoveFields, BoundFields, OrderFields, IsRec, EmptyBuilder
<1>24. Relocated(r, b, L, p, q, i, d)
  BY <1>6, <1>21, <1>22, <1>23 DEF Relocated
<1> QED BY <1>24 DEF r, c3, c2, c1, MoveOf

-----------------------------------------------------------------------------
(* recomputeFanoutDepths.                                                  *)

\* The walk is at entry i: the cells of U are still ahead, and what is ahead belongs to U or V.
At(i, U, V, q, L) ==
  \/ i = UpperBoundID /\ U = {}
  \/ /\ i \in L
     /\ \A u \in U : q[i] <= q[u]
     /\ \A x \in L : q[i] <= q[x] => x \in U \/ x \in V

\* The position of i, one past the end for the upper bound.
PosOf(i, q, L) == IF i \in L THEN q[i] ELSE Cardinality(L) + 1

\* The next entry is the cell at the next position, or the upper bound.
LEMMA NextIs ==
  ASSUME NEW b, Arrays(b), NEW L \in SUBSET DOMAIN b.entries, IsFiniteSet(L), NEW q, Thread(b, L, q), NEW i \in L
  PROVE  \/ getNext(b, i) = UpperBoundID /\ UpperBoundID \notin L /\ q[i] = Cardinality(L)
         \/ getNext(b, i) \in L /\ q[getNext(b, i)] = q[i] + 1
<1>1. getNext(b, i) = IF i = b.end THEN UpperBoundID ELSE Nx(b, i)
  BY ThreadEnds
<1>2. UpperBoundID \notin L
  BY DEF Arrays, UpperBoundID
<1> QED BY <1>1, <1>2 DEF Thread

\* The walk goes on to the next entry, which may just have been moved behind i.
LEMMA NextAt ==
  ASSUME NEW b, Arrays(b), NEW L \in SUBSET DOMAIN b.entries, IsFiniteSet(L), NEW q, Thread(b, L, q), NEW i \in L,
         NEW U \in SUBSET L, NEW V, At(i, U, V, q, L), NEW U2 \in SUBSET L, NEW V2, \A x \in U2 : x \in U /\ x # i,
         \A x \in L \ {i} : (x \in U \/ x \in V) => (x \in U2 \/ x \in V2),
         NEW q2 \in [L -> Nat], SameOrder(q2, q, L \ {i}), q2 = q \/ i \in V2
  PROVE  At(getNext(b, i), U2, V2, q2, L)
<1> DEFINE n == getNext(b, i)
<1>0. \A x \in L : q[x] \in Nat /\ q[x] <= Cardinality(L) /\ q2[x] \in Nat
  <2>1. Cardinality(L) \in Nat
    BY FS_CardinalityType
  <2> QED BY <2>1 DEF Thread
<1>1. \A x, y \in L : q[x] = q[y] => x = y
  BY DEF Thread
<1>2. /\ \A u \in U : q[i] <= q[u]
      /\ \A x \in L : q[i] <= q[x] => x \in U \/ x \in V
  <2>1. i # UpperBoundID
    BY DEF Arrays, UpperBoundID
  <2> QED BY <2>1 DEF At
<1>3. (n = UpperBoundID /\ q[i] = Cardinality(L)) \/ (n \in L /\ q[n] = q[i] + 1)
  BY NextIs
<1> HIDE DEF n
<1>4. CASE n = UpperBoundID /\ q[i] = Cardinality(L)
  <2>1. ASSUME NEW u \in U2 PROVE FALSE
    <3>1. u \in U /\ u # i /\ u \in L
      OBVIOUS
    <3>2. q[i] <= q[u] /\ q[u] <= q[i]
      BY <3>1, <1>0, <1>2, <1>4
    <3>3. q[u] = q[i]
      BY <3>1, <3>2, <1>0
    <3> QED BY <3>1, <3>3, <1>1
  <2> QED BY <2>1, <1>4 DEF At, n
<1>5. CASE n \in L /\ q[n] = q[i] + 1
  <2>0. n # i /\ n \in L \ {i}
    BY <1>5, <1>0
  <2>1. ASSUME NEW u \in U2 PROVE q2[n] <= q2[u]
    <3>1. u \in U /\ u \in L \ {i}
      OBVIOUS
    <3>2. q[i] <= q[u] /\ q[u] # q[i]
      BY <3>1, <1>2, <1>1
    <3>3. ~(q[u] < q[n])
      BY <3>1, <3>2, <1>0, <1>5
    <3>4. ~(q2[u] < q2[n])
      BY <3>1, <3>3, <2>0 DEF SameOrder
    <3> QED BY <3>1, <3>4, <2>0, <1>0
  <2>2. ASSUME NEW x \in L, q2[n] <= q2[x]
        PROVE  x \in U2 \/ x \in V2
    <3>1. CASE x = i
      <4>1. q2 # q
        BY <3>1, <2>2, <1>0, <1>5
      <4> QED BY <4>1, <3>1
    <3>2. CASE x # i
      <4>1. ~(q2[x] < q2[n])
        BY <2>2, <2>0, <1>0
      <4>2. ~(q[x] < q[n])
        BY <4>1, <2>0, <3>2 DEF SameOrder
      <4>3. q[i] <= q[x]
        BY <4>2, <1>0, <1>5
      <4> QED BY <4>3, <3>2, <1>2
    <3> QED BY <3>1, <3>2
  <2> QED BY <2>1, <2>2, <1>5 DEF At, n
<1> QED BY <1>3, <1>4, <1>5

\* The walk comes nearer to the end, or stays at the position where a cell has left.
LEMMA NextPos ==
  ASSUME NEW b, Arrays(b), NEW L \in SUBSET DOMAIN b.entries, IsFiniteSet(L), NEW q, Thread(b, L, q), NEW i \in L,
         NEW q2 \in [L -> Nat], \A x \in L \ {i} : q2[x] >= q[x] - 1
  PROVE  /\ PosOf(i, q, L) \in Nat /\ PosOf(i, q, L) <= Cardinality(L) /\ PosOf(getNext(b, i), q2, L) \in Nat
         /\ PosOf(getNext(b, i), q2, L) >= PosOf(i, q, L)
         /\ q2 = q => PosOf(getNext(b, i), q2, L) >= PosOf(i, q, L) + 1
<1> DEFINE n == getNext(b, i)
<1>0. Cardinality(L) \in Nat
  BY FS_CardinalityType
<1>1. q[i] \in Nat /\ q[i] <= Cardinality(L) /\ \A x \in L : q[x] \in Nat
  BY <1>0 DEF Thread
<1>2. (n = UpperBoundID /\ n \notin L /\ q[i] = Cardinality(L)) \/ (n \in L /\ q[n] = q[i] + 1)
  BY NextIs
<1> HIDE DEF n
<1>3. CASE n \notin L
  BY <1>0, <1>1, <1>2, <1>3 DEF PosOf, n
<1>4. CASE n \in L
  <2>1. q[n] = q[i] + 1 /\ n # i /\ q2[n] \in Nat
    BY <1>1, <1>2, <1>4
  <2>2. q2[n] >= q[n] - 1
    BY <2>1, <1>4
  <2>3. PosOf(i, q, L) = q[i] /\ PosOf(n, q2, L) = q2[n]
    BY <1>4 DEF PosOf
  <2> HIDE DEF PosOf
  <2>4. q2[n] >= q[i]
    BY <2>1, <2>2, <1>1
  <2>5. q2 = q => q2[n] >= q[i] + 1
    BY <2>1, <1>1
  <2> QED BY <2>1, <2>3, <2>4, <2>5, <1>1 DEF n
<1> QED BY <1>3, <1>4

\* The links of the cells of U to the cells of M.
Unseen(b, U, M) == {v \in Wires(b) : v[1] \in U /\ Targets(b)[v] \in M}

\* The unseen links are finitely many.
LEMMA UnseenFinite ==
  ASSUME NEW b, IsFiniteSet(Wires(b)), NEW U, NEW M
  PROVE  IsFiniteSet(Unseen(b, U, M)) /\ Cardinality(Unseen(b, U, M)) \in Nat
<1>1. Unseen(b, U, M) \subseteq Wires(b)
  BY DEF Unseen
<1> QED BY <1>1, FS_Subset, FS_CardinalityType

\* The links of cell u to M, counted in its list of links.
LEMMA UnseenOf ==
  ASSUME NEW b, NEW u \in Live(b), NEW M, IsFiniteSet(Wires(b))
  PROVE  Cardinality({j \in DOMAIN b.entries[u].links : b.entries[u].links[j].idx \in M}) = Cardinality(Unseen(b, {u}, M))
<1> DEFINE J == {j \in DOMAIN b.entries[u].links : b.entries[u].links[j].idx \in M}
           X == Unseen(b, {u}, M)
           g == [v \in X |-> v[2]]
<1>1. /\ \A j \in DOMAIN b.entries[u].links : <<u, j>> \in Wires(b) /\ Targets(b)[<<u, j>>] = b.entries[u].links[j].idx
      /\ \A v \in Wires(b) : v[1] = u => \E j \in DOMAIN b.entries[u].links : v = <<u, j>>
  BY WiresWired DEF Wired
<1>2. \A v \in X : \E j \in J : v = <<u, j>>
  BY <1>1 DEF Unseen
<1>3. \A j \in J : <<u, j>> \in X
  BY <1>1 DEF Unseen
<1> HIDE DEF J, X
<1>4. Matches(g, X, J)
  <2>1. \A v \in X : g[v] \in J /\ v = <<u, g[v]>>
    BY <1>2
  <2>2. \A j \in J : g[<<u, j>>] = j
    BY <1>3
  <2> HIDE DEF g
  <2>3. \A x, y \in X : g[x] = g[y] => x = y
    BY <2>1
  <2> QED BY <2>1, <2>2, <2>3, <1>3 DEF Matches
<1>5. IsFiniteSet(X)
  BY UnseenFinite DEF X
<1> QED BY <1>4, <1>5, SameCardinality DEF J, X

\* Cell u has been visited and stays.
LEMMA UnseenVisited ==
  ASSUME NEW b, IsFiniteSet(Wires(b)), NEW U, NEW u \in U, NEW M
  PROVE  Cardinality(Unseen(b, U \ {u}, M)) = Cardinality(Unseen(b, U, M)) - Cardinality(Unseen(b, {u}, M))
<1> DEFINE A == Unseen(b, U \ {u}, M)
           B == Unseen(b, {u}, M)
<1>1. A \cap B = {} /\ A \cup B = Unseen(b, U, M)
  BY DEF Unseen
<1>2. IsFiniteSet(A) /\ IsFiniteSet(B) /\ Cardinality(A) \in Nat /\ Cardinality(B) \in Nat
  BY UnseenFinite
<1> HIDE DEF A, B
<1>3. Cardinality(A \cup B) = Cardinality(A) + Cardinality(B)
  BY <1>1, <1>2, DisjointUnion
<1>4. Cardinality(A) = Cardinality(A \cup B) - Cardinality(B)
  BY <1>2, <1>3
<1> QED BY <1>1, <1>4 DEF A, B

\* Cell u has been moved: all of its users are still ahead.
LEMMA UnseenMoved ==
  ASSUME NEW b, IsFiniteSet(Wires(b)), NEW U, NEW M,
         NEW u, u \notin M, \A v \in Wires(b) : Targets(b)[v] = u => v[1] \in U
  PROVE  Cardinality(Unseen(b, U, M \cup {u})) = Cardinality(Unseen(b, U, M)) + Cardinality(To(Wires(b), Targets(b), u))
<1> DEFINE A == Unseen(b, U, M)
           B == To(Wires(b), Targets(b), u)
<1>1. A \cap B = {} /\ A \cup B = Unseen(b, U, M \cup {u})
  BY DEF Unseen, To
<1>2. IsFiniteSet(A) /\ IsFiniteSet(B)
  BY UnseenFinite, TokensFinite
<1> HIDE DEF A, B
<1>3. Cardinality(A \cup B) = Cardinality(A) + Cardinality(B)
  BY <1>1, <1>2, DisjointUnion
<1> QED BY <1>1, <1>3 DEF A, B

\* No link leads from outside U into U, and the links inside U lead back in the order.
Ahead(e, L, U, q) ==
  /\ \A u \in U : \A j \in DOMAIN e[u].links : e[u].links[j].idx \in U => q[e[u].links[j].idx] < q[u]
  /\ \A x \in L \ U : \A j \in DOMAIN e[x].links : e[x].links[j].idx \notin U

\* What has not been moved has its old depth.
OldDepths(b, o, e, D, M, U) ==
  /\ \A x \in D \ M : b.depth[x] = o.depth[x]
  /\ \A u \in U : b.depth[u] = o.depth[u] /\ IsDepthOver(o, e[u].links, o.depth[u])

\* The cells of S depend on cells of S only.
WalkBase(b0, S) ==
  /\ Body(b0) /\ Arrays(b0) /\ S \subseteq Drivers(b0)
  /\ \A x \in S : \A j \in DOMAIN b0.entries[x].links : b0.entries[x].links[j].idx \in S

\* The invariant of the walk: the cells of U have not been visited, and the counter
\* is the number of their links to the moved cells.
Walking(w, b0, o, S, U, q) ==
  /\ DOMAIN w = {"b", "i", "moved", "n"} /\ Moved(w.b, b0) /\ Ordered(w.b, Live(b0), q)
  /\ U \subseteq Live(b0) /\ w.moved \subseteq Drivers(b0) /\ U \cap w.moved = {} /\ S \cap w.moved = {} /\ S \cap U = {}
  /\ At(w.i, U, w.moved \cup S, q, Live(b0))
  /\ ExactOn(w.b, Live(b0) \ U)
  /\ Ahead(b0.entries, Live(b0), U, q)
  /\ OldDepths(w.b, o, b0.entries, Drivers(b0), w.moved, U)
  /\ w.n = Cardinality(Unseen(b0, U, w.moved))

\* The links of a live cell lead to live cells other than outputs.
LEMMA BodyLinks ==
  ASSUME NEW b, Body(b), NEW k \in Live(b), NEW j \in DOMAIN b.entries[k].links
  PROVE  b.entries[k].links[j].idx \in Drivers(b)
<1>1. <<k, j>> \in Wires(b) /\ Targets(b)[<<k, j>>] = b.entries[k].links[j].idx
  BY WiresWired DEF Wired
<1>2. \A v \in Wires(b) : Targets(b)[v] \in Drivers(b)
  BY DEF Body, Refs
<1> QED BY <1>1, <1>2

\* The depths of an ordered builder are bounded.
LEMMA OrderedDepths ==
  ASSUME NEW b, NEW L, NEW q, Ordered(b, L, q)
  PROVE  \E m \in Nat : \A x \in Inner(b, L) : b.depth[x] \in Nat /\ b.depth[x] < m
<1>1. PICK m \in Nat : DOMAIN b.depthBounds = 0 .. m - 1
  BY DEF Ordered, Levels
<1>2. \A x \in Inner(b, L) : b.depth[x] \in 0 .. m - 1
  BY <1>1 DEF Ordered, Levels
<1>3. \A x \in Inner(b, L) : b.depth[x] \in Nat /\ b.depth[x] < m
  BY ONLY <1>2, m \in Nat
<1> QED BY ONLY <1>3, m \in Nat

\* The order does not depend on the depths of the outputs.
LEMMA OrderedInner ==
  ASSUME NEW b, NEW r, NEW L,
         NEW p, Ordered(b, L, p), IsRec(r), r.entries = b.entries, DOMAIN r.depth = DOMAIN b.depth,
         \A x \in L : b.entries[x].type # "OUT" => r.depth[x] = b.depth[x],
         r.prev = b.prev, r.next = b.next, r.begin = b.begin, r.end = b.end, r.depthBounds = b.depthBounds
  PROVE  Ordered(r, L, p)
<1>1. Arrays(r)
  BY DEF Ordered, Arrays
<1>2. Thread(r, L, p)
  BY ThreadFields DEF Ordered
<1>3. Inner(r, L) = Inner(b, L) /\ \A x \in Inner(b, L) : r.depth[x] = b.depth[x]
  BY DEF Inner
<1>4. Levels(Inner(r, L), L, p, r.depth, r.depthBounds)
  <2>1. Levels(Inner(b, L), L, p, b.depth, b.depthBounds)
    BY DEF Ordered
  <2>2. Levels(Inner(b, L), L, p, r.depth, b.depthBounds)
    BY <2>1, <1>3, LevelsDepth
  <2> QED BY <2>2, <1>3
<1>5. InsFirst(r, L, p)
  <2>1. InsFirst(b, L, p)
    BY DEF Ordered
  <2>2. \A x \in L : b.entries[x].type = "IN" => b.entries[x].type # "OUT"
    OBVIOUS
  <2> QED BY <2>1, <2>2 DEF InsFirst
<1> QED BY <1>1, <1>2, <1>4, <1>5 DEF Ordered

\* What the steps of the walk use.
WalkHere(w, b0, S, U, q, e, L, i) ==
  /\ w.b.entries = e /\ Live(w.b) = L /\ w.b.fault = FALSE /\ IsRec(w.b) /\ IsRec(b0) /\ Arrays(w.b) /\ Thread(w.b, L, q)
  /\ L \in SUBSET DOMAIN e /\ IsFiniteSet(L) /\ IsFiniteSet(Wires(b0)) /\ q \in [L -> Nat]
  /\ Inner(w.b, L) = Drivers(b0) /\ DOMAIN w.b.depth = DOMAIN e /\ Drivers(b0) \subseteq L
  /\ i \in L /\ (\A u \in U : q[i] <= q[u]) /\ (i \in U \/ i \in w.moved \/ i \in S) /\ i \notin {UpperBoundID, InvalidID}
  /\ \A k \in L : \A j \in DOMAIN e[k].links : e[k].links[j].idx \in Drivers(b0)
  /\ IsDepthOver(w.b, e[i].links, DepthOver(w.b, e[i].links))
  /\ \A x \in Drivers(b0) : w.b.depth[x] \in Nat

\* What the walk knows of the entry it is at.
LEMMA WalkFacts ==
  ASSUME NEW w, NEW b0, NEW o, NEW S, WalkBase(b0, S), NEW U, NEW q, Walking(w, b0, o, S, U, q), w.n # 0
  PROVE  WalkHere(w, b0, S, U, q, b0.entries, Live(b0), w.i)
<1> DEFINE L == Live(b0)
           e == b0.entries
           i == w.i
<1>0. IsRec(b0) /\ Body(b0) /\ Arrays(b0) /\ Moved(w.b, b0)
  BY DEF WalkBase, Arrays, Walking
<1>1. w.b.entries = e /\ Live(w.b) = L /\ Drivers(w.b) = Drivers(b0) /\ w.b.fault = FALSE /\ IsRec(w.b)
  BY <1>0, MovedFields DEF Body
<1>2. Arrays(w.b) /\ Thread(w.b, L, q) /\ L \in SUBSET DOMAIN e /\ IsFiniteSet(L)
  BY <1>1 DEF Walking, Ordered
<1>3. q \in [L -> Nat]
  <2>1. Cardinality(L) \in Nat
    BY <1>2, FS_CardinalityType
  <2> QED BY <2>1, <1>2 DEF Thread
<1>4. IsFiniteSet(Wires(b0))
  BY <1>0 DEF Body, Refs
<1>5. Inner(w.b, L) = Drivers(b0) /\ Drivers(b0) \subseteq L
  BY <1>1 DEF Inner, Drivers
<1>6. U # {}
  <2>1. ASSUME U = {} PROVE FALSE
    <3>1. Unseen(b0, U, w.moved) = {}
      BY <2>1 DEF Unseen
    <3> QED BY <3>1, FS_EmptySet DEF Walking
  <2> QED BY <2>1
<1>7. i \in L /\ (\A u \in U : q[i] <= q[u]) /\ (i \in U \/ i \in w.moved \/ i \in S)
  <2>1. i \in L /\ (\A u \in U : q[i] <= q[u]) /\ \A x \in L : q[i] <= q[x] => x \in U \/ x \in w.moved \cup S
    BY <1>6 DEF Walking, At
  <2>2. q[i] <= q[i]
    BY <2>1, <1>3
  <2> QED BY <2>1, <2>2
<1>8. i \notin {UpperBoundID, InvalidID}
  BY <1>0, <1>2, <1>7 DEF Arrays, UpperBoundID, InvalidID
<1>9. \A k \in L : \A j \in DOMAIN e[k].links : e[k].links[j].idx \in Drivers(b0)
  BY <1>0, BodyLinks
<1>10. PICK m \in Nat : \A x \in Inner(w.b, L) : w.b.depth[x] \in Nat /\ w.b.depth[x] < m
  <2>1. Ordered(w.b, L, q)
    BY DEF Walking
  <2> QED BY <2>1, OrderedDepths
<1>11. IsDepthOver(w.b, e[i].links, DepthOver(w.b, e[i].links))
  <2>1. \A j \in DOMAIN e[i].links : w.b.depth[e[i].links[j].idx] \in Nat /\ w.b.depth[e[i].links[j].idx] < m
    BY <1>5, <1>7, <1>9, <1>10
  <2> QED BY <2>1, DepthOverIs
<1>12. DOMAIN w.b.depth = DOMAIN e /\ \A x \in Drivers(b0) : w.b.depth[x] \in Nat
  BY <1>2, <1>1, <1>5, <1>10 DEF Arrays
<1> QED BY <1>0, <1>1, <1>2, <1>3, <1>4, <1>5, <1>7, <1>8, <1>9, <1>11, <1>12 DEF WalkHere

\* The walk has fewer cells or places ahead.
Nearer(U2, i2, q2, U, i, q, L) ==
  /\ Cardinality(U) \in Nat /\ Cardinality(U2) \in Nat /\ PosOf(i, q, L) \in Nat /\ PosOf(i2, q2, L) \in Nat
  /\ Cardinality(U2) - PosOf(i2, q2, L) <= Cardinality(U) - PosOf(i, q, L) - 1

\* The walk meets a cell that has been moved.
LEMMA WalkSkip ==
  ASSUME NEW w, NEW b0, NEW o, NEW S, WalkBase(b0, S), NEW U,
         NEW q, Walking(w, b0, o, S, U, q), w.n # 0, w.i \in w.moved
  PROVE  /\ Walking(RecomputeStep(w), b0, o, S, U, q)
         /\ Nearer(U, RecomputeStep(w).i, q, U, w.i, q, Live(b0))
<1> DEFINE L == Live(b0)
           e == b0.entries
           i == w.i
           n == getNext(w.b, i)
           V == w.moved \cup S
           r == RecomputeStep(w)
<1>1. WalkHere(w, b0, S, U, q, e, L, i)
  BY WalkFacts
<1>2. /\ Arrays(w.b) /\ Thread(w.b, L, q) /\ L \in SUBSET DOMAIN w.b.entries /\ IsFiniteSet(L) /\ i \in L /\ q \in [L -> Nat]
      /\ w.b.fault = FALSE /\ i \notin {UpperBoundID, InvalidID}
  BY <1>1 DEF WalkHere
<1>3. U \in SUBSET L /\ At(i, U, V, q, L) /\ i \notin U
  BY DEF Walking
<1> HIDE DEF V, n
<1>4. At(n, U, V, q, L)
  <2>1. SameOrder(q, q, L \ {i})
    BY DEF SameOrder
  <2>2. \A x \in U : x \in U /\ x # i
    BY <1>3
  <2> QED BY <1>2, <1>3, <2>1, <2>2, NextAt DEF n
<1>5. PosOf(i, q, L) \in Nat /\ PosOf(n, q, L) \in Nat /\ PosOf(n, q, L) >= PosOf(i, q, L) + 1
  <2>1. \A x \in L \ {i} : q[x] >= q[x] - 1
    BY <1>2
  <2> QED BY <1>2, <2>1, NextPos DEF n
<1>6. r = [w EXCEPT !.i = n]
  BY <1>2 DEF RecomputeStep, n
<1> HIDE DEF r
<1>7. DOMAIN w = {"b", "i", "moved", "n"}
  BY DEF Walking
<1>8. DOMAIN r = DOMAIN w /\ r.i = n /\ r.b = w.b /\ r.moved = w.moved /\ r.n = w.n
  BY <1>6, <1>7
<1>9. IsFiniteSet(U) /\ Cardinality(U) \in Nat
  BY <1>2, <1>3, FS_Subset, FS_CardinalityType
<1>10. Walking(r, b0, o, S, U, q)
  BY <1>4, <1>8 DEF Walking, V
<1>11. Nearer(U, n, q, U, i, q, L)
  BY <1>5, <1>9 DEF Nearer
<1> QED BY <1>8, <1>10, <1>11 DEF r

\* The counter after the visit of cell i, which stays.
LEMMA CountStay ==
  ASSUME NEW w, NEW b0, NEW S, WalkBase(b0, S), NEW U,
         NEW i \in Live(b0), i \in U \/ i \in S, S \cap w.moved = {}, S \cap U = {},
         w.b.entries = b0.entries, w.i = i, IsFiniteSet(Wires(b0))
  PROVE  Cardinality(Unseen(b0, U \ {i}, w.moved)) = Cardinality(Unseen(b0, U, w.moved)) - LinksToMoved(w)
<1> DEFINE M == w.moved
<1>1. LinksToMoved(w) = Cardinality(Unseen(b0, {i}, M))
  BY UnseenOf DEF LinksToMoved
<1>2. CASE i \in U
  BY <1>1, <1>2, UnseenVisited
<1>3. CASE i \in S
  <2>1. U \ {i} = U
    BY <1>3
  <2>2. Unseen(b0, {i}, M) = {}
    <3>1. \A j \in DOMAIN b0.entries[i].links : b0.entries[i].links[j].idx \notin M
      BY <1>3 DEF WalkBase
    <3>2. \A v \in Wires(b0) : v[1] = i => \E j \in DOMAIN b0.entries[i].links : v = <<i, j>>
      BY WiresWired DEF Wired
    <3>3. \A j \in DOMAIN b0.entries[i].links : Targets(b0)[<<i, j>>] = b0.entries[i].links[j].idx
      BY WiresWired DEF Wired
    <3> QED BY <3>1, <3>2, <3>3 DEF Unseen
  <2>3. Cardinality(Unseen(b0, {i}, M)) = 0
    BY <2>2, FS_EmptySet
  <2>4. Cardinality(Unseen(b0, U, M)) \in Nat
    BY UnseenFinite
  <2>5. LinksToMoved(w) = 0
    BY <2>3, <1>1
  <2>6. Cardinality(Unseen(b0, U, M)) = Cardinality(Unseen(b0, U, M)) - 0
    BY <2>4
  <2> QED BY <2>1, <2>5, <2>6
<1> QED BY <1>2, <1>3

\* The links of the visited cell do not lead ahead.
LEMMA AheadVisited ==
  ASSUME NEW e, NEW L, NEW U \in SUBSET L, NEW q \in [L -> Nat], Ahead(e, L, U, q),
         NEW i \in L, \A u \in U : q[i] <= q[u],
         NEW q2, SameOrder(q2, q, L \ {i}) \/ q2 = q
  PROVE  Ahead(e, L, U \ {i}, q2) /\ \A j \in DOMAIN e[i].links : e[i].links[j].idx \notin U
<1>1. \A j \in DOMAIN e[i].links : e[i].links[j].idx \notin U
  <2> SUFFICES ASSUME NEW j \in DOMAIN e[i].links, e[i].links[j].idx \in U PROVE FALSE
    OBVIOUS
  <2> DEFINE y == e[i].links[j].idx
  <2>1. i \in U
    BY DEF Ahead
  <2>2. q[y] < q[i]
    BY <2>1 DEF Ahead
  <2>3. q[i] <= q[y] /\ q[i] \in Nat /\ q[y] \in Nat
    OBVIOUS
  <2> QED BY <2>2, <2>3
<1>2. ASSUME NEW u \in U \ {i}, NEW j \in DOMAIN e[u].links, e[u].links[j].idx \in U \ {i}
      PROVE  q2[e[u].links[j].idx] < q2[u]
  <2> DEFINE y == e[u].links[j].idx
  <2>1. q[y] < q[u]
    BY <1>2 DEF Ahead
  <2>2. y \in L \ {i} /\ u \in L \ {i}
    BY <1>2
  <2> HIDE DEF y
  <2>3. q2[y] < q2[u]
    BY <2>1, <2>2 DEF SameOrder
  <2> QED BY <2>3 DEF y
<1>3. ASSUME NEW x \in L \ (U \ {i}), NEW j \in DOMAIN e[x].links
      PROVE  e[x].links[j].idx \notin U \ {i}
  <2>1. CASE x = i
    BY <2>1, <1>1
  <2>2. CASE x # i
    <3>1. x \in L \ U
      BY <2>2
    <3> QED BY <3>1 DEF Ahead
  <2> QED BY <2>1, <2>2
<1> QED BY <1>1, <1>2, <1>3 DEF Ahead

\* The walk visits a cell that stays where it is.
LEMMA WalkStay ==
  ASSUME NEW w, NEW b0, NEW o, NEW S, WalkBase(b0, S), NEW U,
         NEW q, Walking(w, b0, o, S, U, q), w.n # 0, w.i \notin w.moved,
         DepthOver(w.b, w.b.entries[w.i].links) = w.b.depth[w.i] \/ w.b.entries[w.i].type = "OUT"
  PROVE  /\ Walking(RecomputeStep(w), b0, o, S, U \ {w.i}, q)
         /\ Nearer(U \ {w.i}, RecomputeStep(w).i, q, U, w.i, q, Live(b0))
<1> DEFINE L == Live(b0)
           e == b0.entries
           i == w.i
           n == getNext(w.b, i)
           V == w.moved \cup S
           U2 == U \ {i}
           d == DepthOver(w.b, e[i].links)
           dep == SetAt(w.b.depth, i, d)
           r == RecomputeStep(w)
<1>1. WalkHere(w, b0, S, U, q, e, L, i)
  BY WalkFacts
<1>2. /\ Arrays(w.b) /\ Thread(w.b, L, q) /\ L \in SUBSET DOMAIN e /\ IsFiniteSet(L) /\ i \in L /\ q \in [L -> Nat]
      /\ w.b.fault = FALSE /\ i \notin {UpperBoundID, InvalidID} /\ w.b.entries = e /\ DOMAIN w.b.depth = DOMAIN e
      /\ (i \in U \/ i \in w.moved \/ i \in S) /\ IsDepthOver(w.b, e[i].links, d) /\ IsFiniteSet(Wires(b0)) /\ IsRec(w.b) /\ IsRec(b0)
      /\ Inner(w.b, L) = Drivers(b0) /\ Drivers(b0) \subseteq L /\ Live(w.b) = L
      /\ \A u \in U : q[i] <= q[u]
      /\ \A k \in L : \A j \in DOMAIN e[k].links : e[k].links[j].idx \in Drivers(b0)
  BY <1>1 DEF WalkHere
<1>3. /\ U \in SUBSET L /\ At(i, U, V, q, L) /\ i \notin w.moved /\ Moved(w.b, b0) /\ Ordered(w.b, L, q)
      /\ w.moved \subseteq Drivers(b0) /\ U \cap w.moved = {} /\ S \cap w.moved = {} /\ S \cap U = {}
      /\ ExactOn(w.b, L \ U) /\ Ahead(e, L, U, q) /\ OldDepths(w.b, o, e, Drivers(b0), w.moved, U)
      /\ w.n = Cardinality(Unseen(b0, U, w.moved)) /\ DOMAIN w = {"b", "i", "moved", "n"}
  BY DEF Walking
<1> HIDE DEF V, n, d
<1>4. At(n, U2, V, q, L)
  <2>1. SameOrder(q, q, L \ {i})
    BY DEF SameOrder
  <2>2. (\A x \in U2 : x \in U /\ x # i) /\ U2 \in SUBSET L /\ \A x \in L \ {i} : (x \in U \/ x \in V) => (x \in U2 \/ x \in V)
    BY <1>3
  <2>3. L \in SUBSET DOMAIN w.b.entries
    BY <1>2
  <2> HIDE DEF U2
  <2> QED BY <1>2, <1>3, <2>1, <2>2, <2>3, NextAt DEF n
<1>5. PosOf(i, q, L) \in Nat /\ PosOf(n, q, L) \in Nat /\ PosOf(n, q, L) >= PosOf(i, q, L) + 1
  <2>1. \A x \in L \ {i} : q[x] >= q[x] - 1
    BY <1>2
  <2>2. L \in SUBSET DOMAIN w.b.entries
    BY <1>2
  <2> QED BY <1>2, <2>1, <2>2, NextPos DEF n
<1>6. dep[i] = d /\ DOMAIN dep = DOMAIN w.b.depth /\ \A x \in DOMAIN w.b.depth \ {i} : dep[x] = w.b.depth[x]
  BY <1>2 DEF SetAt
<1>7. /\ DOMAIN r = {"b", "i", "moved", "n"} /\ r.b = [w.b EXCEPT !.depth = dep] /\ r.i = n /\ r.moved = w.moved
      /\ r.n = w.n - LinksToMoved(w)
  <2>1. r = VisitCell(w)
    BY <1>2, <1>3 DEF RecomputeStep
  <2>2. DepthOver(w.b, w.b.entries[w.i].links) = d
    BY <1>2 DEF d
  <2>3. ~(d # w.b.depth[w.i] /\ w.b.entries[w.i].type # "OUT")
    BY <2>2
  <2>4. VisitCell(w) = [b |-> [w.b EXCEPT !.depth = dep], i |-> n, moved |-> w.moved, n |-> w.n - LinksToMoved(w) + 0]
    BY <2>2, <2>3 DEF VisitCell, n
  <2>5. w.n - LinksToMoved(w) \in Int
    <3>1. w.n \in Nat
      BY <1>2, <1>3, UnseenFinite
    <3>2. LinksToMoved(w) = Cardinality(Unseen(b0, {i}, w.moved))
      BY <1>2, UnseenOf DEF LinksToMoved
    <3>3. Cardinality(Unseen(b0, {i}, w.moved)) \in Nat
      BY <1>2, UnseenFinite
    <3> QED BY <3>1, <3>2, <3>3
  <2> HIDE DEF r, dep
  <2> QED BY <2>1, <2>4, <2>5
<1> HIDE DEF r, dep
<1>8. Same(r.b, w.b, {"depth"}) /\ r.b.depth = dep /\ IsRec(r.b)
  BY <1>2, <1>7 DEF Same, IsRec, EmptyBuilder
<1>9. /\ r.b.entries = e /\ r.b.prev = w.b.prev /\ r.b.next = w.b.next /\ r.b.begin = w.b.begin /\ r.b.end = w.b.end
      /\ r.b.depthBounds = w.b.depthBounds
  BY <1>2, <1>8 DEF Same, IsRec, EmptyBuilder
<1>10. \A x \in DOMAIN e : (x # i \/ e[x].type # "OUT") => dep[x] = w.b.depth[x]
  BY <1>2, <1>6 DEF d
<1>11. Ordered(r.b, L, q)
  <2>1. \A x \in L : w.b.entries[x].type # "OUT" => r.b.depth[x] = w.b.depth[x]
    BY <1>2, <1>8, <1>10
  <2>2. r.b.entries = w.b.entries /\ DOMAIN r.b.depth = DOMAIN w.b.depth
    BY <1>2, <1>6, <1>8, <1>9
  <2> QED BY <2>1, <2>2, <1>3, <1>8, <1>9, OrderedInner
<1>12. \A x \in Drivers(b0) : dep[x] = w.b.depth[x]
  BY <1>2, <1>10 DEF Drivers
<1>13. ExactOn(r.b, L \ U2)
  <2> SUFFICES ASSUME NEW x \in L \ U2 PROVE IsDepthOver(r.b, e[x].links, r.b.depth[x])
    BY <1>9 DEF ExactOn
  <2>1. \A j \in DOMAIN e[x].links : r.b.depth[e[x].links[j].idx] = w.b.depth[e[x].links[j].idx]
    BY <1>2, <1>8, <1>12
  <2>2. IsDepthOver(w.b, e[x].links, r.b.depth[x])
    <3>1. CASE x = i
      BY <3>1, <1>2, <1>6, <1>8
    <3>2. CASE x # i
      <4>1. x \in L \ U /\ r.b.depth[x] = w.b.depth[x]
        BY <3>2, <1>2, <1>8, <1>10
      <4> QED BY <4>1, <1>2, <1>3 DEF ExactOn
    <3> QED BY <3>1, <3>2
  <2> QED BY <2>1, <2>2 DEF IsDepthOver
<1>14. Ahead(e, L, U2, q)
  BY <1>2, <1>3, AheadVisited
<1>15. OldDepths(r.b, o, e, Drivers(b0), w.moved, U2)
  <2>1. \A u \in U2 : dep[u] = w.b.depth[u]
    BY <1>2, <1>3, <1>10
  <2> QED BY <2>1, <1>3, <1>8, <1>12 DEF OldDepths
<1>16. r.n = Cardinality(Unseen(b0, U2, w.moved))
  <2>1. i \in U \/ i \in S
    BY <1>2, <1>3
  <2>2. Cardinality(Unseen(b0, U \ {i}, w.moved)) = Cardinality(Unseen(b0, U, w.moved)) - LinksToMoved(w)
    BY <2>1, <1>2, <1>3, CountStay
  <2> QED BY <2>2, <1>3, <1>7
<1>17. Moved(r.b, b0)
  <2>1. d \in Nat
    BY <1>2 DEF IsDepthOver
  <2>2. Moved(r.b, w.b)
    <3>1. Same(r.b, w.b, MoveFields)
      BY <1>8 DEF Same, MoveFields
    <3>2. \A x \in Live(w.b) : r.b.depth[x] \in Nat
      <4>1. \A x \in L : w.b.depth[x] \in Nat
        BY <1>3 DEF Moved
      <4> QED BY <4>1, <2>1, <1>2, <1>6, <1>8
    <3>3. \A x \in DOMAIN w.b.entries \ Live(w.b) : r.b.depth[x] = w.b.depth[x]
      BY <1>2, <1>6, <1>8
    <3> QED BY <3>1, <3>2, <3>3, <1>2, <1>6, <1>8 DEF Moved
  <2> QED BY <2>2, <1>2, <1>3, MovedTrans
<1>18. Walking(r, b0, o, S, U2, q)
  BY <1>3, <1>4, <1>7, <1>11, <1>13, <1>14, <1>15, <1>16, <1>17 DEF Walking, V
<1>19. Nearer(U2, n, q, U, i, q, L)
  <2>1. IsFiniteSet(U) /\ IsFiniteSet(U2) /\ U2 \subseteq U
    BY <1>2, <1>3, FS_Subset
  <2>2. Cardinality(U) \in Nat /\ Cardinality(U2) \in Nat /\ Cardinality(U2) <= Cardinality(U)
    BY <2>1, FS_Subset, FS_CardinalityType
  <2> QED BY <2>2, <1>5 DEF Nearer
<1> QED BY <1>7, <1>18, <1>19 DEF r

\* A cell that has to move may be moved.
LEMMA WalkMayMove ==
  ASSUME NEW w, NEW b0, NEW o, NEW S, WalkBase(b0, S), NEW U,
         NEW q, Walking(w, b0, o, S, U, q), w.n # 0, w.i \notin w.moved,
         NEW d, d = DepthOver(w.b, b0.entries[w.i].links), d # w.b.depth[w.i], w.b.entries[w.i].type # "OUT"
  PROVE  MayMove(w.b, Live(b0), q, w.i, d) /\ w.i \in U
<1> DEFINE L == Live(b0)
           e == b0.entries
           i == w.i
<1>1. WalkHere(w, b0, S, U, q, e, L, i)
  BY WalkFacts
<1>2. /\ Arrays(w.b) /\ Thread(w.b, L, q) /\ L \in SUBSET DOMAIN e /\ IsFiniteSet(L) /\ i \in L /\ q \in [L -> Nat]
      /\ w.b.entries = e /\ (i \in U \/ i \in w.moved \/ i \in S) /\ IsDepthOver(w.b, e[i].links, d)
      /\ Inner(w.b, L) = Drivers(b0) /\ Drivers(b0) \subseteq L
      /\ (\A u \in U : q[i] <= q[u])
      /\ \A k \in L : \A j \in DOMAIN e[k].links : e[k].links[j].idx \in Drivers(b0)
      /\ \A x \in Drivers(b0) : w.b.depth[x] \in Nat
  BY <1>1 DEF WalkHere
<1>3. /\ U \in SUBSET L /\ i \notin w.moved /\ Ordered(w.b, L, q) /\ S \cap U = {}
      /\ ExactOn(w.b, L \ U) /\ Ahead(e, L, U, q)
  BY DEF Walking
<1>4. Body(b0)
  BY DEF WalkBase
<1>5. i \in U
  <2>1. ASSUME i \notin U PROVE FALSE
    <3>1. IsDepthOver(w.b, e[i].links, w.b.depth[i])
      BY <2>1, <1>2, <1>3 DEF ExactOn
    <3>2. \A j \in DOMAIN e[i].links : w.b.depth[e[i].links[j].idx] \in Nat
      BY <1>2
    <3>3. d = w.b.depth[i]
      BY <3>1, <3>2, <1>2, DepthOverUnique
    <3> QED BY <3>3
  <2> QED BY <2>1
<1>6. \A j \in DOMAIN e[i].links : e[i].links[j].idx # i
  <2>1. Ahead(e, L, U \ {i}, q) /\ \A j \in DOMAIN e[i].links : e[i].links[j].idx \notin U
    BY <1>2, <1>3, <1>5, AheadVisited
  <2> QED BY <2>1, <1>5
<1>7. /\ Levels(Inner(w.b, L), L, q, w.b.depth, w.b.depthBounds) /\ InsFirst(w.b, L, q)
  BY <1>3 DEF Ordered
<1>8. Arity(e[i].type, e[i].links)
  BY <1>2, <1>4 DEF Body, Arities
<1>9. d \in Nat /\ (d > 0 => \E j \in DOMAIN e[i].links : w.b.depth[e[i].links[j].idx] = d - 1)
      /\ \A j \in DOMAIN e[i].links : w.b.depth[e[i].links[j].idx] < d
  BY <1>2 DEF IsDepthOver
<1>10. d = 0 => DOMAIN e[i].links = {}
  BY <1>2, <1>9
<1>11. e[i].type # "IN"
  <2>1. ASSUME e[i].type = "IN" PROVE FALSE
    <3>1. DOMAIN e[i].links = {} /\ w.b.depth[i] = 0
      BY <2>1, <1>2, <1>7, <1>8 DEF Arity, InsFirst
    <3>2. d = 0
      BY <3>1, <1>9
    <3> QED BY <3>1, <3>2
  <2> QED BY <2>1
<1>12. d = 0 => e[i].type \in Consts
  BY <1>8, <1>10, <1>11 DEF Arity, Consts
<1>13. d > 0 => \E x \in Inner(w.b, L) \ {i} : w.b.depth[x] = d - 1
  BY <1>2, <1>6, <1>9
<1>14. InsFirst(w.b, L \ {i}, q) /\ L \ {i} # {}
  <2>1. PICK x \in L : e[x].type = "IN"
    BY <1>2, <1>7 DEF InsFirst
  <2>2. x \in L \ {i}
    BY <2>1, <1>11
  <2>3. L \ {i} # {} /\ \E y \in L \ {i} : w.b.entries[y].type = "IN"
    BY <2>1, <2>2, <1>2
  <2> QED BY <2>3, <1>7 DEF InsFirst
<1>15. Size(w.b.entries) \in Nat /\ Cardinality(L) <= Size(w.b.entries)
  <2>1. PICK m \in Nat : DOMAIN e = 0 .. m - 1
    BY <1>4 DEF Body, CellsOK
  <2>2. Size(e) = m /\ IsFiniteSet(DOMAIN e)
    BY <2>1, SizeIs
  <2>3. Cardinality(L) <= Cardinality(DOMAIN e)
    BY <2>2, <1>2, FS_Subset
  <2> QED BY <2>2, <2>3, <1>2 DEF Size
<1>16. i \in Inner(w.b, L)
  BY <1>2 DEF Inner
<1> QED BY <1>2, <1>5, <1>7, <1>9, <1>11, <1>12, <1>13, <1>14, <1>15, <1>16 DEF MayMove

\* The counter of the walk after cell i has been moved.
MoveCounted(w, b0, U, i) ==
  Cardinality(Unseen(b0, U \ {i}, w.moved \cup {i}))
    = Cardinality(Unseen(b0, U, w.moved)) - LinksToMoved(w) + b0.entries[i].refcount

\* The counter after cell i has been moved.
LEMMA CountMove ==
  ASSUME NEW w, NEW b0, NEW S, WalkBase(b0, S), NEW U \in SUBSET Live(b0),
         NEW i \in U, S \cap w.moved = {}, S \cap U = {},
         w.b.entries = b0.entries, w.i = i, IsFiniteSet(Wires(b0)), NEW q, Ahead(b0.entries, Live(b0), U, q),
         \A j \in DOMAIN b0.entries[i].links : b0.entries[i].links[j].idx # i, i \notin w.moved, i \in DOMAIN b0.entries
  PROVE  MoveCounted(w, b0, U, i)
<1>1. Cardinality(Unseen(b0, U \ {i}, w.moved)) = Cardinality(Unseen(b0, U, w.moved)) - LinksToMoved(w)
  BY CountStay
<1>2. ASSUME NEW v \in Wires(b0), Targets(b0)[v] = i
      PROVE  v[1] \in U \ {i}
  <2>1. v[1] \in Live(b0)
    BY WiresWired
  <2>2. PICK j \in DOMAIN b0.entries[v[1]].links : b0.entries[v[1]].links[j].idx = i
    <3>1. PICK j \in DOMAIN b0.entries[v[1]].links : v = <<v[1], j>>
      BY <2>1, WiresWired DEF Wired
    <3>2. Targets(b0)[<<v[1], j>>] = b0.entries[v[1]].links[j].idx
      BY <2>1, WiresWired DEF Wired
    <3> QED BY <3>1, <3>2, <1>2
  <2>3. v[1] \in U
    BY <2>1, <2>2 DEF Ahead
  <2> QED BY <2>2, <2>3
<1>3. Cardinality(Unseen(b0, U \ {i}, w.moved \cup {i})) = Cardinality(Unseen(b0, U \ {i}, w.moved)) + Cardinality(To(Wires(b0), Targets(b0), i))
  BY <1>2, UnseenMoved
<1>4. b0.entries[i].refcount = Cardinality(To(Wires(b0), Targets(b0), i))
  BY DEF WalkBase, Body, Refs
<1> QED BY <1>1, <1>3, <1>4 DEF MoveCounted

\* The inputs and the outputs among the cells of L.
Ends(e, L) == {x \in L : e[x].type \in {"IN", "OUT"}}

\* The walk moves a cell.
LEMMA WalkMove ==
  ASSUME NEW w, NEW b0, NEW o, NEW S, WalkBase(b0, S), NEW U,
         NEW q, Walking(w, b0, o, S, U, q), w.n # 0, w.i \notin w.moved,
         DepthOver(w.b, w.b.entries[w.i].links) # w.b.depth[w.i], w.b.entries[w.i].type # "OUT"
  PROVE  \E q2 : /\ Walking(RecomputeStep(w), b0, o, S, U \ {w.i}, q2)
                 /\ Nearer(U \ {w.i}, RecomputeStep(w).i, q2, U, w.i, q, Live(b0))
                 /\ SameOrder(q2, q, Ends(b0.entries, Live(b0)))
<1> DEFINE L == Live(b0)
           e == b0.entries
           i == w.i
           n == getNext(w.b, i)
           V == w.moved \cup S
           V2 == (w.moved \cup {i}) \cup S
           U2 == U \ {i}
           d == DepthOver(w.b, e[i].links)
           c == MoveOf(w.b, i, d, "RecomputedDepth")
           r == RecomputeStep(w)
<1>1. WalkHere(w, b0, S, U, q, e, L, i)
  BY WalkFacts
<1>2. /\ Arrays(w.b) /\ Thread(w.b, L, q) /\ L \in SUBSET DOMAIN e /\ IsFiniteSet(L) /\ i \in L /\ q \in [L -> Nat]
      /\ w.b.fault = FALSE /\ i \notin {UpperBoundID, InvalidID} /\ w.b.entries = e /\ DOMAIN w.b.depth = DOMAIN e
      /\ IsDepthOver(w.b, e[i].links, d) /\ IsFiniteSet(Wires(b0)) /\ IsRec(w.b) /\ IsRec(b0)
      /\ Inner(w.b, L) = Drivers(b0) /\ Drivers(b0) \subseteq L /\ Live(w.b) = L
      /\ \A u \in U : q[i] <= q[u]
      /\ \A k \in L : \A j \in DOMAIN e[k].links : e[k].links[j].idx \in Drivers(b0)
  BY <1>1 DEF WalkHere
<1>3. /\ U \in SUBSET L /\ At(i, U, V, q, L) /\ i \notin w.moved /\ Moved(w.b, b0) /\ Ordered(w.b, L, q)
      /\ w.moved \subseteq Drivers(b0) /\ U \cap w.moved = {} /\ S \cap w.moved = {} /\ S \cap U = {}
      /\ ExactOn(w.b, L \ U) /\ Ahead(e, L, U, q) /\ OldDepths(w.b, o, e, Drivers(b0), w.moved, U)
      /\ w.n = Cardinality(Unseen(b0, U, w.moved)) /\ DOMAIN w = {"b", "i", "moved", "n"}
  BY DEF Walking
<1>3a. d # w.b.depth[i]
  BY <1>2
<1>4. MayMove(w.b, L, q, i, d) /\ i \in U
  BY <1>3a, WalkMayMove
<1> HIDE DEF d
<1>5. PICK q2 : Relocated(c, w.b, L, q, q2, i, d)
  BY <1>4, Relocate
<1>6. /\ Same(c, w.b, MoveFields) /\ Ordered(c, L, q2)
      /\ DOMAIN c.depth = DOMAIN w.b.depth /\ c.depth[i] = d /\ (\A x \in DOMAIN w.b.depth \ {i} : c.depth[x] = w.b.depth[x])
      /\ SameOrder(q2, q, L \ {i}) /\ \A x \in L \ {i} : q2[x] >= q[x] - 1
  BY <1>5 DEF Relocated
<1>7. /\ Ahead(e, L, U2, q2)
      /\ \A j \in DOMAIN e[i].links : e[i].links[j].idx \notin U
  BY <1>2, <1>3, <1>6, AheadVisited
<1>8. Ahead(e, L, U2, q2)
  BY <1>7
<1>9. q2 \in [L -> Nat]
  <2>1. Cardinality(L) \in Nat
    BY <1>2, FS_CardinalityType
  <2> QED BY <2>1, <1>6 DEF Ordered, Thread
<1> HIDE DEF V, V2, n, c
<1>10. At(n, U2, V2, q2, L)
  <2>1. i \in V2
    BY DEF V2
  <2>2. (\A x \in U2 : x \in U /\ x # i) /\ U2 \in SUBSET L /\ \A x \in L \ {i} : (x \in U \/ x \in V) => (x \in U2 \/ x \in V2)
    BY <1>3 DEF V, V2
  <2>3. L \in SUBSET DOMAIN w.b.entries
    BY <1>2
  <2> HIDE DEF U2
  <2> QED BY <1>2, <1>3, <1>6, <1>9, <2>1, <2>2, <2>3, NextAt DEF n
<1>11. PosOf(i, q, L) \in Nat /\ PosOf(n, q2, L) \in Nat /\ PosOf(n, q2, L) >= PosOf(i, q, L)
  <2>1. L \in SUBSET DOMAIN w.b.entries
    BY <1>2
  <2> QED BY <1>2, <1>6, <1>9, <2>1, NextPos DEF n
<1>12. /\ DOMAIN r = {"b", "i", "moved", "n"} /\ r.b = c /\ r.i = n /\ r.moved = w.moved \cup {i}
       /\ r.n = w.n - LinksToMoved(w) + e[i].refcount
  <2>1. r = VisitCell(w)
    BY <1>2, <1>3 DEF RecomputeStep
  <2>2. DepthOver(w.b, w.b.entries[w.i].links) = d
    BY <1>2 DEF d
  <2>3. d # w.b.depth[w.i] /\ w.b.entries[w.i].type # "OUT"
    BY <1>3a
  <2>4. MoveCell(w, d) = c
    BY DEF MoveCell, MoveOf, c
  <2>5. VisitCell(w) = [b |-> c, i |-> n, moved |-> w.moved \cup {i}, n |-> w.n - LinksToMoved(w) + w.b.entries[w.i].refcount]
    BY <2>2, <2>3, <2>4 DEF VisitCell, n
  <2> HIDE DEF r
  <2> QED BY <2>1, <2>5, <1>2
<1> HIDE DEF r
<1>13. c.entries = e /\ IsRec(c)
  BY <1>2, <1>6 DEF Same, MoveFields, BoundFields, OrderFields, IsRec, EmptyBuilder
<1>14. ExactOn(c, L \ U2)
  <2> SUFFICES ASSUME NEW x \in L \ U2 PROVE IsDepthOver(c, e[x].links, c.depth[x])
    BY <1>13 DEF ExactOn
  <2>1. \A j \in DOMAIN e[x].links : e[x].links[j].idx \notin U
    <3>1. CASE x = i
      BY <3>1, <1>7
    <3>2. CASE x # i
      BY <3>2, <1>3 DEF Ahead
    <3> QED BY <3>1, <3>2
  <2>2. \A j \in DOMAIN e[x].links : c.depth[e[x].links[j].idx] = w.b.depth[e[x].links[j].idx]
    BY <2>1, <1>2, <1>4, <1>6
  <2>3. IsDepthOver(w.b, e[x].links, c.depth[x])
    <3>1. CASE x = i
      BY <3>1, <1>2, <1>6
    <3>2. CASE x # i
      <4>1. x \in L \ U /\ c.depth[x] = w.b.depth[x]
        BY <3>2, <1>2, <1>6
      <4> QED BY <4>1, <1>2, <1>3 DEF ExactOn
    <3> QED BY <3>1, <3>2
  <2> QED BY <2>2, <2>3 DEF IsDepthOver
<1>15. OldDepths(c, o, e, Drivers(b0), w.moved \cup {i}, U2)
  <2>1. \A x \in L \ {i} : c.depth[x] = w.b.depth[x]
    BY <1>2, <1>6
  <2> QED BY <2>1, <1>2, <1>3 DEF OldDepths
<1>16. r.n = Cardinality(Unseen(b0, U2, w.moved \cup {i}))
  <2>1. \A j \in DOMAIN e[i].links : e[i].links[j].idx # i
    BY <1>4, <1>7
  <2>2. Cardinality(Unseen(b0, U2, w.moved \cup {i})) = Cardinality(Unseen(b0, U, w.moved)) - LinksToMoved(w) + e[i].refcount
    <3>1. i \in DOMAIN e
      BY <1>2
    <3>2. /\ WalkBase(b0, S) /\ U \in SUBSET Live(b0) /\ w.i \in U /\ S \cap w.moved = {} /\ S \cap U = {}
          /\ w.b.entries = b0.entries /\ IsFiniteSet(Wires(b0)) /\ Ahead(b0.entries, Live(b0), U, q)
          /\ (\A j \in DOMAIN b0.entries[w.i].links : b0.entries[w.i].links[j].idx # w.i) /\ w.i \notin w.moved /\ w.i \in DOMAIN b0.entries
      BY <2>1, <3>1, <1>2, <1>3, <1>4
    <3>3. MoveCounted(w, b0, U, i)
      BY <3>2, CountMove
    <3> QED BY <3>3 DEF MoveCounted
  <2> QED BY <2>2, <1>3, <1>12
<1>17. Moved(c, b0)
  <2>1. d \in Nat
    BY <1>2 DEF IsDepthOver
  <2>2. Moved(c, w.b)
    <3>2. \A x \in Live(w.b) : c.depth[x] \in Nat
      <4>1. \A x \in L : w.b.depth[x] \in Nat
        BY <1>3 DEF Moved
      <4> QED BY <4>1, <2>1, <1>2, <1>6
    <3>3. \A x \in DOMAIN w.b.entries \ Live(w.b) : c.depth[x] = w.b.depth[x]
      BY <1>2, <1>6
    <3> QED BY <3>2, <3>3, <1>2, <1>6 DEF Moved
  <2> QED BY <2>2, <1>2, <1>3, MovedTrans
<1>18. Walking(r, b0, o, S, U2, q2)
  <2>1. i \in Drivers(b0) /\ i \notin S
    BY <1>2, <1>3, <1>4 DEF Inner
  <2>2. r.moved \subseteq Drivers(b0) /\ U2 \cap r.moved = {} /\ S \cap r.moved = {} /\ S \cap U2 = {} /\ U2 \subseteq L
    BY <2>1, <1>3, <1>12
  <2> HIDE DEF U2
  <2> QED BY <2>2, <1>6, <1>8, <1>10, <1>12, <1>14, <1>15, <1>16, <1>17 DEF Walking, V2
<1>19. Nearer(U2, n, q2, U, i, q, L)
  <2>1. IsFiniteSet(U)
    BY <1>2, <1>3, FS_Subset
  <2>2. Cardinality(U) \in Nat /\ Cardinality(U2) \in Nat /\ Cardinality(U2) = Cardinality(U) - 1
    BY <2>1, <1>4, FS_RemoveElement, FS_CardinalityType
  <2> QED BY <2>2, <1>11 DEF Nearer
<1>20. SameOrder(q2, q, Ends(e, L))
  <2>1. e[i].type \notin {"IN", "OUT"}
    BY <1>2, <1>4 DEF MayMove
  <2>2. Ends(e, L) \subseteq L \ {i}
    BY <2>1 DEF Ends
  <2> QED BY <2>2, <1>6 DEF SameOrder
<1> QED BY <1>12, <1>18, <1>19, <1>20 DEF r

\* One iteration of recomputeFanoutDepths.
RecomputeLoop(c, w, k) == RecomputeStep(w)

\* The loop of recomputeFanoutDepths has runs.
Recomputes == INSTANCE LoopProofs WITH Step <- RecomputeLoop

\* walk is the run of recomputeFanoutDepths(b, root, next).
IsRecomputing(walk, b, root, next, N) ==
  /\ walk[0] = [b |-> b, i |-> next, moved |-> {root}, n |-> b.entries[root].refcount]
  /\ \A k \in 1 .. N : walk[k] = RecomputeStep(walk[k - 1])
  /\ recomputeFanoutDepths(b, root, next) = Require(walk[N].b, walk[N].n = 0)

\* recomputeFanoutDepths is the last state of a run of its loop.
LEMMA RecomputeRun ==
  ASSUME NEW b, NEW root, NEW next, NEW N \in Nat, N = 2 * Size(b.entries) + 1
  PROVE  \E walk : IsRecomputing(walk, b, root, next, N)
<1> DEFINE base == [b |-> b, i |-> next, moved |-> {root}, n |-> b.entries[root].refcount]
           IsF(g) == g = [k \in 0 .. N |-> IF k = 0 THEN base ELSE RecomputeStep(g[k - 1])]
           f == CHOOSE g : IsF(g)
<1>1. \E g : Recomputes!IsRun(g, <<>>, base, N)
  BY Recomputes!RunExists, LeastNumbers DEF Recomputes!WellOrdered
<1>2. \E g : IsF(g)
  BY <1>1 DEF Recomputes!IsRun, RecomputeLoop
<1>3. IsF(f)
  <2> HIDE DEF IsF
  <2> QED BY <1>2
<1>4. recomputeFanoutDepths(b, root, next) = Require(f[N].b, f[N].n = 0)
  BY DEF recomputeFanoutDepths
<1> HIDE DEF f
<1>5. f[0] = base
  BY <1>3
<1>6. \A k \in 1 .. N : f[k] = RecomputeStep(f[k - 1])
  <2> TAKE k \in 1 .. N
  <2>1. k \in 0 .. N /\ k # 0
    OBVIOUS
  <2> HIDE DEF base
  <2> QED BY <2>1, <1>3
<1>7. IsRecomputing(f, b, root, next, N)
  BY <1>4, <1>5, <1>6 DEF IsRecomputing
<1> QED BY <1>7

\* The walk after k steps: done, or with at most m - k steps to go.
WalkedTo(w, b0, o, S, p, k, m) ==
  \E U, q : /\ Walking(w, b0, o, S, U, q) /\ SameOrder(q, p, Ends(b0.entries, Live(b0)))
            /\ \/ w.n = 0
               \/ /\ Cardinality(U) \in Nat /\ PosOf(w.i, q, Live(b0)) \in Nat
                  /\ Cardinality(U) + Cardinality(Live(b0)) + 1 - PosOf(w.i, q, Live(b0)) + k <= m

\* Every iteration brings the walk nearer to its end and keeps its invariant.
LEMMA WalkStep ==
  ASSUME NEW w, NEW b0, NEW o, NEW S, WalkBase(b0, S), NEW p, NEW k \in Nat,
         NEW m \in Nat, WalkedTo(w, b0, o, S, p, k, m), Cardinality(Live(b0)) \in Nat
  PROVE  WalkedTo(RecomputeStep(w), b0, o, S, p, k + 1, m)
<1> DEFINE L == Live(b0)
           r == RecomputeStep(w)
<1>1. PICK U, q : /\ Walking(w, b0, o, S, U, q) /\ SameOrder(q, p, Ends(b0.entries, L))
                  /\ \/ w.n = 0
                     \/ /\ Cardinality(U) \in Nat /\ PosOf(w.i, q, L) \in Nat
                        /\ Cardinality(U) + Cardinality(L) + 1 - PosOf(w.i, q, L) + k <= m
  BY DEF WalkedTo
<1>2. CASE w.n = 0
  <2>1. r = w
    BY <1>2 DEF RecomputeStep
  <2> QED BY <2>1, <1>1, <1>2 DEF WalkedTo
<1>3. CASE w.n # 0
  <2>0. SameOrder(q, q, Ends(b0.entries, L))
    BY DEF SameOrder
  <2>1. \E U2, q2 : Walking(r, b0, o, S, U2, q2) /\ Nearer(U2, r.i, q2, U, w.i, q, L) /\ SameOrder(q2, q, Ends(b0.entries, L))
    <3>1. CASE w.i \in w.moved
      BY <2>0, <3>1, <1>1, <1>3, WalkSkip
    <3>2. CASE w.i \notin w.moved /\ (DepthOver(w.b, w.b.entries[w.i].links) = w.b.depth[w.i] \/ w.b.entries[w.i].type = "OUT")
      BY <2>0, <3>2, <1>1, <1>3, WalkStay
    <3>3. CASE w.i \notin w.moved /\ DepthOver(w.b, w.b.entries[w.i].links) # w.b.depth[w.i] /\ w.b.entries[w.i].type # "OUT"
      BY <3>3, <1>1, <1>3, WalkMove
    <3> QED BY <3>1, <3>2, <3>3
  <2>2. PICK U2, q2 : Walking(r, b0, o, S, U2, q2) /\ Nearer(U2, r.i, q2, U, w.i, q, L) /\ SameOrder(q2, q, Ends(b0.entries, L))
    BY <2>1
  <2> HIDE DEF r
  <2>3. /\ Cardinality(U2) \in Nat /\ PosOf(r.i, q2, L) \in Nat
        /\ Cardinality(U2) + Cardinality(L) + 1 - PosOf(r.i, q2, L) + (k + 1) <= m
    BY <2>2, <1>1, <1>3 DEF Nearer
  <2>4. SameOrder(q2, p, Ends(b0.entries, L))
    BY <2>2, <1>1 DEF SameOrder
  <2>5. WalkedTo(r, b0, o, S, p, k + 1, m)
    BY <2>2, <2>3, <2>4 DEF WalkedTo
  <2> QED BY <2>5 DEF r
<1> QED BY <1>2, <1>3

\* When no link to a moved cell is left, every depth is exact.
LEMMA WalkEnd ==
  ASSUME NEW w, NEW b0, NEW o, NEW S, WalkBase(b0, S), NEW U, NEW q, Walking(w, b0, o, S, U, q), w.n = 0
  PROVE  Net(w.b, q)
<1> DEFINE L == Live(b0)
           e == b0.entries
<1>1. IsRec(b0) /\ Body(b0) /\ Moved(w.b, b0)
  BY DEF WalkBase, Arrays, Walking
<1>2. w.b.entries = e /\ Live(w.b) = L
  BY <1>1, MovedFields
<1>3. Body(w.b)
  BY <1>1, MovedBody
<1>4. Unseen(b0, U, w.moved) = {}
  <2>1. IsFiniteSet(Wires(b0))
    BY <1>1 DEF Body, Refs
  <2>2. IsFiniteSet(Unseen(b0, U, w.moved))
    BY <2>1, UnseenFinite
  <2>3. Cardinality(Unseen(b0, U, w.moved)) = 0
    BY DEF Walking
  <2> QED BY <2>2, <2>3, FS_EmptySet
<1>5. ASSUME NEW u \in U
      PROVE  IsDepthOver(w.b, e[u].links, w.b.depth[u])
  <2>0. u \in L
    BY DEF Walking
  <2>1. w.b.depth[u] = o.depth[u] /\ IsDepthOver(o, e[u].links, o.depth[u])
    BY DEF Walking, OldDepths
  <2>2. ASSUME NEW j \in DOMAIN e[u].links
        PROVE  w.b.depth[e[u].links[j].idx] = o.depth[e[u].links[j].idx]
    <3> DEFINE y == e[u].links[j].idx
    <3>1. y \in Drivers(b0)
      BY <1>1, <2>0, BodyLinks
    <3>2. <<u, j>> \in Wires(b0) /\ Targets(b0)[<<u, j>>] = y
      BY <2>0, WiresWired DEF Wired
    <3>3. y \notin w.moved
      BY <3>2, <1>4 DEF Unseen
    <3> QED BY <3>1, <3>3 DEF Walking, OldDepths
  <2> QED BY <2>1, <2>2 DEF IsDepthOver
<1>6. ExactOn(w.b, L)
  BY <1>2, <1>5 DEF Walking, ExactOn
<1>7. Ordered(w.b, L, q)
  BY DEF Walking
<1> QED BY <1>2, <1>3, <1>6, <1>7, NetBody

\* The position of the walk is at most one past the end.
LEMMA PosBound ==
  ASSUME NEW w, NEW b0, NEW o, NEW S, WalkBase(b0, S), NEW U, NEW q, Walking(w, b0, o, S, U, q), w.n # 0
  PROVE  PosOf(w.i, q, Live(b0)) \in Nat /\ PosOf(w.i, q, Live(b0)) <= Cardinality(Live(b0)) /\ PosOf(w.i, q, Live(b0)) >= 1
<1>1. WalkHere(w, b0, S, U, q, b0.entries, Live(b0), w.i)
  BY WalkFacts
<1>2. w.i \in Live(b0) /\ Thread(w.b, Live(b0), q) /\ IsFiniteSet(Live(b0))
  BY <1>1 DEF WalkHere
<1>3. Cardinality(Live(b0)) \in Nat
  BY <1>2, FS_CardinalityType
<1>4. q[w.i] \in 1 .. Cardinality(Live(b0))
  BY <1>2 DEF Thread
<1> QED BY <1>2, <1>3, <1>4 DEF PosOf

\* The builder r is b0 with all depths recomputed; p numbers the cells of b0.
Recomputed(r, b0, p) == (\E q : Net(r, q) /\ SameOrder(q, p, Ends(b0.entries, Live(b0)))) /\ Moved(r, b0)

\* recomputeFanoutDepths ends with exact depths, in an order by depths: the counter of
\* links to moved cells reaches zero no sooner than all of their users have been visited.
LEMMA RecomputeDepths ==
  ASSUME NEW b0, NEW o, NEW S, WalkBase(b0, S), NEW root, NEW next, NEW U, NEW q,
         Walking([b |-> b0, i |-> next, moved |-> {root}, n |-> b0.entries[root].refcount], b0, o, S, U, q)
  PROVE  Recomputed(recomputeFanoutDepths(b0, root, next), b0, q)
<1> DEFINE w0 == [b |-> b0, i |-> next, moved |-> {root}, n |-> b0.entries[root].refcount]
           z == Size(b0.entries)
           N == 2 * z + 1
           L == Live(b0)
<1>1. z \in Nat /\ IsFiniteSet(L) /\ Cardinality(L) \in Nat /\ Cardinality(L) <= z
  <2>1. PICK m \in Nat : DOMAIN b0.entries = 0 .. m - 1
    BY DEF WalkBase, Body, CellsOK
  <2>2. z = m /\ IsFiniteSet(DOMAIN b0.entries)
    BY <2>1, SizeIs
  <2>3. L \subseteq DOMAIN b0.entries
    BY DEF Live
  <2>4. IsFiniteSet(L) /\ Cardinality(L) <= Cardinality(DOMAIN b0.entries)
    BY <2>2, <2>3, FS_Subset
  <2> QED BY <2>2, <2>4, FS_CardinalityType DEF Size
<1>2. N \in Nat
  BY <1>1
<1>3. PICK walk : IsRecomputing(walk, b0, root, next, N)
  <2>1. N = 2 * Size(b0.entries) + 1
    OBVIOUS
  <2> HIDE DEF N
  <2> QED BY <2>1, <1>2, RecomputeRun
<1>4. walk[0] = w0 /\ (\A k \in 1 .. N : walk[k] = RecomputeStep(walk[k - 1]))
      /\ recomputeFanoutDepths(b0, root, next) = Require(walk[N].b, walk[N].n = 0)
  BY <1>3 DEF IsRecomputing
<1>5. Walking(w0, b0, o, S, U, q) /\ SameOrder(q, q, Ends(b0.entries, L))
  BY DEF SameOrder
<1> HIDE DEF w0, z
<1>6. WalkedTo(w0, b0, o, S, q, 0, 2 * z)
  <2>1. CASE w0.n = 0
    BY <2>1, <1>5 DEF WalkedTo
  <2>2. CASE w0.n # 0
    <3>1. PosOf(w0.i, q, L) \in Nat /\ PosOf(w0.i, q, L) >= 1
      BY <2>2, <1>5, PosBound
    <3>2. U \subseteq L
      BY <1>5 DEF Walking
    <3>3. Cardinality(U) \in Nat /\ Cardinality(U) <= Cardinality(L)
      BY <3>2, <1>1, FS_Subset, FS_CardinalityType
    <3>4. Cardinality(U) + Cardinality(L) + 1 - PosOf(w0.i, q, L) + 0 <= 2 * z
      BY <3>1, <3>3, <1>1
    <3> QED BY <3>1, <3>3, <3>4, <1>5 DEF WalkedTo
  <2> QED BY <2>1, <2>2
<1> DEFINE G == {k \in 0 .. N : WalkedTo(walk[k], b0, o, S, q, k, 2 * z)}
<1>7. 0 \in G
  BY <1>2, <1>4, <1>6
<1>8. \A k \in 0 .. N - 1 : k \in G => k + 1 \in G
  <2> SUFFICES ASSUME NEW k \in 0 .. N - 1, WalkedTo(walk[k], b0, o, S, q, k, 2 * z) PROVE WalkedTo(walk[k + 1], b0, o, S, q, k + 1, 2 * z) /\ k + 1 \in 0 .. N
    OBVIOUS
  <2>1. k \in Nat /\ k + 1 \in 1 .. N /\ k + 1 \in 0 .. N /\ (k + 1) - 1 = k /\ 2 * z \in Nat
    BY <1>1, <1>2
  <2>2. walk[k + 1] = RecomputeStep(walk[k])
    BY <2>1, <1>4
  <2>3. WalkedTo(RecomputeStep(walk[k]), b0, o, S, q, k + 1, 2 * z)
    BY <2>1, <1>1, WalkStep
  <2> QED BY <2>1, <2>2, <2>3
<1>9. WalkedTo(walk[N], b0, o, S, q, N, 2 * z)
  <2>1. N \in 0 .. N
    BY <1>2
  <2> HIDE DEF G, N
  <2>2. N \in G
    BY <2>1, <1>2, <1>7, <1>8, IntervalInduction
  <2> QED BY <2>2 DEF G
<1> DEFINE w == walk[N]
<1>10. PICK U2, q2 : /\ Walking(w, b0, o, S, U2, q2) /\ SameOrder(q2, q, Ends(b0.entries, L))
                     /\ \/ w.n = 0
                        \/ /\ Cardinality(U2) \in Nat /\ PosOf(w.i, q2, L) \in Nat
                           /\ Cardinality(U2) + Cardinality(L) + 1 - PosOf(w.i, q2, L) + N <= 2 * z
  BY <1>9 DEF WalkedTo
<1> HIDE DEF w
<1>11. w.n = 0
  <2>1. ASSUME w.n # 0 PROVE FALSE
    <3>1. PosOf(w.i, q2, L) \in Nat /\ PosOf(w.i, q2, L) <= Cardinality(L)
      BY <2>1, <1>10, PosBound
    <3> QED BY <3>1, <2>1, <1>1, <1>10
  <2> QED BY <2>1
<1>12. Net(w.b, q2) /\ Moved(w.b, b0)
  BY <1>10, <1>11, WalkEnd DEF Walking
<1>13. recomputeFanoutDepths(b0, root, next) = w.b
  BY <1>4, <1>11 DEF Require, w
<1> QED BY <1>10, <1>12, <1>13 DEF Recomputed

-----------------------------------------------------------------------------
(* replaceCell.                                                            *)

\* In the order of a network, a cell comes after the cells it links to.
LEMMA NetTopo ==
  ASSUME NEW b, NEW p, Net(b, p), NEW k \in Live(b), NEW j \in DOMAIN b.entries[k].links
  PROVE  /\ b.entries[k].links[j].idx \in Drivers(b)
         /\ b.depth[b.entries[k].links[j].idx] < b.depth[k]
         /\ p[b.entries[k].links[j].idx] < p[k]
<1> DEFINE y == b.entries[k].links[j].idx
<1>1. y \in Drivers(b)
  BY NetLinks
<1>2. b.depth[y] < b.depth[k]
  BY DEF Net, ExactOn, IsDepthOver
<1>3. Inner(b, Live(b)) = Drivers(b)
  BY CoreFacts DEF Net
<1>4. /\ \A u \in Drivers(b), v \in Live(b) \ Drivers(b) : p[u] < p[v]
      /\ \A u, v \in Drivers(b) : b.depth[u] < b.depth[v] => p[u] < p[v]
  BY <1>3 DEF Net, Core, Ordered, Levels
<1> HIDE DEF y
<1>5. p[y] < p[k]
  BY <1>1, <1>2, <1>4
<1> QED BY <1>1, <1>2, <1>5 DEF y

\* The inputs still come first when the new cell has been put.
LEMMA PutIns ==
  ASSUME NEW b, NEW p, Net(b, p), NEW i, NEW t, NEW ls, NEW S, MayReplace(b, i, t, ls, S), NEW d,
         NEW q, Put(d, b, i, t, ls, p, q)
  PROVE  InsFirst(d, Live(d) \ {i}, q) /\ Live(d) \ {i} # {} /\ \A x \in Live(d) : d.entries[x].type = "IN" => q[x] < q[i]
<1>1. InsFirst(b, Live(b), p)
  BY DEF Net, Core, Ordered
<1>2. /\ Live(d) \subseteq Live(b) /\ (\A x \in Live(b) \ Live(d) : b.entries[x].type \notin {"IN", "OUT"})
      /\ (\A x \in Live(d) : d.depth[x] = b.depth[x]) /\ SameOn(d.entries, b.entries, Live(d) \ {i})
      /\ SameOrder(q, p, Live(d)) /\ i \in Live(d) /\ d.entries[i].type = t
  BY DEF Put, Drivers
<1>3. b.entries[i].type # "IN" /\ t # "IN" /\ i \in Live(b)
  BY <1>2 DEF MayReplace
<1>4. PICK x \in Live(b) : b.entries[x].type = "IN"
  BY <1>1, <1>3 DEF InsFirst
<1>5. x \in Live(d) \ {i} /\ d.entries[x].type = "IN"
  BY <1>2, <1>3, <1>4 DEF SameOn
<1>6. \A y, z \in Live(d) \ {i} : d.entries[y].type = "IN" /\ d.entries[z].type # "IN" => q[y] < q[z]
  BY <1>1, <1>2 DEF InsFirst, SameOn, SameOrder
<1>7. \A y \in Live(d) \ {i} : /\ d.entries[y].type = "IN" => d.depth[y] = 0
                               /\ d.entries[y].type # "OUT" /\ d.depth[y] = 0 => d.entries[y].type \in {"IN", "ZERO", "ONE"}
  BY <1>1, <1>2 DEF InsFirst, SameOn
<1>8. \A y \in Live(d) : d.entries[y].type = "IN" => q[y] < q[i]
  <2> SUFFICES ASSUME NEW y \in Live(d), d.entries[y].type = "IN" PROVE q[y] < q[i]
    OBVIOUS
  <2>1. y # i
    BY <1>2, <1>3
  <2>2. b.entries[y].type = "IN"
    BY <2>1, <1>2 DEF SameOn
  <2>3. p[y] < p[i]
    BY <2>2, <1>1, <1>2, <1>3 DEF InsFirst
  <2> QED BY <2>3, <1>2 DEF SameOrder
<1> QED BY <1>5, <1>6, <1>7, <1>8 DEF InsFirst

\* The depth that the new cell gets.
LEMMA NewDepth ==
  ASSUME NEW b, NEW p, Net(b, p), NEW i, NEW t, NEW ls, NEW S, MayReplace(b, i, t, ls, S), NEW d,
         NEW q, Put(d, b, i, t, ls, p, q)
  PROVE  /\ IsDepthOver(d, ls, DepthOver(b, ls)) /\ (\A j \in DOMAIN ls : ls[j].idx \in Drivers(d) /\ ls[j].idx # i /\ ls[j].idx \in S)
         /\ \A x \in Live(d) : d.depth[x] \in Nat
<1>1. ls \in Seq(LinkSet(S)) /\ S \subseteq Drivers(b) /\ i \notin S
  BY DEF MayReplace, AwayFrom
<1>2. \A j \in DOMAIN ls : ls[j].idx \in S /\ ls[j].idx \in Drivers(b)
  BY <1>1, LinkSeq
<1>3. (\A x \in Live(b) : b.depth[x] \in Nat) /\ \E m \in Nat : \A x \in Drivers(b) : b.depth[x] < m
  BY CoreFacts DEF Net
<1>4. PICK m \in Nat : \A x \in Drivers(b) : b.depth[x] \in Nat /\ b.depth[x] < m
  BY <1>3 DEF Drivers
<1>5. IsDepthOver(b, ls, DepthOver(b, ls))
  <2>1. \A j \in DOMAIN ls : b.depth[ls[j].idx] \in Nat /\ b.depth[ls[j].idx] < m
    BY <1>2, <1>4
  <2> QED BY <2>1, DepthOverIs
<1>6. Body(d) /\ i \in Live(d) /\ d.entries[i].links = ls /\ Drivers(d) \subseteq Live(d) /\ (\A x \in Live(d) : d.depth[x] = b.depth[x]) /\ Live(d) \subseteq Live(b)
  BY DEF Put, Drivers
<1>7. \A j \in DOMAIN ls : ls[j].idx \in Drivers(d)
  BY <1>6, BodyLinks
<1>8. \A j \in DOMAIN ls : d.depth[ls[j].idx] = b.depth[ls[j].idx]
  BY <1>6, <1>7
<1>9. IsDepthOver(d, ls, DepthOver(b, ls))
  BY <1>5, <1>8 DEF IsDepthOver
<1>10. \A x \in Live(d) : d.depth[x] \in Nat
  BY <1>3, <1>6
<1> QED BY <1>1, <1>2, <1>7, <1>9, <1>10

\* The cells after i in the old order that may have to move.
Later(b, p, i, S, L) == {x \in L : p[x] > p[i] /\ x \notin S}

\* What link j of cell x means for the cells U.
StartLink(d, p, i, S, U, x, y) ==
  /\ y \in Drivers(d)
  /\ (x \in U => p[y] < p[x])
  /\ (x \notin U => y \notin U)
  /\ (x \in S => y \in S)
  /\ (y = i => x \in U)

\* What the walk starts with.
LEMMA StartFacts ==
  ASSUME NEW b, NEW p, Net(b, p), NEW i, NEW t, NEW ls, NEW S, MayReplace(b, i, t, ls, S), NEW d,
         NEW q, Put(d, b, i, t, ls, p, q),
         NEW x \in Live(d), NEW j \in DOMAIN d.entries[x].links
  PROVE  StartLink(d, p, i, S, Later(b, p, i, S, Live(d)), x, d.entries[x].links[j].idx)
<1> DEFINE y == d.entries[x].links[j].idx
           U == Later(b, p, i, S, Live(d))
<1>1. Body(d) /\ Live(d) \subseteq Live(b) /\ SameOn(d.entries, b.entries, Live(d) \ {i}) /\ d.entries[i].links = ls
  BY DEF Put
<1>2. AwayFrom(b, i, S) /\ i \notin S
  BY DEF MayReplace, AwayFrom
<1>3. y \in Drivers(d)
  BY <1>1, BodyLinks
<1>4. CASE x = i
  <2>1. y \in S /\ y # i
    BY <1>4, <1>1, NewDepth
  <2>2. i \notin U
    <3>1. ~(p[i] > p[i])
      <4>1. i \in Live(b)
        BY <1>1, <1>4
      <4>2. p[i] \in Nat
        <5>1. Thread(b, Live(b), p) /\ Cardinality(Live(b)) \in Nat
          BY CoreFacts DEF Net, Core, Ordered
        <5> QED BY <4>1, <5>1 DEF Thread
      <4> QED BY <4>2
    <3> QED BY <3>1 DEF Later
  <2> QED BY <2>1, <2>2, <1>2, <1>3, <1>4 DEF Later, StartLink
<1>5. CASE x # i
  <2>1. x \in Live(b) /\ d.entries[x].links = b.entries[x].links
    BY <1>1, <1>5 DEF SameOn
  <2>2. y = b.entries[x].links[j].idx /\ j \in DOMAIN b.entries[x].links
    BY <2>1
  <2>3. y \in Drivers(b) /\ p[y] < p[x]
    BY <2>1, <2>2, NetTopo
  <2>4. x \in S => y \in S
    BY <2>2, <1>2 DEF AwayFrom
  <2>5. p[x] \in Nat /\ p[y] \in Nat /\ (i \in Live(b) => p[i] \in Nat) /\ i \in Live(b)
    <3>1. Thread(b, Live(b), p) /\ Cardinality(Live(b)) \in Nat
      BY CoreFacts DEF Net, Core, Ordered
    <3>2. y \in Live(b) /\ i \in Live(b)
      BY <2>3 DEF Drivers, MayReplace
    <3> QED BY <2>1, <3>1, <3>2 DEF Thread
  <2> HIDE DEF y
  <2>6. x \notin U => y \notin U
    <3> SUFFICES ASSUME x \notin U, y \in U PROVE FALSE
      OBVIOUS
    <3>1. p[y] > p[i] /\ y \notin S
      BY DEF Later
    <3>2. p[x] > p[i] /\ x \notin S
      BY <3>1, <2>3, <2>4, <2>5
    <3> QED BY <3>2 DEF Later
  <2>7. y = i => x \in U
    BY <2>3, <2>4, <2>5, <1>2 DEF Later
  <2> QED BY <2>3, <2>4, <2>6, <2>7, <1>3 DEF y, StartLink
<1> QED BY <1>4, <1>5

\* The walk starts after the old place of the cell.
LEMMA StartAt ==
  ASSUME NEW b, NEW p, Net(b, p), NEW i, NEW t, NEW ls, NEW S, MayReplace(b, i, t, ls, S), NEW d,
         NEW q, Put(d, b, i, t, ls, p, q),
         NEW q2 \in [Live(d) -> Nat], SameOrder(q2, q, Live(d) \ {i})
  PROVE  At(getNext(b, i), Later(b, p, i, S, Live(d)), {i} \cup (S \cap Live(d)), q2, Live(d))
<1> DEFINE L == Live(d)
           K == Live(b)
           U == Later(b, p, i, S, L)
           n == getNext(b, i)
<1>1. Arrays(b) /\ K \in SUBSET DOMAIN b.entries /\ IsFiniteSet(K) /\ Thread(b, K, p) /\ Cardinality(K) \in Nat /\ Inner(b, K) = Drivers(b)
  BY CoreFacts DEF Net, Core, Ordered
<1>2. i \in K /\ i \in L /\ i \in Drivers(b)
  BY DEF MayReplace, Drivers, Put
<1>3. (n = UpperBoundID /\ p[i] = Cardinality(K)) \/ (n \in K /\ p[n] = p[i] + 1)
  BY <1>1, <1>2, NextIs
<1>4. \A x \in K : p[x] \in Nat /\ p[x] <= Cardinality(K)
  BY <1>1 DEF Thread
<1>5. L \subseteq K /\ SameOrder(q, p, L) /\ \A x \in K \ L : b.depth[x] < b.depth[i] /\ b.entries[x].type \notin {"IN", "OUT"}
  BY DEF Put
<1>6. \A x \in K \ L : p[x] < p[i]
  <2> SUFFICES ASSUME NEW x \in K \ L PROVE p[x] < p[i]
    OBVIOUS
  <2>1. x \in Drivers(b) /\ b.depth[x] < b.depth[i]
    BY <1>5 DEF Drivers
  <2> QED BY <2>1, <1>1, <1>2 DEF Net, Core, Ordered, Levels
<1> HIDE DEF n
<1>7. CASE n = UpperBoundID /\ p[i] = Cardinality(K)
  <2>1. U = {}
    BY <1>2, <1>4, <1>5, <1>7 DEF Later
  <2> QED BY <2>1, <1>7 DEF At, n
<1>8. CASE n \in K /\ p[n] = p[i] + 1
  <2>1. n \in L /\ n # i
    BY <1>2, <1>4, <1>6, <1>8
  <2>2. ASSUME NEW x \in L, x # i
        PROVE  q2[n] <= q2[x] <=> p[x] > p[i]
    <3>1. q2[x] \in Nat /\ q2[n] \in Nat /\ p[x] \in Nat /\ p[n] \in Nat /\ p[i] \in Nat
      BY <2>1, <1>2, <1>4, <1>5
    <3>2. (q2[x] < q2[n]) <=> (p[x] < p[n])
      BY <2>1, <2>2, <1>5 DEF SameOrder
    <3>3. p[x] # p[i]
      BY <2>2, <1>1, <1>2, <1>5 DEF Thread
    <3> QED BY <3>1, <3>2, <3>3, <1>8
  <2>3. \A u \in U : q2[n] <= q2[u]
    <3> SUFFICES ASSUME NEW u \in U PROVE q2[n] <= q2[u]
      OBVIOUS
    <3>1. u \in L /\ p[u] > p[i]
      BY DEF Later
    <3>2. u # i
      BY <3>1, <1>2, <1>4
    <3> QED BY <3>1, <3>2, <2>2
  <2>4. \A x \in L : q2[n] <= q2[x] => x \in U \/ x \in {i} \cup (S \cap L)
    BY <2>2 DEF Later
  <2> QED BY <2>1, <2>3, <2>4 DEF At, n
<1> QED BY <1>3, <1>7, <1>8

\* The builder e after the cell has gone to its new place.
LEMMA StartWalk ==
  ASSUME NEW b, NEW p, Net(b, p), NEW i, NEW t, NEW ls, NEW S, MayReplace(b, i, t, ls, S), NEW d,
         NEW q, Put(d, b, i, t, ls, p, q),
         NEW e, NEW q2, NEW nd, Relocated(e, d, Live(d), q, q2, i, nd), IsDepthOver(d, ls, nd)
  PROVE  /\ WalkBase(e, S \cap Live(d)) /\ Moved(e, d)
         /\ Walking([b |-> e, i |-> getNext(b, i), moved |-> {i}, n |-> e.entries[i].refcount], e, b, S \cap Live(d), Later(b, p, i, S, Live(d)), q2)
<1> DEFINE L == Live(d)
           U == Later(b, p, i, S, L)
           S1 == S \cap L
           w == [b |-> e, i |-> getNext(b, i), moved |-> {i}, n |-> e.entries[i].refcount]
<1>1. /\ Same(e, d, MoveFields) /\ Ordered(e, L, q2)
      /\ DOMAIN e.depth = DOMAIN d.depth /\ e.depth[i] = nd /\ (\A x \in DOMAIN d.depth \ {i} : e.depth[x] = d.depth[x])
      /\ SameOrder(q2, q, L \ {i})
  BY DEF Relocated
<1>2. /\ Body(d) /\ Arrays(d) /\ i \in Drivers(d) /\ (\A x \in L : d.depth[x] = b.depth[x]) /\ L \subseteq Live(b)
      /\ SameOn(d.entries, b.entries, L \ {i}) /\ d.entries[i].links = ls /\ ExactOn(d, L \ {i})
  BY DEF Put
<1>3. IsRec(d) /\ DOMAIN d.depth = DOMAIN d.entries /\ L \subseteq DOMAIN d.entries /\ Drivers(d) \subseteq L /\ i \in L
  BY <1>2 DEF Arrays, Live, Drivers
<1>4. (\A j \in DOMAIN ls : ls[j].idx \in Drivers(d) /\ ls[j].idx # i) /\ \A x \in L : d.depth[x] \in Nat
  BY NewDepth
<1>5. nd \in Nat
  BY DEF IsDepthOver
<1>6. Moved(e, d)
  BY <1>1, <1>3, <1>4, <1>5 DEF Moved
<1>7. e.entries = d.entries /\ Live(e) = L /\ Drivers(e) = Drivers(d) /\ IsRec(e)
  BY <1>3, <1>6, MovedFields
<1>8. Body(e)
  BY <1>2, <1>3, <1>6, MovedBody
<1>9. S \subseteq Drivers(b) /\ i \notin S
  BY DEF MayReplace, AwayFrom
<1>10. \A x \in L : \A j \in DOMAIN d.entries[x].links : StartLink(d, p, i, S, U, x, d.entries[x].links[j].idx)
  BY StartFacts
<1>11. S1 \subseteq Drivers(e)
  <2> SUFFICES ASSUME NEW x \in S1 PROVE x \in Drivers(d)
    BY <1>7
  <2>1. x # i /\ x \in L /\ x \in Drivers(b)
    BY <1>9
  <2> QED BY <2>1, <1>2 DEF Drivers, SameOn
<1>12. \A x \in S1 : \A j \in DOMAIN e.entries[x].links : e.entries[x].links[j].idx \in S1
  BY <1>3, <1>7, <1>10 DEF StartLink
<1>13. WalkBase(e, S1)
  <2>1. Arrays(e)
    BY <1>1 DEF Ordered
  <2> HIDE DEF S1
  <2> QED BY <2>1, <1>8, <1>11, <1>12 DEF WalkBase
<1>14. U \subseteq L /\ i \notin U /\ S1 \cap U = {}
  <2>1. p[i] \in Nat
    <3>1. Thread(b, Live(b), p) /\ Cardinality(Live(b)) \in Nat
      BY CoreFacts DEF Net, Core, Ordered
    <3>2. i \in Live(b)
      BY <1>2, <1>3
    <3> QED BY <3>1, <3>2 DEF Thread
  <2> QED BY <2>1 DEF Later
<1>15. \A x \in L \ {i} : e.depth[x] = d.depth[x]
  BY <1>1, <1>3
<1>16. ExactOn(e, L \ U)
  <2> SUFFICES ASSUME NEW x \in L \ U PROVE IsDepthOver(e, d.entries[x].links, e.depth[x])
    BY <1>7 DEF ExactOn
  <2>1. \A j \in DOMAIN d.entries[x].links : d.entries[x].links[j].idx \in L \ {i}
    BY <1>3, <1>10 DEF StartLink
  <2>2. \A j \in DOMAIN d.entries[x].links : e.depth[d.entries[x].links[j].idx] = d.depth[d.entries[x].links[j].idx]
    BY <2>1, <1>15
  <2>3. IsDepthOver(d, d.entries[x].links, e.depth[x])
    <3>1. CASE x = i
      BY <3>1, <1>1, <1>2
    <3>2. CASE x # i
      BY <3>2, <1>2, <1>15 DEF ExactOn
    <3> QED BY <3>1, <3>2
  <2> QED BY <2>2, <2>3 DEF IsDepthOver
<1>17. Ahead(e.entries, L, U, q2)
  <2>1. ASSUME NEW u \in U, NEW j \in DOMAIN d.entries[u].links, d.entries[u].links[j].idx \in U
        PROVE  q2[d.entries[u].links[j].idx] < q2[u]
    <3> DEFINE y == d.entries[u].links[j].idx
    <3>1. u \in L \ {i} /\ y \in L \ {i}
      BY <2>1, <1>14
    <3>2. p[y] < p[u]
      BY <3>1, <1>10 DEF StartLink
    <3>3. SameOrder(q, p, L)
      BY DEF Put
    <3> HIDE DEF y
    <3> QED BY <3>1, <3>2, <3>3, <1>1 DEF SameOrder, y
  <2>2. ASSUME NEW x \in L \ U, NEW j \in DOMAIN d.entries[x].links
        PROVE  d.entries[x].links[j].idx \notin U
    BY <1>10 DEF StartLink
  <2> QED BY <2>1, <2>2, <1>7 DEF Ahead
<1>18. OldDepths(e, b, e.entries, Drivers(e), {i}, U)
  <2>1. ASSUME NEW u \in U PROVE e.depth[u] = b.depth[u] /\ IsDepthOver(b, e.entries[u].links, b.depth[u])
    <3>1. u \in L \ {i} /\ u \in Live(b)
      BY <1>2, <1>14
    <3>2. e.entries[u].links = b.entries[u].links
      BY <3>1, <1>2, <1>7 DEF SameOn
    <3> QED BY <3>1, <3>2, <1>2, <1>15 DEF Net, ExactOn
  <2>2. \A x \in Drivers(e) \ {i} : e.depth[x] = b.depth[x]
    BY <1>2, <1>3, <1>7, <1>15
  <2> QED BY <2>1, <2>2 DEF OldDepths
<1>19. e.entries[i].refcount = Cardinality(Unseen(e, U, {i}))
  <2>1. e.entries[i].refcount = Cardinality(To(Wires(e), Targets(e), i))
    BY <1>3, <1>7, <1>8 DEF Body, Refs
  <2>2. ASSUME NEW v \in Wires(e), Targets(e)[v] = i PROVE v[1] \in U
    <3>1. v[1] \in L /\ Wired(e.entries, L, Wires(e), Targets(e))
      BY <1>7, WiresWired
    <3>2. PICK j \in DOMAIN e.entries[v[1]].links : v = <<v[1], j>>
      BY <3>1 DEF Wired
    <3>3. Targets(e)[<<v[1], j>>] = e.entries[v[1]].links[j].idx
      BY <3>1 DEF Wired
    <3>4. d.entries[v[1]].links[j].idx = i /\ j \in DOMAIN d.entries[v[1]].links
      BY <3>2, <3>3, <2>2, <1>7
    <3> QED BY <3>1, <3>4, <1>10 DEF StartLink
  <2>3. To(Wires(e), Targets(e), i) = Unseen(e, U, {i})
    BY <2>2 DEF To, Unseen
  <2> QED BY <2>1, <2>3
<1>20. At(getNext(b, i), U, {i} \cup S1, q2, L)
  <2>1. q2 \in [L -> Nat]
    <3>1. IsFiniteSet(L) /\ Thread(e, L, q2)
      BY <1>1 DEF Ordered
    <3>2. Cardinality(L) \in Nat
      BY <3>1, FS_CardinalityType
    <3> QED BY <3>1, <3>2 DEF Thread
  <2> QED BY <2>1, <1>1, StartAt
<1>21. Moved(e, e)
  BY <1>1, <1>3, <1>4, <1>5, <1>7, <1>15 DEF Moved, Same
<1> HIDE DEF U, S1
<1>22. DOMAIN w = {"b", "i", "moved", "n"} /\ w.b = e /\ w.i = getNext(b, i) /\ w.moved = {i} /\ w.n = e.entries[i].refcount
  OBVIOUS
<1>23. {i} \subseteq Drivers(e) /\ U \cap {i} = {} /\ S1 \cap {i} = {}
  BY <1>2, <1>7, <1>9, <1>14 DEF S1
<1> HIDE DEF w
<1>24. Walking(w, e, b, S1, U, q2)
  BY <1>1, <1>7, <1>14, <1>16, <1>17, <1>18, <1>19, <1>20, <1>21, <1>22, <1>23 DEF Walking
<1> QED BY <1>6, <1>13, <1>24 DEF w, U, S1

\* The builder r is b with the new cell i, less cells that nobody uses.
Replaced(r, b, p, i, t, ls) ==
  /\ \E q : Net(r, q) /\ SameOrder(q, p, Ends(b.entries, Live(b)))
  /\ Live(r) \subseteq Live(b) /\ i \in Drivers(r)
  /\ \A x \in Live(b) \ Live(r) : b.entries[x].type \notin {"IN", "OUT"}
  /\ SameOn(r.entries, b.entries, Live(r) \ {i}) /\ r.entries[i].type = t /\ r.entries[i].links = ls
  /\ KeysFrom(r.strash, b.strash, i)

\* The new cell has changed neither the inputs and outputs nor their order.
LEMMA PutEnds ==
  ASSUME NEW b, NEW p, NEW i, NEW t, NEW ls, NEW S, MayReplace(b, i, t, ls, S), NEW d,
         NEW q, Put(d, b, i, t, ls, p, q)
  PROVE  SameOrder(q, p, Ends(d.entries, Live(d))) /\ Ends(d.entries, Live(d)) = Ends(b.entries, Live(b))
<1>1. i \in Drivers(b) /\ b.entries[i].type \notin {"IN", "OUT"} /\ t \notin {"IN", "OUT"}
  BY DEF MayReplace, Drivers
<1>2. /\ SameOrder(q, p, Live(d)) /\ Live(d) \subseteq Live(b)
      /\ \A x \in Live(b) \ Live(d) : b.entries[x].type \notin {"IN", "OUT"}
      /\ SameOn(d.entries, b.entries, Live(d) \ {i}) /\ d.entries[i].type = t
  BY DEF Put
<1>3. Ends(d.entries, Live(d)) = Ends(b.entries, Live(b))
  BY <1>1, <1>2 DEF Ends, SameOn
<1>4. Ends(d.entries, Live(d)) \subseteq Live(d)
  BY DEF Ends
<1> QED BY <1>2, <1>3, <1>4 DEF SameOrder

\* What moving cells keeps of the new cell.
LEMMA PutMoved ==
  ASSUME NEW b, NEW p, NEW i, NEW t, NEW ls, NEW S, MayReplace(b, i, t, ls, S),
         NEW d, NEW q, Put(d, b, i, t, ls, p, q), NEW r, Recomputed(r, d, q)
  PROVE  Replaced(r, b, p, i, t, ls)
<1>1. IsRec(d) /\ Moved(r, d) /\ \E q1 : Net(r, q1) /\ SameOrder(q1, q, Ends(d.entries, Live(d)))
  BY DEF Put, Arrays, Recomputed
<1>2. r.entries = d.entries /\ r.strash = d.strash /\ Live(r) = Live(d) /\ Drivers(r) = Drivers(d)
  BY <1>1, MovedFields
<1>3. SameOrder(q, p, Ends(d.entries, Live(d))) /\ Ends(d.entries, Live(d)) = Ends(b.entries, Live(b))
  BY PutEnds
<1>4. \E q1 : Net(r, q1) /\ SameOrder(q1, p, Ends(b.entries, Live(b)))
  BY <1>1, <1>3 DEF SameOrder
<1> QED BY <1>2, <1>4 DEF Put, Replaced

\* The new cell may be moved to its depth.
LEMMA PutMayMove ==
  ASSUME NEW b, NEW p, Net(b, p), NEW i, NEW t, NEW ls, NEW S, MayReplace(b, i, t, ls, S), NEW d,
         NEW q, Put(d, b, i, t, ls, p, q)
  PROVE  MayMove(d, Live(d), q, i, DepthOver(b, ls))
<1> DEFINE L == Live(d)
           n == DepthOver(b, ls)
<1>1. /\ Body(d) /\ Arrays(d) /\ Thread(d, L, q) /\ Levels(Drivers(d), L, q, d.depth, d.depthBounds) /\ i \in Drivers(d)
      /\ d.entries[i].type = t
  BY DEF Put
<1>2. Inner(d, L) = Drivers(d)
  BY DEF Inner, Drivers
<1>3. InsFirst(d, L \ {i}, q) /\ L \ {i} # {}
  BY PutIns
<1>4. /\ IsDepthOver(d, ls, n) /\ (\A j \in DOMAIN ls : ls[j].idx \in Drivers(d) /\ ls[j].idx # i)
      /\ \A x \in L : d.depth[x] \in Nat
  BY NewDepth
<1>5. t \notin {"IN", "OUT"} /\ Arity(t, ls)
  BY DEF MayReplace
<1>6. Size(d.entries) \in Nat /\ Cardinality(L) <= Size(d.entries) /\ L \subseteq DOMAIN d.entries /\ IsFiniteSet(L)
  <2>1. PICK m \in Nat : DOMAIN d.entries = 0 .. m - 1
    BY <1>1 DEF Body, CellsOK
  <2>2. Size(d.entries) = m /\ IsFiniteSet(DOMAIN d.entries)
    BY <2>1, SizeIs
  <2>3. L \subseteq DOMAIN d.entries
    BY DEF Live
  <2>4. Cardinality(L) <= Cardinality(DOMAIN d.entries) /\ IsFiniteSet(L)
    BY <2>2, <2>3, FS_Subset
  <2> QED BY <2>2, <2>3, <2>4 DEF Size
<1>7. n \in Nat /\ (n > 0 => \E j \in DOMAIN ls : d.depth[ls[j].idx] = n - 1) /\ \A j \in DOMAIN ls : d.depth[ls[j].idx] < n
  BY <1>4 DEF IsDepthOver
<1>8. Drivers(d) \subseteq L
  BY DEF Drivers
<1> HIDE DEF n, L
<1>9. n = 0 => DOMAIN ls = {}
  <2> SUFFICES ASSUME n = 0, NEW j \in DOMAIN ls PROVE FALSE
    OBVIOUS
  <2>1. d.depth[ls[j].idx] \in Nat
    BY <1>4, <1>8
  <2> QED BY <2>1, <1>7
<1>10. n = 0 => t \in Consts
  BY <1>5, <1>9 DEF Arity, Consts
<1>11. n > 0 => \E x \in Inner(d, L) \ {i} : d.depth[x] = n - 1
  BY <1>2, <1>4, <1>7
<1>12. Levels(Inner(d, L), L, q, d.depth, d.depthBounds) /\ i \in Inner(d, L)
  BY <1>1, <1>2
<1>13. MayMove(d, L, q, i, n)
  BY <1>1, <1>3, <1>5, <1>6, <1>7, <1>10, <1>11, <1>12 DEF MayMove
<1> QED BY <1>13 DEF L, n

\* The depth of the new cell is the depth of the old one.
LEMMA PutStays ==
  ASSUME NEW b, NEW p, Net(b, p), NEW i, NEW t, NEW ls, NEW S, MayReplace(b, i, t, ls, S), NEW d,
         NEW q, Put(d, b, i, t, ls, p, q),
         DepthOver(b, ls) = b.depth[i]
  PROVE  Net(d, q)
<1> DEFINE L == Live(d)
<1>1. /\ Body(d) /\ Arrays(d) /\ Thread(d, L, q) /\ Levels(Drivers(d), L, q, d.depth, d.depthBounds) /\ i \in Drivers(d)
      /\ d.entries[i].type = t /\ d.entries[i].links = ls /\ ExactOn(d, L \ {i}) /\ d.depth[i] = b.depth[i]
  BY DEF Put, Drivers
<1>2. Inner(d, L) = Drivers(d) /\ i \in L
  BY <1>1 DEF Inner, Drivers
<1>3. /\ InsFirst(d, L \ {i}, q) /\ (\A x \in L : d.entries[x].type = "IN" => q[x] < q[i]) /\ L \ {i} # {}
  BY PutIns
<1>4. IsDepthOver(d, ls, d.depth[i])
  BY <1>1, NewDepth
<1>5. ExactOn(d, L)
  BY <1>1, <1>4 DEF ExactOn
<1>6. MayMove(d, L, q, i, d.depth[i])
  BY <1>1, PutMayMove
<1>7. /\ L \subseteq DOMAIN d.entries /\ IsFiniteSet(L) /\ (d.depth[i] = 0 => t \in Consts) /\ t # "IN"
  BY <1>1, <1>6 DEF MayMove
<1> HIDE DEF L
<1>8. InsFirst(d, L, q)
  <2>1. \E x \in L : d.entries[x].type = "IN"
    BY <1>3 DEF InsFirst
  <2>2. \A x \in L : d.entries[x].type = "IN" => d.depth[x] = 0
    BY <1>1, <1>3, <1>7 DEF InsFirst
  <2>3. \A x, y \in L : d.entries[x].type = "IN" /\ d.entries[y].type # "IN" => q[x] < q[y]
    BY <1>1, <1>3, <1>7 DEF InsFirst
  <2>4. \A x \in L : d.entries[x].type # "OUT" /\ d.depth[x] = 0 => d.entries[x].type \in {"IN", "ZERO", "ONE"}
    BY <1>1, <1>3, <1>7 DEF InsFirst, Consts
  <2> QED BY <2>1, <2>2, <2>3, <2>4 DEF InsFirst
<1>9. Ordered(d, L, q)
  BY <1>1, <1>2, <1>7, <1>8 DEF Ordered
<1> QED BY <1>1, <1>5, <1>9, NetBody DEF L

\* replaceCell keeps the invariant: nothing but cell i and cells without users changes.
LEMMA ReplaceCellNet ==
  ASSUME NEW b, NEW p, Net(b, p), NEW i, NEW t, NEW ls, NEW S, MayReplace(b, i, t, ls, S), NEW del
  PROVE  Replaced(replaceCell(b, i, t, ls, del), b, p, i, t, ls)
<1> DEFINE c == DropOldInputs(LinkTo(Unkeyed(b, i, t), i, ls), i, b.entries[i].links, del)
           d == PutCell(c, i, t, ls, b.entries[i].refcount)
           n == DepthOver(b, ls)
           e == MoveOf(d, i, n, "NewCell")
<1>1. replaceCell(b, i, t, ls, del) = PlaceCell(d, i, getNext(b, i), b.depth[i], n)
  BY DEF replaceCell, Unkeyed
<1>2. PICK q : Dropped(c, b, p, q, i, t, ls)
  BY DroppedAll
<1>3. Put(d, b, i, t, ls, p, q)
  BY <1>2, PutCellNet
<1>4. IsRec(d) /\ d.depth[i] = b.depth[i]
  BY <1>3 DEF Put, Arrays, Drivers
<1> HIDE DEF c, d
<1>5. CASE b.depth[i] = n
  <2>1. Net(d, q)
    BY <1>3, <1>5, PutStays DEF n
  <2> DEFINE r == Callback(d, "NewCell", i)
  <2>2. replaceCell(b, i, t, ls, del) = r
    BY <1>1, <1>5 DEF PlaceCell
  <2>3. Same(r, d, {"log"})
    BY <1>4 DEF Callback, Same, IsRec, EmptyBuilder
  <2> HIDE DEF r
  <2>4. Net(r, q) /\ Live(r) = Live(d) /\ Drivers(r) = Drivers(d) /\ r.entries = d.entries /\ r.strash = d.strash
    BY <2>1, <2>3, NetLog
  <2>5. SameOrder(q, p, Ends(b.entries, Live(b)))
    BY <1>3, PutEnds
  <2> QED BY <2>2, <2>4, <2>5, <1>3 DEF Replaced, Put
<1>6. CASE b.depth[i] # n
  <2>1. replaceCell(b, i, t, ls, del) = recomputeFanoutDepths(e, i, getNext(b, i))
    BY <1>1, <1>6 DEF PlaceCell, MoveOf
  <2>2. MayMove(d, Live(d), q, i, n)
    BY <1>3, PutMayMove DEF n
  <2>3. PICK q2 : Relocated(e, d, Live(d), q, q2, i, n)
    BY <2>2, Relocate
  <2>4. IsDepthOver(d, ls, n)
    BY <1>3, NewDepth DEF n
  <2> HIDE DEF e, n
  <2>5. /\ WalkBase(e, S \cap Live(d)) /\ Moved(e, d)
        /\ Walking([b |-> e, i |-> getNext(b, i), moved |-> {i}, n |-> e.entries[i].refcount], e, b, S \cap Live(d), Later(b, p, i, S, Live(d)), q2)
    BY <1>3, <2>3, <2>4, StartWalk
  <2>6. Recomputed(recomputeFanoutDepths(e, i, getNext(b, i)), e, q2)
    BY <2>5, RecomputeDepths
  <2>7. SameOrder(q2, q, Ends(d.entries, Live(d))) /\ Ends(e.entries, Live(e)) = Ends(d.entries, Live(d))
    <3>1. i \notin Ends(d.entries, Live(d))
      BY <1>3 DEF Put, MayReplace, Ends
    <3>2. e.entries = d.entries /\ Live(e) = Live(d)
      BY <2>5, <1>4, MovedFields
    <3>3. SameOrder(q2, q, Live(d) \ {i})
      BY <2>3 DEF Relocated
    <3> QED BY <3>1, <3>2, <3>3 DEF SameOrder, Ends
  <2>8. Recomputed(recomputeFanoutDepths(e, i, getNext(b, i)), d, q)
    <3> DEFINE r == recomputeFanoutDepths(e, i, getNext(b, i))
    <3> HIDE DEF r
    <3>1. (\E q1 : Net(r, q1) /\ SameOrder(q1, q2, Ends(d.entries, Live(d)))) /\ Moved(r, e)
      BY <2>6, <2>7 DEF Recomputed, r
    <3>2. \E q1 : Net(r, q1) /\ SameOrder(q1, q, Ends(d.entries, Live(d)))
      BY <3>1, <2>7 DEF SameOrder
    <3>3. Moved(r, d)
      BY <3>1, <2>5, <1>4, MovedTrans
    <3>4. Recomputed(r, d, q)
      BY <3>2, <3>3 DEF Recomputed
    <3> QED BY <3>4 DEF r
  <2> QED BY <2>1, <2>8, <1>3, PutMoved
<1> QED BY <1>5, <1>6

-----------------------------------------------------------------------------
(* Cones.                                                                  *)

\* The cells that every set with cell k and all inputs of its cells has.
Closed(b, S) == \A x \in S : \A j \in DOMAIN b.entries[x].links : b.entries[x].links[j].idx \in S

\* The cells that cell k depends on, as the least closed set.
Reach(b, k) == {x \in Live(b) : \A S \in SUBSET Live(b) : k \in S /\ Closed(b, S) => x \in S}

\* The inputs of cell k.
Targeted(b, k) == {b.entries[k].links[j].idx : j \in DOMAIN b.entries[k].links}

\* f satisfies the recursive definition of the cones.
IsCone(b, f) == f = [k \in Live(b) |-> {k} \cup UNION {f[b.entries[k].links[j].idx] : j \in DOMAIN b.entries[k].links}]

\* The recursive definition of the cones has a solution.
LEMMA ConeExists ==
  ASSUME NEW b, \A k \in Live(b) : \A j \in DOMAIN b.entries[k].links : b.entries[k].links[j].idx \in Live(b)
  PROVE  \E f : IsCone(b, f)
<1> DEFINE L == Live(b)
           f == [k \in L |-> Reach(b, k)]
<1>1. Closed(b, L)
  BY DEF Closed
<1>2. ASSUME NEW k \in L PROVE k \in Reach(b, k) /\ Reach(b, k) \subseteq L /\ Closed(b, Reach(b, k))
  <2>1. k \in Reach(b, k) /\ Reach(b, k) \subseteq L
    BY <1>2 DEF Reach
  <2>2. ASSUME NEW x \in Reach(b, k), NEW j \in DOMAIN b.entries[x].links
        PROVE  b.entries[x].links[j].idx \in Reach(b, k)
    <3>1. x \in L /\ b.entries[x].links[j].idx \in L
      BY <2>1
    <3>2. ASSUME NEW S \in SUBSET L, k \in S, Closed(b, S) PROVE b.entries[x].links[j].idx \in S
      <4>1. x \in S
        BY <3>2 DEF Reach
      <4> QED BY <4>1, <3>2 DEF Closed
    <3> QED BY <3>1, <3>2 DEF Reach
  <2> QED BY <2>1, <2>2 DEF Closed
<1>3. ASSUME NEW k \in L PROVE Reach(b, k) = {k} \cup UNION {f[b.entries[k].links[j].idx] : j \in DOMAIN b.entries[k].links}
  <2> DEFINE V == {k} \cup UNION {f[b.entries[k].links[j].idx] : j \in DOMAIN b.entries[k].links}
  <2>1. \A j \in DOMAIN b.entries[k].links : f[b.entries[k].links[j].idx] = Reach(b, b.entries[k].links[j].idx)
    BY <1>3
  <2>2. V = {k} \cup UNION {Reach(b, b.entries[k].links[j].idx) : j \in DOMAIN b.entries[k].links}
    BY <2>1
  <2> HIDE DEF f
  <2>3. \A x : x \in V <=> x = k \/ \E j \in DOMAIN b.entries[k].links : x \in Reach(b, b.entries[k].links[j].idx)
    BY <2>2
  <2> HIDE DEF V
  <2>4. k \in V /\ V \subseteq L
    BY <2>3, <1>2, <1>3
  <2>5. ASSUME NEW x \in V, NEW m \in DOMAIN b.entries[x].links PROVE b.entries[x].links[m].idx \in V
    <3>1. CASE x = k
      <4>1. b.entries[k].links[m].idx \in L
        BY <1>3, <2>5, <3>1
      <4>2. b.entries[k].links[m].idx \in Reach(b, b.entries[k].links[m].idx)
        BY <4>1, <1>2
      <4> QED BY <4>2, <2>3, <2>5, <3>1
    <3>2. CASE x # k
      <4>1. PICK j \in DOMAIN b.entries[k].links : x \in Reach(b, b.entries[k].links[j].idx)
        BY <2>3, <2>5, <3>2
      <4>2. Closed(b, Reach(b, b.entries[k].links[j].idx))
        BY <1>2, <1>3
      <4>3. b.entries[x].links[m].idx \in Reach(b, b.entries[k].links[j].idx)
        BY <4>1, <4>2, <2>5 DEF Closed
      <4> QED BY <4>3, <2>3
    <3> QED BY <3>1, <3>2
  <2>6. Closed(b, V)
    BY <2>5 DEF Closed
  <2>7. Reach(b, k) \subseteq V
    BY <2>4, <2>6 DEF Reach
  <2>8. ASSUME NEW j \in DOMAIN b.entries[k].links PROVE Reach(b, b.entries[k].links[j].idx) \subseteq Reach(b, k)
    <3>1. b.entries[k].links[j].idx \in Reach(b, k) /\ Reach(b, k) \in SUBSET L /\ Closed(b, Reach(b, k))
      BY <1>2, <1>3 DEF Closed
    <3> QED BY <3>1 DEF Reach
  <2>9. V \subseteq Reach(b, k)
    BY <2>3, <2>8, <1>2, <1>3
  <2>10. Reach(b, k) = V
    BY <2>7, <2>9
  <2> QED BY <2>10 DEF V
<1>4. IsCone(b, f)
  <2>1. f = [k \in L |-> {k} \cup UNION {f[b.entries[k].links[j].idx] : j \in DOMAIN b.entries[k].links}]
    BY <1>3
  <2> QED BY <2>1 DEF IsCone
<1> QED BY <1>4

\* The cone of a cell has the cell, and the cones of its inputs.
LEMMA ConeFacts ==
  ASSUME NEW b, NEW p, Net(b, p), NEW k \in Live(b)
  PROVE  k \in Cone(b, k) /\ \A j \in DOMAIN b.entries[k].links : Cone(b, b.entries[k].links[j].idx) \subseteq Cone(b, k)
<1> DEFINE IsF(g) == g = [x \in Live(b) |-> {x} \cup UNION {g[b.entries[x].links[j].idx] : j \in DOMAIN b.entries[x].links}]
           f == CHOOSE g : IsF(g)
<1>1. Drivers(b) \subseteq Live(b)
  BY DEF Drivers
<1>2. \E g : IsF(g)
  <2>1. \E g : IsCone(b, g)
    BY <1>1, NetLinks, ConeExists
  <2> QED BY <2>1 DEF IsCone
<1>3. IsF(f)
  <2> HIDE DEF IsF
  <2> QED BY <1>2
<1>4. \A x : Cone(b, x) = f[x]
  BY DEF Cone
<1> HIDE DEF f
<1>5. f[k] = {k} \cup UNION {f[b.entries[k].links[j].idx] : j \in DOMAIN b.entries[k].links}
  BY <1>3
<1> QED BY <1>4, <1>5

\* The legal inputs of cell i do not depend on it.
LEMMA BeforeAway ==
  ASSUME NEW b, NEW p, Net(b, p), NEW i \in Live(b)
  PROVE  AwayFrom(b, i, Before(b, i))
<1>1. Before(b, i) \subseteq Drivers(b) /\ Drivers(b) \subseteq Live(b)
  BY DEF Before, Drivers
<1>2. i \notin Before(b, i)
  BY ConeFacts DEF Before
<1>3. ASSUME NEW x \in Before(b, i), NEW j \in DOMAIN b.entries[x].links PROVE b.entries[x].links[j].idx \in Before(b, i)
  <2>1. x \in Live(b) /\ i \notin Cone(b, x)
    BY <1>1, <1>3 DEF Before
  <2>2. Cone(b, b.entries[x].links[j].idx) \subseteq Cone(b, x)
    BY <2>1, ConeFacts
  <2>3. b.entries[x].links[j].idx \in Drivers(b)
    BY <2>1, NetLinks
  <2> QED BY <2>1, <2>2, <2>3 DEF Before
<1> QED BY <1>1, <1>2, <1>3 DEF AwayFrom

-----------------------------------------------------------------------------
(* replace.                                                                *)

\* The builder b is in agreement: some numbering is its order.
Sound(b) == \E p : Net(b, p)

\* Lists of links with equal bags have the same links.
LEMMA SameBag ==
  ASSUME NEW ls, NEW ms, NEW t, NEW u, StrashKey(t, ls) = StrashKey(u, ms)
  PROVE  t = u /\ \A j \in DOMAIN ls : \E k \in DOMAIN ms : ls[j] = ms[k]
<1>1. t = u /\ ToBag(ls) = ToBag(ms)
  BY DEF StrashKey
<1>2. DOMAIN ToBag(ls) = Range(ls) /\ DOMAIN ToBag(ms) = Range(ms)
  BY DEF ToBag
<1>3. Range(ls) = Range(ms)
  BY <1>1, <1>2
<1> QED BY <1>1, <1>3 DEF Range

\* The builder r has the cells of b, and cell n, which depends on S.
Grown(r, b, i, S, n) ==
  /\ Sound(r) /\ AwayFrom(r, i, S \cup {n})
  /\ i \in Drivers(r) /\ r.entries[i].type = b.entries[i].type
  /\ \A key \in DOMAIN r.strash : r.strash[key] # i

\* The state in which a cell i is going to be replaced: S are the cells its new inputs may be taken from.
Opened(b, i, S) ==
  /\ Sound(b) /\ AwayFrom(b, i, S) /\ i \in Drivers(b)
  /\ \A key \in DOMAIN b.strash : b.strash[key] # i

\* A gate over S is found or added.
LEMMA AddGrows ==
  ASSUME NEW b, NEW i, NEW S, Opened(b, i, S), NEW t, NEW ls, IsGate(t, ls, S)
  PROVE  Grown(addCell(b, t, ls).b, b, i, S, addCell(b, t, ls).idx)
<1> DEFINE r == addCell(b, t, ls).b
           n == addCell(b, t, ls).idx
           key == StrashKey(t, ls)
<1>1. PICK p : Net(b, p)
  BY DEF Opened, Sound
<1>2. /\ S \subseteq Drivers(b) /\ i \notin S /\ i \in Drivers(b) /\ (\A k \in DOMAIN b.strash : b.strash[k] # i)
      /\ \A x \in S : \A j \in DOMAIN b.entries[x].links : b.entries[x].links[j].idx \in S
  BY DEF Opened, AwayFrom
<1>3. t \in CellTypes /\ t \notin {"IN", "OUT"} /\ Arity(t, ls) /\ ls \in Seq(LinkSet(S)) /\ StrashEnabled(t)
  BY DEF IsGate, StrashEnabled
<1>4. \A j \in DOMAIN ls : ls[j].idx \in S
  BY <1>3, LinkSeq
<1>5. Drivers(b) \subseteq Live(b)
  BY DEF Drivers
<1>6. CASE key \in DOMAIN b.strash
  <2>1. Same(r, b, {"log"}) /\ n = b.strash[key]
    BY <1>1, <1>3, <1>6, AddFound
  <2> HIDE DEF r, n
  <2>2. Net(r, p) /\ Live(r) = Live(b) /\ Drivers(r) = Drivers(b) /\ r.entries = b.entries /\ r.strash = b.strash
    BY <1>1, <2>1, NetLog
  <2>3. n \in Live(b) /\ StrashKey(b.entries[n].type, b.entries[n].links) = key /\ n # i
    BY <1>1, <1>2, <1>6, <2>1 DEF Net, Core, KeysOf
  <2>4. b.entries[n].type = t /\ \A j \in DOMAIN b.entries[n].links : \E m \in DOMAIN ls : b.entries[n].links[j] = ls[m]
    BY <2>3, SameBag
  <2>5. n \in Drivers(b) /\ \A j \in DOMAIN b.entries[n].links : b.entries[n].links[j].idx \in S
    BY <2>3, <2>4, <1>3, <1>4 DEF Drivers
  <2>6. AwayFrom(r, i, S \cup {n})
    BY <2>2, <2>3, <2>5, <1>2 DEF AwayFrom
  <2>7. Grown(r, b, i, S, n)
    BY <2>2, <2>6, <1>2 DEF Grown, Sound
  <2> QED BY <2>7 DEF r, n
<1>7. CASE key \notin DOMAIN b.strash
  <2>1. ls \in Seq(LinkSet(Drivers(b))) /\ Live(b) # {}
    BY <1>2, <1>3, <1>5, SeqMono
  <2>2. Extended(r, b, p, NextSlot(b), t, ls) /\ n = NextSlot(b)
    BY <2>1, <1>1, <1>3, <1>7, AddNew
  <2> HIDE DEF r, n
  <2>3. /\ Sound(r) /\ n \notin Live(b) /\ Live(r) = Live(b) \cup {n} /\ r.entries[n].type = t /\ r.entries[n].links = ls
        /\ (\A x \in Live(b) : r.entries[x].type = b.entries[x].type /\ r.entries[x].links = b.entries[x].links)
        /\ KeysFrom(r.strash, b.strash, n)
    BY <2>2 DEF Extended, Sound
  <2>4. Drivers(r) = Drivers(b) \cup {n}
    BY <2>3, <1>3 DEF Drivers
  <2>5. i # n /\ i \in Live(b)
    BY <2>3, <1>2, <1>5
  <2>6. AwayFrom(r, i, S \cup {n})
    <3>1. S \cup {n} \subseteq Drivers(r) /\ i \notin S \cup {n}
      BY <2>4, <2>5, <1>2
    <3>2. \A x \in S : r.entries[x].links = b.entries[x].links
      BY <2>3, <1>2, <1>5
    <3>3. \A x \in S \cup {n} : \A j \in DOMAIN r.entries[x].links : r.entries[x].links[j].idx \in S \cup {n}
      BY <3>2, <2>3, <1>2, <1>4
    <3> QED BY <3>1, <3>3 DEF AwayFrom
  <2>7. \A k \in DOMAIN r.strash : r.strash[k] # i
    BY <2>3, <2>5, <1>2 DEF KeysFrom
  <2>8. i \in Drivers(r) /\ r.entries[i].type = b.entries[i].type
    BY <2>3, <2>4, <2>5, <1>2
  <2>9. Grown(r, b, i, S, n)
    BY <2>3, <2>6, <2>7, <2>8 DEF Grown
  <2> QED BY <2>9 DEF r, n
<1> QED BY <1>6, <1>7

\* Callbacks change nothing but the log.
LEMMA DoneSame ==
  ASSUME NEW b, IsRec(b), NEW i, NEW isNew, NEW oldDepth
  PROVE  Same(CellDone(b, i, isNew, oldDepth), b, {"log"})
<1>1. \A name : Same(Callback(b, name, i), b, {"log"})
  BY DEF Callback, Same, IsRec, EmptyBuilder
<1>2. Same(b, b, {"log"})
  BY DEF Same
<1>3. \/ CellDone(b, i, isNew, oldDepth) = b
      \/ \E name : CellDone(b, i, isNew, oldDepth) = Callback(b, name, i)
  BY DEF CellDone
<1> QED BY <1>1, <1>2, <1>3

\* A sound builder has the fields of a builder.
LEMMA SoundRec ==
  ASSUME NEW b, Sound(b)
  PROVE  IsRec(b)
BY CoreFacts DEF Sound, Net

\* A callback keeps what has grown.
LEMMA GrownDone ==
  ASSUME NEW r, NEW b, NEW i, NEW S, NEW n, Grown(r, b, i, S, n), NEW c, Same(c, r, {"log"})
  PROVE  Grown(c, b, i, S, n)
<1>1. PICK p : Net(r, p)
  BY DEF Grown, Sound
<1>2. Net(c, p) /\ Live(c) = Live(r) /\ Drivers(c) = Drivers(r) /\ c.entries = r.entries /\ c.strash = r.strash
  BY <1>1, NetLog
<1> QED BY <1>2 DEF Grown, Sound, AwayFrom

\* A gate of the fragment becomes a gate over the cells its links are mapped to.
LEMMA MappedGate ==
  ASSUME NEW t, NEW ls, NEW D, IsGate(t, ls, D), NEW m, NEW S, \A x \in D : m[x] \in S
  PROVE  IsGate(t, MapLinks(m, ls), S)
<1>1. ls \in Seq(LinkSet(D)) /\ Len(ls) \in Nat /\ DOMAIN ls = 1 .. Len(ls) /\ \A j \in DOMAIN ls : ls[j].idx \in D /\ ls[j].inv \in BOOLEAN
  BY LinkSeq DEF IsGate
<1>2. MapLinks(m, ls) = [j \in 1 .. Len(ls) |-> Link(m[ls[j].idx], ls[j].inv)]
  BY <1>1 DEF MapLinks
<1>3. \A j \in 1 .. Len(ls) : Link(m[ls[j].idx], ls[j].inv) \in LinkSet(S)
  BY <1>1 DEF Link, LinkSet
<1>4. MapLinks(m, ls) \in Seq(LinkSet(S))
  BY <1>1, <1>2, <1>3
<1>5. DOMAIN MapLinks(m, ls) = DOMAIN ls
  BY DEF MapLinks
<1> QED BY <1>4, <1>5 DEF IsGate, Arity

\* k gates have been added for the cells of the rhs; S are the cells the new root may depend on.
Adding(s, t, root, S, k, n) ==
  /\ DOMAIN s = {"b", "m", "found"} /\ s.found \in BOOLEAN
  /\ Opened(s.b, root, S) /\ s.b.entries[root].type = t
  /\ \A x \in 0 .. n + k - 1 : s.m[x] \in S /\ x \in DOMAIN s.m

\* One more gate of the fragment is found or added.
LEMMA AddStep ==
  ASSUME NEW s, NEW t, NEW root, NEW S, NEW k \in Nat, NEW n \in Nat, Adding(s, t, root, S, k, n),
         NEW u, NEW ls, IsGate(u, ls, 0 .. n + k - 1), NEW hit \in BOOLEAN, NEW oldDepth
  PROVE  \E S2 : Adding(CellAdded(s, n + k, addCell(s.b, u, MapLinks(s.m, ls)), hit, oldDepth), t, root, S2, k + 1, n)
<1> DEFINE ms == MapLinks(s.m, ls)
           a == addCell(s.b, u, ms)
           r == CellAdded(s, n + k, a, hit, oldDepth)
           c == CellDone(a.b, a.idx, a.b.nCell > s.b.nCell, oldDepth)
           S2 == S \cup {a.idx}
<1>1. IsGate(u, ms, S)
  BY MappedGate DEF Adding
<1>2. Opened(s.b, root, S) /\ s.b.entries[root].type = t
  BY DEF Adding
<1>3. Grown(a.b, s.b, root, S, a.idx)
  BY <1>1, <1>2, AddGrows
<1>4. Same(c, a.b, {"log"})
  BY <1>3, SoundRec, DoneSame DEF Grown
<1>5. r.b = c /\ r.m = MapTo(s.m, n + k, a.idx) /\ r.found = (s.found \/ hit) /\ DOMAIN r = {"b", "m", "found"}
  BY DEF CellAdded
<1> HIDE DEF ms, a, r, c
<1>6. Grown(c, s.b, root, S, a.idx)
  BY <1>3, <1>4, GrownDone
<1>7. Opened(c, root, S2) /\ c.entries[root].type = t
  BY <1>2, <1>6 DEF Grown, Opened
<1>8. ASSUME NEW x \in 0 .. n + k PROVE r.m[x] \in S2 /\ x \in DOMAIN r.m
  <2>1. CASE x = n + k
    BY <2>1, <1>5 DEF MapTo
  <2>2. CASE x # n + k
    <3>1. x \in 0 .. n + k - 1
      BY <2>2, <1>8
    <3>2. s.m[x] \in S /\ x \in DOMAIN s.m
      BY <3>1 DEF Adding
    <3> QED BY <3>2, <2>2, <1>5 DEF MapTo
  <2> QED BY <2>1, <2>2
<1>9. n + (k + 1) - 1 = n + k
  OBVIOUS
<1>10. r.found \in BOOLEAN
  BY <1>5 DEF Adding
<1>11. Adding(r, t, root, S2, k + 1, n)
  BY <1>5, <1>7, <1>8, <1>9, <1>10 DEF Adding
<1> QED BY <1>11 DEF r, a, ms

\* One iteration of replace.
ReplaceLoop(c, s, k) == ReplaceStep(s, c[1] + k - 1, c[2][k], c[3], c[4], FALSE, c[5])

\* The loop of replace has runs.
Replacing == INSTANCE LoopProofs WITH Step <- ReplaceLoop

\* The state of replace before its loop.
Start(b, rhs, ins, root) ==
  [b |-> IF ins[1] = root THEN b ELSE destrashEntry(b, root), m |-> fillMapping(rhs, ins, root), found |-> FALSE]

\* step is the run of replace(b, rhs, ins, root).
IsReplacing(step, b, rhs, ins, root) ==
  /\ step[0] = Start(b, rhs, ins, root)
  /\ \A k \in 1 .. Len(rhs.cells) :
       step[k] = ReplaceStep(step[k - 1], rhs.nIn + k - 1, rhs.cells[k], root, rhs.out, FALSE, b.depth[root])
  /\ replace(b, rhs, ins, root) = AddBuffer(step[Len(rhs.cells)], rhs, root, rhs.out, ins[1] = root)

\* replace is its last step after a run of its loop.
LEMMA ReplaceRun ==
  ASSUME NEW b, NEW rhs, NEW ins, NEW root, b.entries[root].type # "OUT", Len(rhs.cells) \in Nat
  PROVE  \E step : IsReplacing(step, b, rhs, ins, root)
<1> DEFINE N == Len(rhs.cells)
           base == Start(b, rhs, ins, root)
           c == <<rhs.nIn, rhs.cells, root, rhs.out, b.depth[root]>>
           IsF(g) == g = [k \in 0 .. N |-> IF k = 0 THEN base
                             ELSE ReplaceStep(g[k - 1], rhs.nIn + k - 1, rhs.cells[k], root, rhs.out, FALSE, b.depth[root])]
           f == CHOOSE g : IsF(g)
<1>1. \E g : Replacing!IsRun(g, c, base, N)
  BY Replacing!RunExists, LeastNumbers DEF Replacing!WellOrdered
<1>2. \E g : IsF(g)
  <2>1. c[1] = rhs.nIn /\ c[2] = rhs.cells /\ c[3] = root /\ c[4] = rhs.out /\ c[5] = b.depth[root]
    OBVIOUS
  <2> HIDE DEF c, base
  <2> QED BY <1>1, <2>1 DEF Replacing!IsRun, ReplaceLoop
<1>3. IsF(f)
  <2> HIDE DEF IsF
  <2> QED BY <1>2
<1>4. replace(b, rhs, ins, root) = AddBuffer(f[N], rhs, root, rhs.out, ins[1] = root)
  BY DEF replace, RhsSeq, Start
<1> HIDE DEF f
<1>5. f[0] = base
  BY <1>3
<1>6. \A k \in 1 .. N : f[k] = ReplaceStep(f[k - 1], rhs.nIn + k - 1, rhs.cells[k], root, rhs.out, FALSE, b.depth[root])
  <2> TAKE k \in 1 .. N
  <2>1. k \in 0 .. N /\ k # 0
    OBVIOUS
  <2> HIDE DEF base
  <2> QED BY <2>1, <1>3
<1>7. IsReplacing(f, b, rhs, ins, root)
  BY <1>4, <1>5, <1>6 DEF IsReplacing
<1> QED BY <1>7

\* The cell that is going to be replaced loses its key.
LEMMA DestrashOpens ==
  ASSUME NEW b, NEW p, Net(b, p), NEW i \in Drivers(b), NEW S, AwayFrom(b, i, S)
  PROVE  /\ Opened(destrashEntry(b, i), i, S) /\ destrashEntry(b, i).entries = b.entries
         /\ Net(destrashEntry(b, i), p) /\ Live(destrashEntry(b, i)) = Live(b)
<1> DEFINE r == destrashEntry(b, i)
<1>1. /\ IsRec(b) /\ KeysOf(b.strash, b.entries, Live(b)) /\ Drivers(b) \subseteq Live(b)
  BY CoreFacts DEF Net, Core
<1>2. Same(r, b, {"strash"}) /\ KeysOf(r.strash, b.entries, Live(b) \ {i}) /\ KeysWithin(r.strash, b.strash)
  BY <1>1, Destrash
<1> HIDE DEF r
<1>3. /\ IsRec(r) /\ r.entries = b.entries /\ r.depth = b.depth /\ r.prev = b.prev /\ r.next = b.next
      /\ r.begin = b.begin /\ r.end = b.end /\ r.depthBounds = b.depthBounds /\ r.empty = b.empty
      /\ r.fanouts = b.fanouts /\ r.fanoutsEnabled = b.fanoutsEnabled /\ r.fault = b.fault
      /\ r.nCell = b.nCell /\ r.nIn = b.nIn /\ r.nOut = b.nOut /\ r.nBuf = b.nBuf
  BY <1>1, <1>2 DEF Same, IsRec, EmptyBuilder
<1>4. Live(r) = Live(b) /\ Drivers(r) = Drivers(b)
  BY <1>3 DEF Live, Drivers
<1>5. Wires(r) = Wires(b) /\ Targets(r) = Targets(b)
  BY <1>3, <1>4, WiresSame
<1>6. Body(r)
  <2>1. KeysOf(r.strash, r.entries, Live(r))
    BY <1>2, <1>3, <1>4 DEF KeysOf
  <2>2. Counts(r, 0)
    BY <1>3, <1>4 DEF Net, Core, Counts
  <2> QED BY <2>1, <2>2, <1>3, <1>4, <1>5 DEF Body, Net, Core
<1>7. Ordered(r, Live(r), p)
  <2>1. Ordered(b, Live(b), p) /\ SameCells(r.entries, b.entries)
    BY <1>3 DEF Net, Core, SameCells
  <2> QED BY <2>1, <1>3, <1>4, OrderedSame
<1>8. ExactOn(r, Live(r))
  BY <1>3, <1>4 DEF Net, ExactOn, IsDepthOver
<1>9. Net(r, p)
  BY <1>6, <1>7, <1>8, NetBody
<1>10. \A key \in DOMAIN r.strash : r.strash[key] # i
  BY <1>2 DEF KeysOf
<1>11. AwayFrom(r, i, S)
  BY <1>3, <1>4 DEF AwayFrom
<1>12. Opened(r, i, S)
  BY <1>4, <1>9, <1>10, <1>11 DEF Opened, Sound
<1> QED BY <1>3, <1>4, <1>9, <1>12 DEF r

\* The root becomes a gate over S.
LEMMA OpenedReplace ==
  ASSUME NEW b, NEW i, NEW S, Opened(b, i, S), b.entries[i].type # "IN", NEW t, NEW ls, IsGate(t, ls, S)
  PROVE  Sound(replaceCell(b, i, t, ls, TRUE))
<1>1. PICK p : Net(b, p)
  BY DEF Opened, Sound
<1>2. MayReplace(b, i, t, ls, S)
  BY DEF MayReplace, Opened, IsGate
<1>3. Replaced(replaceCell(b, i, t, ls, TRUE), b, p, i, t, ls)
  BY <1>1, <1>2, ReplaceCellNet
<1> QED BY <1>3 DEF Replaced, Sound

\* The log is no part of soundness.
LEMMA SoundLog ==
  ASSUME NEW b, Sound(b), NEW r, Same(r, b, {"log"})
  PROVE  Sound(r)
BY NetLog DEF Sound

\* The legal inputs of a replacement of cell i.
LegalIns(b, i, rhs, ins) ==
  \/ \E S : AwayFrom(b, i, S) /\ ins \in [1 .. rhs.nIn -> S]
  \/ ins = <<i>> /\ rhs.nIn = 1 /\ rhs.cells = << >> /\ ~rhs.out.inv

\* All gates of the rhs but the last are added, found or not.
LEMMA ReplaceNet ==
  ASSUME NEW b, NEW p, Net(b, p), NEW i \in Drivers(b), b.entries[i].type # "IN", NEW rhs, LegalRhs(rhs), NEW ins,
         LegalIns(b, i, rhs, ins)
  PROVE  Sound(replace(b, rhs, ins, i))
<1> DEFINE n == rhs.nIn
           N == Len(rhs.cells)
           t == b.entries[i].type
<1>1. /\ n \in Nat /\ n > 0 /\ N \in Nat /\ rhs.out.inv \in BOOLEAN
      /\ rhs.out.idx \in 0 .. n - 1 \cup {n + N - 1}
      /\ \A k \in 1 .. N : IsGate(rhs.cells[k].type, rhs.cells[k].links, 0 .. n + k - 2)
  BY DEF LegalRhs
<1>2. b.entries[i].type # "OUT"
  BY DEF Drivers
<1>3. PICK step : IsReplacing(step, b, rhs, ins, i)
  BY <1>1, <1>2, ReplaceRun
<1>4. replace(b, rhs, ins, i) = AddBuffer(step[N], rhs, i, rhs.out, ins[1] = i)
  BY <1>3 DEF IsReplacing
<1>5. CASE ins = <<i>> /\ rhs.nIn = 1 /\ rhs.cells = << >> /\ ~rhs.out.inv
  <2>1. N = 0 /\ rhs.out.idx = 0
    BY <1>1, <1>5
  <2>2. step[0].b = b /\ step[0].found = FALSE
    BY <1>3, <1>5 DEF IsReplacing, Start
  <2>3. replace(b, rhs, ins, i) = b
    BY <2>1, <2>2, <1>4, <1>5 DEF AddBuffer
  <2> QED BY <2>3 DEF Sound
<1>6. CASE \E S : AwayFrom(b, i, S) /\ ins \in [1 .. rhs.nIn -> S]
  <2>1. PICK S : AwayFrom(b, i, S) /\ ins \in [1 .. n -> S]
    BY <1>6
  <2>2. ins[1] \in S /\ ins[1] # i
    BY <2>1, <1>1 DEF AwayFrom
  <2>3. (\E V : Adding(step[0], t, i, V, 0, n)) /\ step[0].found = FALSE
    <3>1. Opened(destrashEntry(b, i), i, S) /\ destrashEntry(b, i).entries = b.entries
      BY <2>1, DestrashOpens
    <3>2. step[0] = [b |-> destrashEntry(b, i), m |-> fillMapping(rhs, ins, i), found |-> FALSE]
      BY <1>3, <2>2 DEF IsReplacing, Start
    <3>3. ASSUME NEW x \in 0 .. n + 0 - 1 PROVE fillMapping(rhs, ins, i)[x] \in S /\ x \in DOMAIN fillMapping(rhs, ins, i)
      <4>1. x \in 0 .. n - 1 /\ x # RhsOutID(rhs) /\ x + 1 \in 1 .. n
        BY <3>3, <1>1 DEF RhsOutID
      <4>2. fillMapping(rhs, ins, i)[x] = ins[x + 1] /\ x \in DOMAIN fillMapping(rhs, ins, i)
        BY <4>1 DEF fillMapping
      <4> QED BY <4>1, <4>2, <2>1
    <3>4. /\ DOMAIN step[0] = {"b", "m", "found"} /\ step[0].b = destrashEntry(b, i) /\ step[0].m = fillMapping(rhs, ins, i)
          /\ step[0].found = FALSE
      BY <3>2
    <3>5. Adding(step[0], t, i, S, 0, n)
      BY <3>1, <3>3, <3>4 DEF Adding
    <3> QED BY <3>4, <3>5
  <2>4. ASSUME NEW k \in 0 .. N - 1, NEW V, Adding(step[k], t, i, V, k, n), step[k].found = FALSE
        PROVE  \/ /\ \E V2 : Adding(step[k + 1], t, i, V2, k + 1, n)
                  /\ (k + 1 < N => step[k + 1].found = FALSE)
               \/ /\ k + 1 = N /\ Sound(step[k + 1].b) /\ step[k + 1].found = FALSE
                  /\ rhs.out.idx = n + k /\ ~rhs.out.inv
    <3> DEFINE s == step[k]
               u == rhs.cells[k + 1].type
               ls == rhs.cells[k + 1].links
               ms == MapLinks(s.m, ls)
               isRoot == rhs.out.idx = n + k /\ ~rhs.out.inv
               found == StrashFind(s.b, StrashKey(u, ms)) # InvalidID
               r == CellAdded(s, n + k, addCell(s.b, u, ms), isRoot, b.depth[i])
    <3>1. k \in Nat /\ k + 1 \in 1 .. N /\ n + (k + 1) - 1 = n + k /\ (k + 1) - 1 = k /\ n + (k + 1) - 2 = n + k - 1
      BY <2>4, <1>1
    <3>2. step[k + 1] = ReplaceStep(step[k], n + k, rhs.cells[k + 1], i, rhs.out, FALSE, b.depth[i])
      <4>1. step[k + 1] = ReplaceStep(step[(k + 1) - 1], n + (k + 1) - 1, rhs.cells[k + 1], i, rhs.out, FALSE, b.depth[i])
        BY <3>1, <1>3 DEF IsReplacing
      <4> QED BY <4>1, <3>1
    <3>3. IsGate(u, ls, 0 .. n + k - 1)
      <4>1. IsGate(u, ls, 0 .. n + (k + 1) - 2)
        BY <3>1, <1>1
      <4> QED BY <4>1, <3>1
    <3>4. isRoot => k + 1 = N
      BY <1>1, <3>1
    <3>5. CASE isRoot /\ ~found
      <4> DEFINE c == replaceCell(s.b, i, u, ms, TRUE)
                 d == CellDone(c, i, FALSE, b.depth[i])
      <4>1. IsGate(u, ms, V) /\ Opened(s.b, i, V) /\ s.b.entries[i].type # "IN" /\ DOMAIN s = {"b", "m", "found"}
        <5>1. \A x \in 0 .. n + k - 1 : s.m[x] \in V
          BY <2>4 DEF Adding
        <5>2. IsGate(u, ms, V)
          BY <5>1, <3>3, MappedGate
        <5> QED BY <5>2, <2>4 DEF Adding
      <4>2. step[k + 1].b = d /\ step[k + 1].found = s.found
        BY <3>2, <3>5, <4>1 DEF ReplaceStep
      <4> HIDE DEF s, u, ms
      <4>3. Sound(c)
        BY <4>1, OpenedReplace
      <4> HIDE DEF c
      <4>4. Same(d, c, {"log"})
        BY <4>3, SoundRec, DoneSame
      <4>5. Sound(d)
        BY <4>3, <4>4, SoundLog
      <4>6. step[k + 1].found = FALSE
        BY <4>2, <2>4 DEF s
      <4> QED BY <4>2, <4>5, <4>6, <3>4, <3>5
    <3>6. CASE ~(isRoot /\ ~found)
      <4>1. step[k + 1] = r
        BY <3>2, <3>6 DEF ReplaceStep
      <4>2. \E V2 : Adding(r, t, i, V2, k + 1, n)
        <5>1. isRoot \in BOOLEAN
          OBVIOUS
        <5>2. Adding(s, t, i, V, k, n)
          BY <2>4
        <5> HIDE DEF isRoot, s, u, ls
        <5> QED BY <5>1, <5>2, <3>1, <3>3, <1>1, AddStep
      <4>3. k + 1 < N => r.found = FALSE
        <5>1. r.found = (s.found \/ isRoot)
          BY DEF CellAdded
        <5>2. k + 1 < N => ~isRoot
          BY <3>1, <3>4
        <5>3. s.found = FALSE
          BY <2>4
        <5> HIDE DEF r, s, isRoot
        <5>4. ASSUME ~isRoot PROVE r.found = FALSE
          BY <5>1, <5>3, <5>4, Zenon
        <5> QED BY <5>2, <5>4
      <4> QED BY <4>1, <4>2, <4>3
    <3> QED BY <3>5, <3>6
  <2>5. \/ \E V : Adding(step[N], t, i, V, N, n)
        \/ Sound(step[N].b) /\ step[N].found = FALSE /\ N > 0 /\ rhs.out.idx = n + N - 1 /\ ~rhs.out.inv
    <3> DEFINE Good == {k \in 0 .. N : k < N => (\E V : Adding(step[k], t, i, V, k, n)) /\ step[k].found = FALSE}
    <3>1. 0 \in Good
      BY <2>3, <1>1
    <3>2. ASSUME NEW k \in 0 .. N - 1, k \in Good PROVE k + 1 \in Good
      <4>1. (\E V : Adding(step[k], t, i, V, k, n)) /\ step[k].found = FALSE /\ k + 1 \in 0 .. N /\ k \in Nat
        BY <3>2, <1>1
      <4>2. k + 1 < N => (\E V : Adding(step[k + 1], t, i, V, k + 1, n)) /\ step[k + 1].found = FALSE
        <5>1. k \in 0 .. N - 1 /\ (k + 1 < N => k + 1 # N)
          BY <3>2, <1>1
        <5>2. PICK V : Adding(step[k], t, i, V, k, n)
          BY <4>1
        <5>3. \/ /\ \E V2 : Adding(step[k + 1], t, i, V2, k + 1, n)
                 /\ (k + 1 < N => step[k + 1].found = FALSE)
              \/ k + 1 = N
          BY <2>4, <5>1, <5>2, <4>1
        <5> QED BY <5>1, <5>3
      <4> QED BY <4>1, <4>2
    <3>3. \A k \in 0 .. N : k \in Good
      <4> HIDE DEF Good
      <4> QED BY <3>1, <3>2, <1>1, IntervalInduction
    <3>4. CASE N = 0
      BY <3>4, <2>3
    <3>5. CASE N # 0
      <4>1. N - 1 \in 0 .. N - 1 /\ N - 1 \in 0 .. N /\ N - 1 < N /\ (N - 1) + 1 = N /\ n + (N - 1) = n + N - 1 /\ N > 0
        BY <3>5, <1>1
      <4>2. PICK V : Adding(step[N - 1], t, i, V, N - 1, n)
        BY <3>3, <4>1
      <4>3. step[N - 1].found = FALSE
        BY <3>3, <4>1
      <4>4. \/ \E V2 : Adding(step[(N - 1) + 1], t, i, V2, (N - 1) + 1, n)
            \/ Sound(step[(N - 1) + 1].b) /\ step[(N - 1) + 1].found = FALSE /\ rhs.out.idx = n + (N - 1) /\ ~rhs.out.inv
        <5> DEFINE k == N - 1
        <5>1. k \in 0 .. N - 1 /\ Adding(step[k], t, i, V, k, n) /\ step[k].found = FALSE
          BY <4>1, <4>2, <4>3
        <5> HIDE DEF k
        <5>2. \/ \E V2 : Adding(step[k + 1], t, i, V2, k + 1, n)
              \/ Sound(step[k + 1].b) /\ step[k + 1].found = FALSE /\ rhs.out.idx = n + k /\ ~rhs.out.inv
          BY <5>1, <2>4
        <5> QED BY <5>2 DEF k
      <4> QED BY <4>1, <4>4
    <3> QED BY <3>4, <3>5
  <2>6. CASE \E V : Adding(step[N], t, i, V, N, n)
    <3> DEFINE s == step[N]
               ls == <<Link(s.m[rhs.out.idx], rhs.out.inv)>>
    <3>1. PICK V : Adding(s, t, i, V, N, n)
      BY <2>6
    <3>2. rhs.out.idx \in 0 .. n + N - 1
      BY <1>1
    <3>3. s.m[rhs.out.idx] \in V /\ Opened(s.b, i, V) /\ s.b.entries[i].type # "IN"
      BY <3>1, <3>2 DEF Adding
    <3>4. IsGate("BUF", ls, V)
      <4>1. Link(s.m[rhs.out.idx], rhs.out.inv) \in LinkSet(V)
        BY <3>3, <1>1 DEF Link, LinkSet
      <4> HIDE DEF s
      <4>2. ls \in Seq(LinkSet(V)) /\ DOMAIN ls = {1}
        BY <4>1
      <4> HIDE DEF ls
      <4> QED BY <4>2 DEF IsGate, Arity, CellTypes
    <3>5. Sound(s.b)
      BY <3>3 DEF Opened
    <3>6. Sound(replaceCell(s.b, i, "BUF", ls, TRUE))
      BY <3>3, <3>4, OpenedReplace
    <3> QED BY <3>5, <3>6, <1>4 DEF AddBuffer
  <2>7. CASE Sound(step[N].b) /\ step[N].found = FALSE /\ N > 0 /\ rhs.out.idx = n + N - 1 /\ ~rhs.out.inv
    <3>1. ~(rhs.out.idx < rhs.nIn)
      BY <2>7, <1>1
    <3>2. replace(b, rhs, ins, i) = step[N].b
      BY <3>1, <2>7, <1>4 DEF AddBuffer
    <3> QED BY <3>2, <2>7
  <2> QED BY <2>5, <2>6, <2>7
<1> QED BY <1>5, <1>6 DEF LegalIns

-----------------------------------------------------------------------------
(* The invariant implies the properties.                                   *)

\* The first cells of the order p.
Prefix(o, L, p) == o \in Seq(L) /\ Len(o) <= Cardinality(L) /\ \A n \in 1 .. Len(o) : p[o[n]] = n

\* The cells of L in the order p.
Listing(o, L, p) ==
  /\ o \in Seq(L) /\ Len(o) = Cardinality(L)
  /\ \A n \in 1 .. Len(o) : o[n] \in L /\ p[o[n]] = n
  /\ \A x \in L : p[x] \in 1 .. Len(o) /\ o[p[x]] = x

\* One iteration of the walk along the order.
WalkLoop(c, o, k) == WalkOn(c, o)

\* The walk along the order has runs.
Walks == INSTANCE LoopProofs WITH Step <- WalkLoop

\* walk is the run of Order(b).
IsOrdering(walk, b, N) ==
  /\ walk[0] = << >> /\ \A k \in 1 .. N : walk[k] = WalkOn(b, walk[k - 1])
  /\ Order(b) = walk[N]

\* Order is the last state of a run of its loop.
LEMMA OrderRun ==
  ASSUME NEW b, NEW N \in Nat, N = Size(b.entries) + 1
  PROVE  \E walk : IsOrdering(walk, b, N)
<1> DEFINE IsF(g) == g = [k \in 0 .. N |-> IF k = 0 THEN << >> ELSE WalkOn(b, g[k - 1])]
           f == CHOOSE g : IsF(g)
<1>1. \E g : Walks!IsRun(g, b, << >>, N)
  BY Walks!RunExists, LeastNumbers DEF Walks!WellOrdered
<1>2. \E g : IsF(g)
  BY <1>1 DEF Walks!IsRun, WalkLoop
<1>3. IsF(f)
  <2> HIDE DEF IsF
  <2> QED BY <1>2
<1>4. Order(b) = f[N]
  BY DEF Order
<1> HIDE DEF f
<1>5. f[0] = << >>
  BY <1>3
<1>6. \A k \in 1 .. N : f[k] = WalkOn(b, f[k - 1])
  <2> TAKE k \in 1 .. N
  <2>1. k \in 0 .. N /\ k # 0
    OBVIOUS
  <2> QED BY <2>1, <1>3
<1>7. IsOrdering(f, b, N)
  BY <1>4, <1>5, <1>6 DEF IsOrdering
<1> QED BY <1>7

\* The walk goes on to the next cell, and stops after the last one.
LEMMA PrefixNext ==
  ASSUME NEW b, Arrays(b), NEW L \in SUBSET DOMAIN b.entries, IsFiniteSet(L), NEW p, Thread(b, L, p),
         NEW o, Prefix(o, L, p)
  PROVE  Prefix(WalkOn(b, o), L, p) /\ (Len(o) < Cardinality(L) => Len(WalkOn(b, o)) = Len(o) + 1)
         /\ (Len(o) = Cardinality(L) => WalkOn(b, o) = o)
<1> DEFINE C == Cardinality(L)
           i == IF o = << >> THEN getSubnetBegin(b) ELSE getNext(b, Last(o))
<1>1. C \in Nat /\ (C = 0 <=> L = {}) /\ p \in [L -> 1 .. C]
  BY FS_CardinalityType, FS_EmptySet DEF Thread
<1>2. o \in Seq(L) /\ Len(o) \in Nat /\ Len(o) <= C /\ (\A n \in 1 .. Len(o) : o[n] \in L /\ p[o[n]] = n) /\ (o = << >> <=> Len(o) = 0)
  BY DEF Prefix
<1>3. b.begin # NormalOrderID /\ getSubnetBegin(b) = b.begin
  BY ThreadEnds DEF getSubnetBegin
<1>4. InvalidID \notin L /\ UpperBoundID \notin L
  BY DEF Arrays, InvalidID, UpperBoundID
<1>5. \/ i \in L /\ p[i] = Len(o) + 1
      \/ i \in {UpperBoundID, InvalidID} /\ Len(o) = C
  <2>1. CASE o = << >>
    <3>1. CASE L = {}
      BY <3>1, <2>1, <1>1, <1>2, <1>3 DEF Thread
    <3>2. CASE L # {}
      BY <3>2, <2>1, <1>2, <1>3 DEF Thread
    <3> QED BY <3>1, <3>2
  <2>2. CASE o # << >>
    <3>1. Last(o) \in L /\ p[Last(o)] = Len(o)
      <4>1. Len(o) \in 1 .. Len(o) /\ Last(o) = o[Len(o)]
        BY <2>2, <1>2 DEF Last
      <4> QED BY <4>1, <1>2
    <3>2. \/ getNext(b, Last(o)) = UpperBoundID /\ p[Last(o)] = C
          \/ getNext(b, Last(o)) \in L /\ p[getNext(b, Last(o))] = p[Last(o)] + 1
      BY <3>1, NextIs
    <3> QED BY <3>1, <3>2, <2>2
  <2> QED BY <2>1, <2>2
<1>6. WalkOn(b, o) = IF i \in {UpperBoundID, InvalidID} THEN o ELSE Append(o, i)
  BY DEF WalkOn
<1> HIDE DEF i, C
<1>7. CASE i \in L /\ p[i] = Len(o) + 1
  <2>1. WalkOn(b, o) = Append(o, i)
    BY <1>4, <1>6, <1>7
  <2>2. p[i] \in 1 .. C
    BY <1>1, <1>7
  <2>3. /\ Append(o, i) \in Seq(L) /\ Len(Append(o, i)) = Len(o) + 1 /\ Append(o, i)[Len(o) + 1] = i
        /\ \A n \in 1 .. Len(o) : Append(o, i)[n] = o[n]
    BY <1>2, <1>7
  <2>4. Len(o) + 1 <= C
    BY <1>1, <1>2, <1>7, <2>2
  <2>5. ASSUME NEW n \in 1 .. Len(o) + 1 PROVE p[Append(o, i)[n]] = n
    <3>1. CASE n = Len(o) + 1
      BY <3>1, <2>3, <1>7
    <3>2. CASE n # Len(o) + 1
      <4>1. n \in 1 .. Len(o)
        BY <3>2, <1>2, <2>5
      <4> QED BY <4>1, <2>3, <1>2
    <3> QED BY <3>1, <3>2
  <2>6. Prefix(Append(o, i), L, p)
    BY <2>3, <2>4, <2>5 DEF Prefix, C
  <2>7. Len(o) # C
    BY <2>4, <1>1, <1>2
  <2> QED BY <2>1, <2>3, <2>6, <2>7 DEF C
<1>8. CASE i \in {UpperBoundID, InvalidID} /\ Len(o) = C
  BY <1>1, <1>6, <1>8 DEF C
<1> QED BY <1>5, <1>7, <1>8

\* The walk along the order visits every cell once.
LEMMA OrderIs ==
  ASSUME NEW b, NEW L, NEW p, Ordered(b, L, p), Size(b.entries) \in Nat, Cardinality(L) <= Size(b.entries)
  PROVE  Listing(Order(b), L, p)
<1> DEFINE C == Cardinality(L)
           N == Size(b.entries) + 1
<1>1. Arrays(b) /\ L \in SUBSET DOMAIN b.entries /\ IsFiniteSet(L) /\ Thread(b, L, p) /\ C \in Nat /\ C <= N /\ N \in Nat /\ p \in [L -> 1 .. C]
  BY FS_CardinalityType DEF Ordered, Thread
<1>2. PICK walk : IsOrdering(walk, b, N)
  BY <1>1, OrderRun
<1>3. walk[0] = << >> /\ (\A k \in 1 .. N : walk[k] = WalkOn(b, walk[k - 1])) /\ Order(b) = walk[N]
  BY <1>2 DEF IsOrdering
<1> HIDE DEF C, N
<1> DEFINE G == {k \in 0 .. N : Prefix(walk[k], L, p) /\ Len(walk[k]) = IF k <= C THEN k ELSE C}
<1>4. 0 \in G
  <2>1. Prefix(<< >>, L, p)
    BY <1>1 DEF Prefix, C
  <2> QED BY <2>1, <1>1, <1>3
<1>5. ASSUME NEW k \in 0 .. N - 1, k \in G PROVE k + 1 \in G
  <2>1. k + 1 \in 1 .. N /\ k + 1 \in 0 .. N /\ k \in Nat /\ (k + 1) - 1 = k
    BY <1>1, <1>5
  <2>2. walk[k + 1] = WalkOn(b, walk[k])
    BY <2>1, <1>3
  <2>3. /\ Prefix(walk[k + 1], L, p) /\ (Len(walk[k]) < C => Len(walk[k + 1]) = Len(walk[k]) + 1)
        /\ (Len(walk[k]) = C => walk[k + 1] = walk[k])
    <3>1. Prefix(walk[k], L, p)
      BY <1>5
    <3> QED BY <3>1, <2>2, <1>1, PrefixNext DEF C
  <2>4. Len(walk[k]) = IF k <= C THEN k ELSE C
    BY <1>5
  <2>5. Len(walk[k + 1]) = IF k + 1 <= C THEN k + 1 ELSE C
    <3>1. CASE k < C
      BY <3>1, <2>1, <2>3, <2>4, <1>1
    <3>2. CASE ~(k < C)
      BY <3>2, <2>1, <2>3, <2>4, <1>1
    <3> QED BY <3>1, <3>2
  <2> QED BY <2>1, <2>3, <2>5
<1>6. N \in G
  <2>1. \A k \in 0 .. N : k \in G
    <3> HIDE DEF G
    <3> QED BY <1>1, <1>4, <1>5, IntervalInduction
  <2> QED BY <2>1, <1>1
<1>7. Prefix(Order(b), L, p) /\ Len(Order(b)) = C
  BY <1>1, <1>3, <1>6
<1> DEFINE o == Order(b)
<1> HIDE DEF G, o
<1>8. o \in Seq(L) /\ Len(o) = C /\ \A n \in 1 .. C : o[n] \in L /\ p[o[n]] = n
  BY <1>7 DEF Prefix, o
<1>9. ASSUME NEW x \in L PROVE p[x] \in 1 .. C /\ o[p[x]] = x
  <2>1. p[x] \in 1 .. C
    BY <1>1
  <2>2. o[p[x]] \in L /\ p[o[p[x]]] = p[x]
    BY <2>1, <1>8
  <2> QED BY <2>1, <2>2, <1>1 DEF Thread
<1>10. Listing(o, L, p)
  BY <1>8, <1>9 DEF Listing, C
<1> QED BY <1>10 DEF o

\* Order lists the live cells of a network by their positions.
LEMMA NetOrder ==
  ASSUME NEW b, NEW p, Net(b, p)
  PROVE  Listing(Order(b), Live(b), p)
<1>1. Ordered(b, Live(b), p) /\ Size(b.entries) \in Nat /\ Cardinality(Live(b)) <= Size(b.entries)
  BY CoreFacts DEF Net, Core
<1> QED BY <1>1, OrderIs

\* The invariant implies that all fields have their types.
LEMMA NetType ==
  ASSUME NEW b, NEW p, Net(b, p)
  PROVE  IsBuilder(b)
<1> DEFINE n == Size(b.entries)
           D == 0 .. n - 1
<1>1. Arrays(b) /\ n \in Nat /\ DOMAIN b.entries = D
  BY CoreFacts DEF Net
<1>2. CellsOK(b.entries) /\ DepthsOK(b.depth, D)
  BY <1>1 DEF Net, Core
<1> HIDE DEF D
<1>3. \A i \in D : /\ b.entries[i].type \in CellTypes /\ b.entries[i].links \in Seq(LinkSet(D)) /\ b.entries[i].refcount \in Nat
  BY <1>1, <1>2, CellFields
<1>4. ASSUME NEW i \in D, NEW j \in DOMAIN b.entries[i].links PROVE b.entries[i].links[j] \in [idx : D, inv : BOOLEAN]
  <2>1. b.entries[i].links \in Seq(LinkSet(D))
    BY <1>3
  <2>2. b.entries[i].links[j] \in LinkSet(D)
    BY <2>1, <1>4
  <2> QED BY <2>2 DEF LinkSet
<1>5. IsArray(b.prev, n, D \cup {NormalOrderID, LowerBoundID}) /\ IsArray(b.next, n, D \cup {NormalOrderID, UpperBoundID})
  BY <1>1 DEF Arrays, Linking, IsArray, D
<1>6. IsArray(b.depth, n, Nat \cup {InvalidDepth})
  BY <1>1, <1>2 DEF Arrays, DepthsOK, IsArray, D
<1> QED BY <1>1, <1>3, <1>4, <1>5, <1>6 DEF IsBuilder, D

\* The invariant implies that the order is topological: depths grow along it and every
\* cell is deeper than its inputs.
LEMMA NetTopological ==
  ASSUME NEW b, NEW p, Net(b, p)
  PROVE  OrderSound(b)
<1> DEFINE o == Order(b)
           L == Live(b)
           rank(i) == CASE b.entries[i].type = "IN" -> 0 [] b.entries[i].type = "OUT" -> 2 [] OTHER -> 1
<1>1. Listing(o, L, p)
  BY NetOrder
<1>2. o \in Seq(L) /\ Len(o) = Cardinality(L) /\ DOMAIN o = 1 .. Len(o) /\ Len(o) \in Nat
      /\ (\A n \in 1 .. Len(o) : o[n] \in L /\ p[o[n]] = n) /\ \A x \in L : p[x] \in 1 .. Len(o) /\ o[p[x]] = x
  BY <1>1 DEF Listing
<1>3. ToSet(o) = L
  BY <1>2 DEF ToSet
<1>4. InsFirst(b, L, p) /\ Levels(Inner(b, L), L, p, b.depth, b.depthBounds)
  BY DEF Net, Core, Ordered
<1>5. \A x, y \in L : b.entries[x].type = "IN" /\ b.entries[y].type # "IN" => p[x] < p[y]
  BY <1>4 DEF InsFirst
<1>6. \A x, y \in L : b.entries[x].type # "OUT" /\ b.entries[y].type = "OUT" => p[x] < p[y]
  BY <1>4 DEF Levels, Inner
<1> HIDE DEF o, L
<1>7. ASSUME NEW n \in DOMAIN o, NEW m \in 1 .. n - 1 PROVE rank(o[m]) <= rank(o[n])
  <2>1. m \in 1 .. Len(o) /\ n \in 1 .. Len(o) /\ m < n
    BY <1>2, <1>7
  <2>2. o[m] \in L /\ o[n] \in L /\ p[o[m]] = m /\ p[o[n]] = n
    BY <2>1, <1>2
  <2>3. ~(p[o[n]] < p[o[m]])
    BY <2>1, <2>2
  <2>4. ~(b.entries[o[n]].type = "IN" /\ b.entries[o[m]].type # "IN")
    BY <2>2, <2>3, <1>5
  <2>5. ~(b.entries[o[n]].type # "OUT" /\ b.entries[o[m]].type = "OUT")
    BY <2>2, <2>3, <1>6
  <2> QED BY <2>4, <2>5
<1>8. ASSUME NEW n \in DOMAIN o, NEW j \in DOMAIN b.entries[o[n]].links
      PROVE  \E m \in 1 .. n - 1 : o[m] = b.entries[o[n]].links[j].idx
  <2> DEFINE y == b.entries[o[n]].links[j].idx
  <2>1. o[n] \in L /\ p[o[n]] = n /\ n \in 1 .. Len(o)
    BY <1>2, <1>8
  <2>2. y \in L /\ p[y] < p[o[n]]
    BY <2>1, <1>8, NetTopo DEF Drivers, L
  <2> HIDE DEF y
  <2>3. p[y] \in 1 .. Len(o) /\ o[p[y]] = y
    BY <2>2, <1>2
  <2>4. p[y] \in 1 .. n - 1
    BY <2>1, <2>2, <2>3
  <2> QED BY <2>3, <2>4 DEF y
<1> QED BY <1>2, <1>3, <1>7, <1>8 DEF OrderSound, o, L

\* A set of positions has a first and a last one.
LEMMA MinMaxIs ==
  ASSUME NEW S \in SUBSET Int, NEW f \in S, NEW l \in S, \A x \in S : f <= x /\ x <= l
  PROVE  Min(S) = f /\ Max(S) = l
<1>1. /\ Min(S) \in S /\ \A y \in S : Min(S) <= y
  <2>1. \E x \in S : \A y \in S : x <= y
    OBVIOUS
  <2> QED BY <2>1 DEF Min
<1>2. /\ Max(S) \in S /\ \A y \in S : Max(S) >= y
  <2>1. \E x \in S : \A y \in S : x >= y
    OBVIOUS
  <2> QED BY <2>1 DEF Max
<1>3. Min(S) \in Int /\ Max(S) \in Int /\ f \in Int /\ l \in Int
  BY <1>1, <1>2
<1>4. Min(S) <= f /\ f <= Min(S) /\ Max(S) >= l /\ Max(S) <= l
  BY <1>1, <1>2
<1> QED BY <1>3, <1>4

\* The invariant implies that the depth bounds are exact.
LEMMA NetLevels ==
  ASSUME NEW b, NEW p, Net(b, p)
  PROVE  LevelsSound(b)
<1> DEFINE o == Order(b)
           L == Live(b)
           In == Drivers(b)
<1>1. Listing(o, L, p)
  BY NetOrder
<1>2. DOMAIN o = 1 .. Len(o) /\ Len(o) \in Nat
      /\ (\A n \in 1 .. Len(o) : o[n] \in L /\ p[o[n]] = n) /\ \A x \in L : p[x] \in 1 .. Len(o) /\ o[p[x]] = x
  BY <1>1 DEF Listing
<1>3. Levels(In, L, p, b.depth, b.depthBounds)
  BY CoreFacts DEF Net, Core, Ordered
<1>4. (\A x \in L : x \in In <=> b.entries[x].type # "OUT") /\ In \subseteq L
  BY DEF Drivers
<1>5. \A x \in L : b.depth[x] \in Nat
  BY CoreFacts DEF Net
<1> HIDE DEF o, L, In
<1>6. ASSUME NEW m \in DOMAIN o, NEW n \in DOMAIN o, m < n, b.entries[o[m]].type # "OUT", b.entries[o[n]].type # "OUT"
      PROVE  b.depth[o[m]] <= b.depth[o[n]]
  <2>1. o[m] \in In /\ o[n] \in In /\ p[o[m]] = m /\ p[o[n]] = n /\ m \in Nat /\ n \in Nat
    BY <1>2, <1>4, <1>6
  <2>2. ~(b.depth[o[n]] < b.depth[o[m]])
    BY <2>1, <1>3, <1>6 DEF Levels
  <2>3. b.depth[o[n]] \in Nat /\ b.depth[o[m]] \in Nat
    BY <2>1, <1>4, <1>5
  <2> QED BY <2>2, <2>3
<1>7. ASSUME NEW d \in DOMAIN b.depthBounds
      PROVE  b.depthBounds[d] = IF Level(b, o, d) = {} THEN NoBounds ELSE <<o[Min(Level(b, o, d))], o[Max(Level(b, o, d))]>>
  <2> DEFINE lv == Level(b, o, d)
             u == b.depthBounds[d]
  <2>1. \A n : n \in lv <=> n \in 1 .. Len(o) /\ o[n] \in In /\ b.depth[o[n]] = d
    BY <1>2, <1>4 DEF Level
  <2>2. Bound(In, p, b.depth, d, u)
    BY <1>3, <1>7 DEF Levels
  <2> HIDE DEF lv, u
  <2>3. CASE u = NoBounds /\ \A x \in In : b.depth[x] # d
    <3>1. lv = {}
      BY <2>1, <2>3
    <3> QED BY <3>1, <2>3 DEF lv, u
  <2>4. CASE \E f, l \in In : /\ u = <<f, l>> /\ b.depth[f] = d /\ b.depth[l] = d
                              /\ \A x \in In : b.depth[x] = d => p[f] <= p[x] /\ p[x] <= p[l]
    <3>1. PICK f \in In, l \in In : /\ u = <<f, l>> /\ b.depth[f] = d /\ b.depth[l] = d
                                    /\ \A x \in In : b.depth[x] = d => p[f] <= p[x] /\ p[x] <= p[l]
      BY <2>4
    <3>2. f \in L /\ l \in L
      BY <1>4
    <3>3. p[f] \in 1 .. Len(o) /\ p[l] \in 1 .. Len(o) /\ o[p[f]] = f /\ o[p[l]] = l
      BY <3>2, <1>2
    <3>4. p[f] \in lv /\ p[l] \in lv
      BY <3>1, <3>3, <2>1
    <3>5. \A n \in lv : p[f] <= n /\ n <= p[l]
      BY <3>1, <2>1, <1>2
    <3>6. lv \in SUBSET Int
      BY <2>1
    <3>7. Min(lv) = p[f] /\ Max(lv) = p[l]
      BY <3>4, <3>5, <3>6, MinMaxIs
    <3> QED BY <3>1, <3>3, <3>4, <3>7 DEF lv, u
  <2> QED BY <2>2, <2>3, <2>4 DEF Bound
<1> QED BY <1>6, <1>7 DEF LevelsSound, o

\* The invariant implies that the depths are exact.
LEMMA NetDepths ==
  ASSUME NEW b, NEW p, Net(b, p)
  PROVE  DepthsSound(b)
<1> SUFFICES ASSUME NEW i \in Live(b) PROVE b.depth[i] = DepthOver(b, b.entries[i].links)
  BY DEF DepthsSound
<1> DEFINE ls == b.entries[i].links
<1>1. IsDepthOver(b, ls, b.depth[i])
  BY DEF Net, ExactOn
<1>2. PICK m \in Nat : \A x \in Drivers(b) : b.depth[x] < m
  BY CoreFacts DEF Net
<1>3. \A j \in DOMAIN ls : b.depth[ls[j].idx] \in Nat /\ b.depth[ls[j].idx] < m
  BY <1>2, NetLinks, CoreFacts DEF Net
<1>4. IsDepthOver(b, ls, DepthOver(b, ls))
  BY <1>3, DepthOverIs
<1> QED BY <1>1, <1>3, <1>4, DepthOverUnique

\* The invariant implies that the hash is sound.
LEMMA NetKeys ==
  ASSUME NEW b, NEW p, Net(b, p)
  PROVE  KeysSound(b)
BY DEF Net, Core, KeysOf, KeysSound, CellKey

\* The invariant implies that the counters are exact.
LEMMA NetCounters ==
  ASSUME NEW b, NEW p, Net(b, p)
  PROVE  CountersSound(b)
<1> DEFINE L == Live(b)
<1>1. /\ Refs(b.entries, Drivers(b), Wires(b), Targets(b)) /\ FreeOf(b.empty, DOMAIN b.entries, L) /\ Counts(b, 0)
  BY DEF Net, Core
<1>2. L \subseteq DOMAIN b.entries /\ IsFiniteSet(L)
  BY CoreFacts DEF Net
<1>3. ASSUME NEW i \in L PROVE b.entries[i].refcount = Cardinality({w \in Wires(b) : WireTo(b, w) = i})
  <2>1. b.entries[i].refcount = Cardinality(To(Wires(b), Targets(b), i))
    BY <1>1, <1>2, <1>3 DEF Refs
  <2>2. To(Wires(b), Targets(b), i) = {w \in Wires(b) : WireTo(b, w) = i}
    BY DEF To, Targets
  <2> QED BY <2>1, <2>2
<1>4. ToSet(b.empty) = DOMAIN b.entries \ L
  BY <1>1 DEF ToSet, FreeOf
<1>5. Len(b.empty) = Cardinality(ToSet(b.empty))
  <2>1. Len(b.empty) \in Nat /\ DOMAIN b.empty = 1 .. Len(b.empty) /\ \A j, k \in 1 .. Len(b.empty) : b.empty[j] = b.empty[k] => j = k
    BY <1>1 DEF FreeOf
  <2>2. Matches(b.empty, 1 .. Len(b.empty), ToSet(b.empty))
    BY <2>1 DEF Matches, ToSet
  <2>3. IsFiniteSet(1 .. Len(b.empty)) /\ Cardinality(1 .. Len(b.empty)) = Len(b.empty)
    BY <2>1, FS_Interval
  <2> QED BY <2>2, <2>3, SameCardinality
<1>6. b.nBuf = Num(b.entries, L, "BUF")
  BY <1>1, <1>2, NumType DEF Counts
<1> QED BY <1>1, <1>3, <1>4, <1>5, <1>6 DEF CountersSound, Counts, Num

\* The links of cell k to cell s.
LEMMA FromLinks ==
  ASSUME NEW b, IsFiniteSet(Wires(b)), NEW k \in Live(b), NEW s
  PROVE  Cardinality(From(Wires(b), Targets(b), k, s)) = NumLinks(b.entries[k].links, s)
<1>1. Cardinality({j \in DOMAIN b.entries[k].links : b.entries[k].links[j].idx \in {s}}) = Cardinality(Unseen(b, {k}, {s}))
  BY UnseenOf
<1>2. Unseen(b, {k}, {s}) = From(Wires(b), Targets(b), k, s)
  BY DEF Unseen, From
<1>3. {j \in DOMAIN b.entries[k].links : b.entries[k].links[j].idx \in {s}} = {j \in DOMAIN b.entries[k].links : b.entries[k].links[j].idx = s}
  OBVIOUS
<1> QED BY <1>1, <1>2, <1>3 DEF NumLinks

\* The invariant implies that the fanout lists are exact.
LEMMA NetFanouts ==
  ASSUME NEW b, NEW p, Net(b, p)
  PROVE  FanoutsSound(b)
<1> SUFFICES ASSUME b.fanoutsEnabled, NEW i \in Live(b) PROVE ToBag(FanoutsOf(b, i)) = Users(b, i)
  BY DEF FanoutsSound
<1> DEFINE W == Wires(b)
           T == Targets(b)
           l == FanoutsOf(b, i)
           U == {w[1] : w \in {v \in W : WireTo(b, v) = i}}
<1>1. Fan(b.fanoutsEnabled, b.fanouts, W, T) /\ IsFiniteSet(W)
  BY DEF Net, Core, Refs
<1>2. Live(b) \subseteq Nat
  <2>1. Live(b) \subseteq DOMAIN b.entries /\ DOMAIN b.entries \subseteq Nat
    BY CoreFacts DEF Net
  <2> QED BY <2>1
<1>3. l = ListOf(b.fanouts, i)
  BY DEF FanoutsOf, ListOf
<1>4. l \in Seq(Nat) /\ \A k \in Nat : Occ(l, k) = Cardinality(From(W, T, k, i))
  BY <1>1, <1>2, <1>3 DEF Fan, Lists
<1>5. \A w \in W : w[1] \in Live(b)
  BY WiresWired
<1> HIDE DEF l
<1>6. ASSUME NEW k PROVE k \in Range(l) <=> k \in U
  <2>1. k \in Range(l) => k \in Nat
    BY <1>4 DEF Range
  <2>2. k \in U <=> \E w \in W : T[w] = i /\ w[1] = k
    BY DEF Targets
  <2>3. k \in U => k \in Live(b) /\ k \in Nat
    BY <2>2, <1>2, <1>5
  <2>4. From(W, T, k, i) # {} <=> k \in U
    BY <2>2 DEF From
  <2>5. IsFiniteSet(From(W, T, k, i)) /\ Cardinality(From(W, T, k, i)) \in Nat
    BY <1>1, TokensFinite
  <2>6. Cardinality(From(W, T, k, i)) > 0 <=> From(W, T, k, i) # {}
    BY <2>5, FS_EmptySet
  <2>7. Occ(l, k) > 0 <=> k \in Range(l)
    <3>1. Occ(l, k) > 0 <=> \E j \in 1 .. Len(l) : l[j] = k
      BY <1>4, OccPositive
    <3>2. DOMAIN l = 1 .. Len(l)
      BY <1>4
    <3> QED BY <3>1, <3>2 DEF Range
  <2> HIDE DEF U
  <2>8. CASE k \in Nat
    BY <2>8, <2>4, <2>6, <2>7, <1>4
  <2>9. CASE k \notin Nat
    BY <2>9, <2>1, <2>3
  <2> QED BY <2>8, <2>9
<1>7. Range(l) = U
  BY <1>6
<1>8. ASSUME NEW k \in U PROVE Cardinality({j \in DOMAIN l : l[j] = k}) = NumLinks(b.entries[k].links, i)
  <2>1. k \in Live(b) /\ k \in Nat
    BY <1>2, <1>5, <1>8
  <2>2. Occ(l, k) = Cardinality(From(W, T, k, i))
    BY <2>1, <1>4
  <2>3. Cardinality(From(W, T, k, i)) = NumLinks(b.entries[k].links, i)
    BY <2>1, <1>1, FromLinks
  <2> QED BY <2>2, <2>3 DEF Occ
<1>9. ToBag(l) = [k \in U |-> Cardinality({j \in DOMAIN l : l[j] = k})]
  BY <1>7 DEF ToBag
<1>10. ToBag(l) = [k \in U |-> NumLinks(b.entries[k].links, i)]
  BY <1>8, <1>9
<1> QED BY <1>10 DEF Users, l

\* One iteration of enableFanouts.
EnableLoop(c, f, k) == PushFanouts(f, c[1][k], c[2][c[1][k]].links)

\* The loop of enableFanouts has runs.
Enables == INSTANCE LoopProofs WITH Step <- EnableLoop

\* push is the run of enableFanouts(b).
IsEnabling(push, b, o) ==
  /\ push[0] = b.fanouts
  /\ \A k \in 1 .. Len(o) : push[k] = PushFanouts(push[k - 1], o[k], b.entries[o[k]].links)
  /\ enableFanouts(b) = [b EXCEPT !.fanoutsEnabled = TRUE, !.fanouts = push[Len(o)]]

\* enableFanouts is the last state of a run of its loop.
LEMMA EnableRun ==
  ASSUME NEW b, NEW o, o = Order(b), Len(o) \in Nat
  PROVE  \E push : IsEnabling(push, b, o)
<1> DEFINE N == Len(o)
           IsF(g) == g = [k \in 0 .. N |-> IF k = 0 THEN b.fanouts ELSE PushFanouts(g[k - 1], o[k], b.entries[o[k]].links)]
           f == CHOOSE g : IsF(g)
<1>1. \E g : Enables!IsRun(g, <<o, b.entries>>, b.fanouts, N)
  BY Enables!RunExists, LeastNumbers DEF Enables!WellOrdered
<1>2. \E g : IsF(g)
  BY <1>1 DEF Enables!IsRun, EnableLoop
<1>3. IsF(f)
  <2> HIDE DEF IsF
  <2> QED BY <1>2
<1>4. enableFanouts(b) = [b EXCEPT !.fanoutsEnabled = TRUE, !.fanouts = f[N]]
  BY DEF enableFanouts
<1> HIDE DEF f
<1>5. f[0] = b.fanouts
  BY <1>3
<1>6. \A k \in 1 .. N : f[k] = PushFanouts(f[k - 1], o[k], b.entries[o[k]].links)
  <2> TAKE k \in 1 .. N
  <2>1. k \in 0 .. N /\ k # 0
    OBVIOUS
  <2> QED BY <2>1, <1>3
<1>7. IsEnabling(f, b, o)
  BY <1>4, <1>5, <1>6 DEF IsEnabling
<1> QED BY <1>7

\* The fanouts of the first k cells of the order.
FannedTo(f, b, p, k) ==
  /\ DOMAIN f \subseteq Nat /\ Lists(f)
  /\ \A s, x \in Nat : /\ (x \in Live(b) /\ p[x] <= k => Occ(ListOf(f, s), x) = Cardinality(From(Wires(b), Targets(b), x, s)))
                       /\ (~(x \in Live(b) /\ p[x] <= k) => Occ(ListOf(f, s), x) = 0)

\* The links of the next cell of the order are listed.
LEMMA FanNext ==
  ASSUME NEW b, NEW p, Net(b, p), NEW k \in Nat, NEW i \in Live(b), p[i] = k + 1, NEW f, FannedTo(f, b, p, k)
  PROVE  FannedTo(PushFanouts(f, i, b.entries[i].links), b, p, k + 1)
<1> DEFINE ls == b.entries[i].links
           g == PushFanouts(f, i, ls)
<1>1. /\ Live(b) \subseteq DOMAIN b.entries /\ DOMAIN b.entries \subseteq Nat /\ CellsOK(b.entries) /\ IsFiniteSet(Live(b))
  BY CoreFacts DEF Net, Core
<1>2. ls \in Seq(LinkSet(Nat)) /\ i \in Nat
  <2>1. ls \in Seq(LinkSet(DOMAIN b.entries))
    BY <1>1, CellFields
  <2> QED BY <2>1, <1>1, SeqMono
<1>3. DOMAIN f \subseteq Nat /\ Lists(f)
  BY DEF FannedTo
<1>4. Pushed(g, f, i, ls, Len(ls))
  BY <1>2, <1>3, PushFanoutsLists
<1>5. Thread(b, Live(b), p) /\ IsFiniteSet(Wires(b)) /\ p \in [Live(b) -> Nat]
  <2>1. Thread(b, Live(b), p) /\ IsFiniteSet(Wires(b))
    BY DEF Net, Core, Ordered, Refs
  <2>2. Cardinality(Live(b)) \in Nat
    BY <1>1, FS_CardinalityType
  <2> QED BY <2>1, <2>2 DEF Thread
<1> HIDE DEF ls, g
<1>6. ASSUME NEW s \in Nat, NEW x \in Nat
      PROVE  /\ (x \in Live(b) /\ p[x] <= k + 1 => Occ(ListOf(g, s), x) = Cardinality(From(Wires(b), Targets(b), x, s)))
             /\ (~(x \in Live(b) /\ p[x] <= k + 1) => Occ(ListOf(g, s), x) = 0)
  <2>1. CASE x # i
    <3>1. Occ(ListOf(g, s), x) = Occ(ListOf(f, s), x)
      BY <2>1, <1>4 DEF Pushed
    <3>2. (x \in Live(b) /\ p[x] <= k + 1) <=> (x \in Live(b) /\ p[x] <= k)
      <4>1. x \in Live(b) => p[x] \in Nat /\ p[x] # k + 1
        BY <2>1, <1>5 DEF Thread
      <4> QED BY <4>1
    <3> QED BY <3>1, <3>2 DEF FannedTo
  <2>2. CASE x = i
    <3>1. Occ(ListOf(f, s), i) = 0
      BY <1>2 DEF FannedTo
    <3>2. Occ(ListOf(g, s), i) = Occ(ListOf(f, s), i) + Cardinality(PartOf(ls, Len(ls), s))
      BY <1>4 DEF Pushed
    <3>3. NumLinks(ls, s) = Cardinality(PartOf(ls, Len(ls), s))
      BY <1>2, NumLinksPart
    <3>4. Cardinality(From(Wires(b), Targets(b), i, s)) = NumLinks(ls, s)
      BY <1>5, FromLinks DEF ls
    <3>5. NumLinks(ls, s) \in Nat
      <4>1. Cardinality(From(Wires(b), Targets(b), i, s)) \in Nat
        BY <1>5, TokensFinite
      <4> QED BY <4>1, <3>4
    <3> QED BY <2>2, <3>1, <3>2, <3>3, <3>4, <3>5
  <2> QED BY <2>1, <2>2
<1>7. FannedTo(g, b, p, k + 1)
  BY <1>4, <1>6 DEF FannedTo, Pushed
<1> QED BY <1>7 DEF g, ls

-----------------------------------------------------------------------------
(* Enabling fanouts, and builders built cell by cell.                      *)

\* The builder with other fanout lists.
LEMMA FanNet ==
  ASSUME NEW b, NEW p, Net(b, p),
         NEW r, Same(r, b, {"fanouts", "fanoutsEnabled"}), Fan(r.fanoutsEnabled, r.fanouts, Wires(b), Targets(b))
  PROVE  Net(r, p)
<1>1. IsRec(b) /\ Core(b, Wires(b), Targets(b), p, 0) /\ Live(b) \subseteq DOMAIN b.entries
  BY CoreFacts DEF Net
<1>2. r.entries = b.entries /\ r.depth = b.depth
  BY <1>1 DEF Same, IsRec, EmptyBuilder
<1>3. Same(r, b, {"entries", "fanouts", "fanoutsEnabled", "log"})
  BY DEF Same
<1>4. SameCells(r.entries, b.entries) /\ CellsOK(r.entries) /\ Refs(r.entries, Drivers(b), Wires(b), Targets(b))
  BY <1>1, <1>2 DEF SameCells, Core
<1>5. Core(r, Wires(b), Targets(b), p, 0) /\ Live(r) = Live(b) /\ Drivers(r) = Drivers(b)
  BY <1>1, <1>3, <1>4, CoreSame
<1>6. Wires(r) = Wires(b) /\ Targets(r) = Targets(b)
  BY <1>2, <1>5, WiresSame
<1>7. ExactOn(r, Live(r)) /\ Arities(r.entries, Live(r))
  BY <1>2, <1>5 DEF Net, ExactOn, IsDepthOver
<1> QED BY <1>5, <1>6, <1>7 DEF Net

\* disableFanouts keeps the invariant.
LEMMA DisableNet ==
  ASSUME NEW b, NEW p, Net(b, p)
  PROVE  Net(disableFanouts(b), p)
<1> DEFINE r == disableFanouts(b)
<1>1. IsRec(b)
  BY CoreFacts DEF Net
<1>2. Same(r, b, {"fanouts", "fanoutsEnabled"}) /\ r.fanoutsEnabled = FALSE /\ r.fanouts = << >>
  BY <1>1 DEF disableFanouts, Same, IsRec, EmptyBuilder
<1> HIDE DEF r
<1>3. Fan(r.fanoutsEnabled, r.fanouts, Wires(b), Targets(b))
  BY <1>2 DEF Fan
<1>4. Net(r, p)
  BY <1>2, <1>3, FanNet
<1> QED BY <1>4 DEF r

\* enableFanouts keeps the invariant: it lists the links of all live cells.
LEMMA EnableNet ==
  ASSUME NEW b, NEW p, Net(b, p), ~b.fanoutsEnabled
  PROVE  Net(enableFanouts(b), p)
<1> DEFINE r == enableFanouts(b)
           o == Order(b)
           N == Len(o)
           W == Wires(b)
           T == Targets(b)
<1>1. IsRec(b) /\ b.fanouts = << >> /\ IsFiniteSet(W)
  BY CoreFacts DEF Net, Core, Fan, Refs
<1>2. Listing(o, Live(b), p)
  BY NetOrder
<1>3. N \in Nat /\ (\A n \in 1 .. N : o[n] \in Live(b) /\ p[o[n]] = n) /\ \A x \in Live(b) : p[x] \in 1 .. N
  BY <1>2 DEF Listing
<1>4. PICK push : IsEnabling(push, b, o)
  BY <1>3, EnableRun
<1>5. /\ push[0] = << >> /\ \A k \in 1 .. N : push[k] = PushFanouts(push[k - 1], o[k], b.entries[o[k]].links)
      /\ r = [b EXCEPT !.fanoutsEnabled = TRUE, !.fanouts = push[N]]
  BY <1>1, <1>4 DEF IsEnabling
<1>6. Same(r, b, {"fanouts", "fanoutsEnabled"}) /\ r.fanoutsEnabled = TRUE /\ r.fanouts = push[N]
  BY <1>1, <1>5 DEF Same, IsRec, EmptyBuilder
<1> HIDE DEF r, o, N, W, T
<1> DEFINE G == {k \in 0 .. N : FannedTo(push[k], b, p, k)}
<1>7. 0 \in G
  <2>1. DOMAIN << >> \subseteq Nat /\ Lists(<< >>) /\ \A s : ListOf(<< >>, s) = << >>
    BY DEF Lists, ListOf
  <2>2. \A x : Occ(<< >>, x) = 0
    BY OccEmpty
  <2>3. \A x \in Live(b) : ~(p[x] <= 0)
    BY <1>3
  <2>4. FannedTo(<< >>, b, p, 0)
    BY <2>1, <2>2, <2>3 DEF FannedTo
  <2> QED BY <2>4, <1>3, <1>5
<1>8. ASSUME NEW k \in 0 .. N - 1, k \in G PROVE k + 1 \in G
  <2>1. k + 1 \in 1 .. N /\ k + 1 \in 0 .. N /\ k \in Nat /\ (k + 1) - 1 = k
    BY <1>3, <1>8
  <2>2. push[k + 1] = PushFanouts(push[k], o[k + 1], b.entries[o[k + 1]].links)
    BY <2>1, <1>5
  <2>3. o[k + 1] \in Live(b) /\ p[o[k + 1]] = k + 1
    BY <2>1, <1>3
  <2>4. FannedTo(push[k], b, p, k)
    BY <1>8
  <2>5. FannedTo(push[k + 1], b, p, k + 1)
    BY <2>1, <2>2, <2>3, <2>4, FanNext
  <2> QED BY <2>1, <2>5
<1>9. N \in G
  <2>1. \A k \in 0 .. N : k \in G
    <3> HIDE DEF G
    <3> QED BY <1>3, <1>7, <1>8, IntervalInduction
  <2> QED BY <2>1, <1>3
<1>10. FannedTo(push[N], b, p, N)
  BY <1>9
<1>11. ASSUME NEW s \in Nat, NEW x \in Nat PROVE Occ(ListOf(push[N], s), x) = Cardinality(From(W, T, x, s))
  <2>1. CASE x \in Live(b)
    <3>1. p[x] <= N
      BY <2>1, <1>3
    <3> QED BY <3>1, <2>1, <1>10 DEF FannedTo, W, T
  <2>2. CASE x \notin Live(b)
    <3>1. From(W, T, x, s) = {}
      BY <2>2, WiresWired DEF From, W
    <3>2. Cardinality(From(W, T, x, s)) = 0
      BY <3>1, FS_EmptySet
    <3> QED BY <3>2, <2>2, <1>10 DEF FannedTo
  <2> QED BY <2>1, <2>2
<1>12. Fan(TRUE, push[N], W, T)
  BY <1>10, <1>11 DEF Fan, FannedTo
<1>13. Net(r, p)
  BY <1>6, <1>12, FanNet DEF W, T
<1> QED BY <1>13 DEF r

\* The empty builder, and what may be added to a builder.
LEMMA EmptyNet == Net(EmptyBuilder, << >>)
<1> DEFINE b == EmptyBuilder
           p == << >>
<1>1. /\ b.entries = << >> /\ b.prev = << >> /\ b.next = << >> /\ b.depth = << >> /\ b.depthBounds = << >> /\ b.empty = << >>
      /\ b.begin = InvalidID /\ b.end = InvalidID /\ b.strash = << >> /\ b.fanouts = << >> /\ b.fanoutsEnabled = FALSE
      /\ b.nIn = 0 /\ b.nOut = 0 /\ b.nCell = 0 /\ b.nBuf = 0 /\ b.fault = FALSE
  BY DEF EmptyBuilder
<1>2. IsRec(b)
  BY DEF IsRec
<1>3. DOMAIN << >> = {} /\ {} = 0 .. 0 - 1
  OBVIOUS
<1>4. Live(b) = {} /\ Drivers(b) = {}
  BY <1>1, <1>3 DEF Live, Drivers
<1>5. Wires(b) = {}
  BY <1>4 DEF Wires
<1> HIDE DEF b
<1>6. CellsOK(b.entries) /\ DepthsOK(b.depth, DOMAIN b.entries)
  BY <1>1, <1>3 DEF CellsOK, DepthsOK
<1>7. FreeOf(b.empty, DOMAIN b.entries, Live(b))
  BY <1>1, <1>3, <1>4 DEF FreeOf
<1>8. KeysOf(b.strash, b.entries, Live(b))
  BY <1>1, <1>3 DEF KeysOf
<1>9. IsFiniteSet({}) /\ Cardinality({}) = 0
  BY FS_EmptySet
<1>10. Refs(b.entries, Drivers(b), Wires(b), Targets(b)) /\ Fan(b.fanoutsEnabled, b.fanouts, Wires(b), Targets(b))
  BY <1>1, <1>3, <1>5, <1>9 DEF Refs, Fan
<1>11. Counts(b, 0)
  <2>1. \A t : Num(b.entries, Live(b), t) = 0
    <3> TAKE t
    <3>1. {x \in Live(b) : b.entries[x].type = t} = {}
      BY <1>4
    <3> QED BY <3>1, <1>9 DEF Num
  <2> QED BY <2>1, <1>1, <1>4, <1>9 DEF Counts
<1>12. Body(b)
  BY <1>1, <1>4, <1>6, <1>7, <1>8, <1>10, <1>11 DEF Body, Arities
<1>13. Ordered(b, Live(b), p)
  <2>1. Arrays(b)
    BY <1>1, <1>2, <1>3 DEF Arrays, Linking
  <2>2. Thread(b, {}, p)
    <3>1. p \in [{} -> 1 .. 0]
      OBVIOUS
    <3> HIDE DEF p
    <3> QED BY <3>1, <1>1, <1>9 DEF Thread
  <2>3. Inner(b, {}) = {}
    BY DEF Inner
  <2>4. Levels({}, {}, p, b.depth, b.depthBounds)
    BY <1>1, <1>3 DEF Levels
  <2>5. InsFirst(b, {}, p)
    BY DEF InsFirst
  <2> QED BY <2>1, <2>2, <2>3, <2>4, <2>5, <1>3, <1>4, <1>9 DEF Ordered
<1>14. ExactOn(b, Live(b))
  BY <1>4 DEF ExactOn
<1>15. Net(b, p)
  BY <1>12, <1>13, <1>14, NetBody
<1> QED BY <1>15 DEF b

\* A cell that may be added to builder b.
Addable(b, t, ls) ==
  /\ t \in CellTypes /\ Arity(t, ls) /\ ls \in Seq(LinkSet(Drivers(b)))
  /\ t # "IN" => Live(b) # {}

\* addCell keeps the invariant, whether the hash knows the cell or not.
LEMMA AddNet ==
  ASSUME NEW b, NEW p, Net(b, p), NEW t, NEW ls, Addable(b, t, ls)
  PROVE  Sound(addCell(b, t, ls).b) /\ Live(addCell(b, t, ls).b) # {}
<1> DEFINE r == addCell(b, t, ls).b
           key == StrashKey(t, ls)
<1>1. CASE StrashEnabled(t) /\ key \in DOMAIN b.strash
  <2>1. Same(r, b, {"log"})
    BY <1>1, AddFound
  <2> HIDE DEF r
  <2>2. Net(r, p) /\ Live(r) = Live(b)
    BY <2>1, NetLog
  <2>3. b.strash[key] \in Live(b)
    BY <1>1 DEF Net, Core, KeysOf
  <2>4. Sound(r) /\ Live(r) # {}
    BY <2>2, <2>3 DEF Sound
  <2> QED BY <2>4 DEF r
<1>2. CASE ~(StrashEnabled(t) /\ key \in DOMAIN b.strash)
  <2>1. t \in CellTypes /\ ls \in Seq(LinkSet(Drivers(b))) /\ Arity(t, ls) /\ (t # "IN" => Live(b) # {})
    BY DEF Addable
  <2>2. Extended(r, b, p, NextSlot(b), t, ls)
    BY <2>1, <1>2, AddNew
  <2> HIDE DEF r
  <2>3. Sound(r) /\ Live(r) # {}
    BY <2>2 DEF Extended, Sound
  <2> QED BY <2>3 DEF r
<1> QED BY <1>1, <1>2

\* One iteration of Build.
BuildLoop(c, b, k) == addCell(b, c[k].type, c[k].links).b

\* The loop of Build has runs.
Builds == INSTANCE LoopProofs WITH Step <- BuildLoop

\* Build adds the cells one by one.
LEMMA BuildRun ==
  ASSUME NEW cells, Len(cells) \in Nat
  PROVE  /\ Built(cells)[0] = EmptyBuilder
         /\ \A k \in 1 .. Len(cells) : Built(cells)[k] = addCell(Built(cells)[k - 1], cells[k].type, cells[k].links).b
<1> DEFINE N == Len(cells)
           IsF(g) == g = [k \in 0 .. N |-> IF k = 0 THEN EmptyBuilder ELSE addCell(g[k - 1], cells[k].type, cells[k].links).b]
           f == CHOOSE g : IsF(g)
<1>1. \E g : Builds!IsRun(g, cells, EmptyBuilder, N)
  BY Builds!RunExists, LeastNumbers DEF Builds!WellOrdered
<1>2. \E g : IsF(g)
  BY <1>1 DEF Builds!IsRun, BuildLoop
<1>3. IsF(f)
  <2> HIDE DEF IsF
  <2> QED BY <1>2
<1>4. Built(cells) = f
  BY DEF Built
<1> HIDE DEF f
<1>5. f[0] = EmptyBuilder
  BY <1>3
<1>6. \A k \in 1 .. N : f[k] = addCell(f[k - 1], cells[k].type, cells[k].links).b
  <2> TAKE k \in 1 .. N
  <2>1. k \in 0 .. N /\ k # 0
    OBVIOUS
  <2> QED BY <2>1, <1>3
<1> QED BY <1>4, <1>5, <1>6

\* A builder to which legal cells have been added is sound.
LEMMA BuildNet ==
  ASSUME NEW cells, LegalSeed(cells)
  PROVE  Sound(Build(cells))
<1> DEFINE N == Len(cells)
           f == Built(cells)
           G == {k \in 0 .. N : Sound(f[k]) /\ (k > 0 => Live(f[k]) # {})}
<1>1. N \in Nat /\ f[0] = EmptyBuilder /\ \A k \in 1 .. N : f[k] = addCell(f[k - 1], cells[k].type, cells[k].links).b
  BY BuildRun DEF LegalSeed
<1> HIDE DEF f, N
<1>2. 0 \in G
  BY <1>1, EmptyNet DEF Sound
<1>3. ASSUME NEW k \in 0 .. N - 1, k \in G PROVE k + 1 \in G
  <2> DEFINE t == cells[k + 1].type
             ls == cells[k + 1].links
  <2>1. k + 1 \in 1 .. N /\ k + 1 \in 0 .. N /\ k \in Nat /\ (k + 1) - 1 = k
    BY <1>1, <1>3
  <2>2. f[k + 1] = addCell(f[k], t, ls).b
    BY <2>1, <1>1
  <2>3. t \in CellTypes /\ Arity(t, ls) /\ ls \in Seq(LinkSet(Drivers(f[k]))) /\ (k = 0 => t = "IN")
    BY <2>1 DEF LegalSeed, N, f
  <2> HIDE DEF t, ls
  <2>4. PICK p : Net(f[k], p)
    BY <1>3 DEF Sound
  <2>5. k > 0 => Live(f[k]) # {}
    BY <1>3
  <2>6. Addable(f[k], t, ls)
    BY <2>1, <2>3, <2>5 DEF Addable
  <2>7. Sound(f[k + 1]) /\ Live(f[k + 1]) # {}
    BY <2>2, <2>4, <2>6, AddNet
  <2> QED BY <2>1, <2>7
<1>4. N \in G
  <2>1. \A k \in 0 .. N : k \in G
    <3> HIDE DEF G
    <3> QED BY <1>1, <1>2, <1>3, IntervalInduction
  <2> QED BY <2>1, <1>1
<1>5. Sound(f[N])
  BY <1>4
<1> QED BY <1>5 DEF f, N, Build

-----------------------------------------------------------------------------
(* The calls.                                                              *)

\* What make keeps.
Kept(b) == IsRec(b) /\ KeysSound(b) /\ FanoutsSound(b)

\* The inductive invariant.
BuilderInv ==
  /\ made \in BOOLEAN /\ calls \in 0 .. MaxCalls
  /\ ~made => Sound(sb)
  /\ made => Kept(sb)

\* A list of n links is a sequence of links.
LEMMA LinkListSeq ==
  ASSUME NEW S, NEW n \in Nat, NEW ls \in LinkLists(S, n)
  PROVE  ls \in Seq(LinkSet(S)) /\ DOMAIN ls = 1 .. n
<1>1. ls \in [1 .. n -> Links(S)]
  BY DEF LinkLists
<1>2. Links(S) \subseteq LinkSet(S)
  BY BoundsAssumption DEF Links, Link, LinkSet
<1> QED BY <1>1, <1>2

\* The gates that addCell and replaceCell are called for are legal.
LEMMA GateCall ==
  ASSUME NEW g \in Gates, NEW S, NEW ls \in LinkLists(S, g.arity)
  PROVE  IsGate(g.type, ls, S)
<1>1. /\ g.type \in CellTypes \ {"IN", "OUT"} /\ g.arity \in Nat /\ (g.arity = 0 => g.type \in {"ZERO", "ONE"})
      /\ (g.type = "BUF" => g.arity = 1)
  BY ArgumentsAssumption
<1>2. ls \in Seq(LinkSet(S)) /\ DOMAIN ls = 1 .. g.arity
  BY <1>1, LinkListSeq
<1>3. (DOMAIN ls = {} => g.arity = 0) /\ (g.arity = 1 => DOMAIN ls = {1})
  BY <1>1, <1>2
<1> QED BY <1>1, <1>2, <1>3 DEF IsGate, Arity

\* Clearing the log keeps a builder sound.
LEMMA QuietSound ==
  ASSUME NEW b, Sound(b)
  PROVE  Sound(Quiet(b))
<1>1. IsRec(b)
  BY SoundRec
<1>2. Same(Quiet(b), b, {"log"})
  BY <1>1 DEF Quiet, Same, IsRec, EmptyBuilder
<1> QED BY <1>2, SoundLog

\* addCell of a legal cell keeps the builder sound.
LEMMA AddSound ==
  ASSUME Sound(sb), ~LateInput, NEW t,
         NEW ls, t \in CellTypes, Arity(t, ls), ls \in Seq(LinkSet(Drivers(sb))), Add(t, ls)
  PROVE  Sound(sb') /\ made' = FALSE /\ calls' = calls
<1>1. PICK p : Net(sb, p)
  BY DEF Sound
<1>2. t # "IN" => Live(sb) # {}
  <2>1. SUFFICES ASSUME t # "IN", Live(sb) = {} PROVE FALSE
    OBVIOUS
  <2>2. sb.nIn > 0
    BY <2>1 DEF Add
  <2>3. {x \in Live(sb) : sb.entries[x].type = "IN"} = {}
    BY <2>1
  <2>4. sb.nIn = 0
    BY <1>1, <2>3, FS_EmptySet DEF Net, Core, Counts, Num
  <2> QED BY <2>2, <2>4
<1>3. Addable(sb, t, ls)
  BY <1>2 DEF Addable
<1>4. Sound(addCell(sb, t, ls).b)
  BY <1>1, <1>3, AddNet
<1> QED BY <1>4 DEF Add

\* addCell for an input, an output or a gate.
LEMMA AddInputSound ==
  ASSUME Sound(sb), ~LateInput, AddInput
  PROVE  Sound(sb') /\ made' = FALSE /\ calls' = calls
<1>1. "IN" \in CellTypes /\ Arity("IN", << >>) /\ << >> \in Seq(LinkSet(Drivers(sb)))
  BY DEF CellTypes, Arity
<1> QED BY <1>1, AddSound DEF AddInput

\* addCell of an output keeps the builder sound.
LEMMA AddOutputSound ==
  ASSUME Sound(sb), ~LateInput, AddOutput
  PROVE  Sound(sb') /\ made' = FALSE /\ calls' = calls
<1>1. PICK l \in Links(Drivers(sb)) : Add("OUT", <<l>>)
  BY DEF AddOutput
<1>2. l \in LinkSet(Drivers(sb))
  BY BoundsAssumption DEF Links, Link, LinkSet
<1>3. <<l>> \in Seq(LinkSet(Drivers(sb))) /\ 1 \in DOMAIN <<l>>
  BY <1>2
<1> DEFINE ls == <<l>>
<1> HIDE DEF ls
<1>4. "OUT" \in CellTypes /\ Arity("OUT", ls)
  BY <1>3 DEF CellTypes, Arity, ls
<1>5. ls \in Seq(LinkSet(Drivers(sb))) /\ Add("OUT", ls)
  BY <1>1, <1>3 DEF ls
<1> QED BY <1>4, <1>5, AddSound

\* addCell of a gate keeps the builder sound.
LEMMA AddGateSound ==
  ASSUME Sound(sb), ~LateInput, AddGate
  PROVE  Sound(sb') /\ made' = FALSE /\ calls' = calls
<1>1. PICK c \in AddCalls(sb) : Add(c.type, c.links)
  BY DEF AddGate
<1>2. PICK g \in Gates : c.type = g.type /\ c.links \in LinkLists(Drivers(sb), g.arity)
  BY DEF AddCalls
<1>3. IsGate(c.type, c.links, Drivers(sb))
  BY <1>2, GateCall
<1> QED BY <1>1, <1>3, AddSound DEF IsGate

\* The arguments of replaceCell are legal.
LEMMA ReplaceCellCall ==
  ASSUME Sound(sb), NEW c \in ReplaceCellCalls(sb)
  PROVE  /\ c.root \in Drivers(sb) /\ sb.entries[c.root].type # "IN"
         /\ MayReplace(sb, c.root, c.type, c.links, Before(sb, c.root))
<1>1. PICK p : Net(sb, p)
  BY DEF Sound
<1>2. PICK i \in {k \in Live(sb) : sb.entries[k].type \in Roots \ {"OUT"}}, g \in Gates :
        c.root = i /\ c.type = g.type /\ c.links \in LinkLists(Before(sb, i), g.arity)
  <2> DEFINE I == {k \in Live(sb) : sb.entries[k].type \in Roots \ {"OUT"}}
             Of(i, g) == [root : {i}, type : {g.type}, links : LinkLists(Before(sb, i), g.arity)]
  <2>1. c \in UNION {Of(i, g) : i \in I, g \in Gates}
    BY ONLY c \in ReplaceCellCalls(sb) DEF ReplaceCellCalls
  <2>2. \A i, g : c \in Of(i, g) => c.root = i /\ c.type = g.type /\ c.links \in LinkLists(Before(sb, i), g.arity)
    OBVIOUS
  <2> HIDE DEF I, Of
  <2>3. \E i \in I, g \in Gates : c \in Of(i, g)
    BY ONLY <2>1
  <2> QED BY ONLY <2>2, <2>3 DEF I
<1>3. i \in Drivers(sb) /\ sb.entries[i].type # "IN" /\ i \in Live(sb)
  BY <1>2, BoundsAssumption DEF Drivers
<1>4. AwayFrom(sb, i, Before(sb, i))
  BY <1>1, <1>3, BeforeAway
<1>5. IsGate(c.type, c.links, Before(sb, i))
  BY <1>2, GateCall
<1>6. MayReplace(sb, i, c.type, c.links, Before(sb, i))
  BY <1>3, <1>4, <1>5 DEF MayReplace, IsGate
<1> QED BY ONLY <1>2, <1>3, <1>6

\* replaceCell keeps the builder sound, with cells of any type, hit by the hash or not,
\* with and without the deletion of unused cells.
LEMMA ReplaceCellSound ==
  ASSUME Sound(sb), ReplaceCell
  PROVE  Sound(sb') /\ made' = made /\ calls' = calls + 1 /\ calls < MaxCalls
<1>1. PICK c \in ReplaceCellCalls(sb), del \in BOOLEAN : sb' = Quiet(replaceCell(sb, c.root, c.type, c.links, del))
  BY DEF ReplaceCell
<1>2. PICK p : Net(sb, p)
  BY DEF Sound
<1>3. MayReplace(sb, c.root, c.type, c.links, Before(sb, c.root))
  BY <1>1, ReplaceCellCall
<1>4. Replaced(replaceCell(sb, c.root, c.type, c.links, del), sb, p, c.root, c.type, c.links)
  BY <1>2, <1>3, ReplaceCellNet
<1>5. Sound(sb')
  BY <1>1, <1>4, QuietSound DEF Replaced, Sound
<1>6. made' = made /\ calls' = calls + 1 /\ calls < MaxCalls
  BY DEF ReplaceCell
<1> QED BY ONLY <1>5, <1>6

\* The arguments of replace are legal.
LEMMA ReplaceCall ==
  ASSUME Sound(sb), "OUT" \notin Roots, NEW c \in ReplaceCalls(sb)
  PROVE  /\ c.root \in Drivers(sb) /\ sb.entries[c.root].type # "IN"
         /\ LegalRhs(c.rhs) /\ LegalIns(sb, c.root, c.rhs, c.ins)
<1>1. PICK p : Net(sb, p)
  BY DEF Sound
<1>2. PICK i \in {k \in Live(sb) : sb.entries[k].type \in Roots}, r \in {x \in Rhss : Room(sb, Len(x.cells))} :
        /\ c.root = i /\ c.rhs = r
        /\ c.ins \in [1 .. r.nIn -> Before(sb, i)] \cup
             (IF r.nIn = 1 /\ r.cells = << >> /\ ~r.out.inv /\ sb.entries[i].type # "OUT" THEN {<<i>>} ELSE {})
  <2> DEFINE I == {k \in Live(sb) : sb.entries[k].type \in Roots}
             R == {x \in Rhss : Room(sb, Len(x.cells))}
             Ins(i, r) == [1 .. r.nIn -> Before(sb, i)] \cup
               (IF r.nIn = 1 /\ r.cells = << >> /\ ~r.out.inv /\ sb.entries[i].type # "OUT" THEN {<<i>>} ELSE {})
             Of(i, r) == [root : {i}, rhs : {r}, ins : Ins(i, r)]
  <2>1. c \in UNION {Of(i, r) : i \in I, r \in R}
    BY ONLY c \in ReplaceCalls(sb) DEF ReplaceCalls
  <2> HIDE DEF Ins
  <2>2. \A i, r : c \in Of(i, r) => c.root = i /\ c.rhs = r /\ c.ins \in Ins(i, r)
    OBVIOUS
  <2> HIDE DEF I, R, Of
  <2>3. \E i \in I, r \in R : c \in Of(i, r)
    BY ONLY <2>1
  <2>4. \E i \in I, r \in R : c.root = i /\ c.rhs = r /\ c.ins \in Ins(i, r)
    BY ONLY <2>2, <2>3
  <2> QED BY ONLY <2>4 DEF I, R, Ins
<1>3. i \in Drivers(sb) /\ sb.entries[i].type # "IN" /\ i \in Live(sb)
  BY <1>2, BoundsAssumption DEF Drivers
<1>4. AwayFrom(sb, i, Before(sb, i))
  BY <1>1, <1>3, BeforeAway
<1>5. LegalRhs(r)
  BY ArgumentsAssumption
<1>6. LegalIns(sb, i, r, c.ins)
  <2>1. CASE c.ins \in [1 .. r.nIn -> Before(sb, i)]
    BY <2>1, <1>4 DEF LegalIns
  <2>2. CASE c.ins \notin [1 .. r.nIn -> Before(sb, i)]
    <3>1. r.nIn = 1 /\ r.cells = << >> /\ ~r.out.inv /\ c.ins = <<i>>
      BY <2>2, <1>2
    <3> QED BY <3>1 DEF LegalIns
  <2> QED BY <2>1, <2>2
<1> QED BY ONLY <1>2, <1>3, <1>5, <1>6

\* replace keeps the builder sound, for every fragment and all legal inputs.
LEMMA ReplaceSoundly ==
  ASSUME Sound(sb), "OUT" \notin Roots, Replace
  PROVE  Sound(sb') /\ made' = made /\ calls' = calls + 1 /\ calls < MaxCalls
<1>1. PICK c \in ReplaceCalls(sb) : sb' = Quiet(replace(sb, c.rhs, c.ins, c.root))
  BY DEF Replace
<1>2. PICK p : Net(sb, p)
  BY DEF Sound
<1>3. /\ c.root \in Drivers(sb) /\ sb.entries[c.root].type # "IN"
      /\ LegalRhs(c.rhs) /\ LegalIns(sb, c.root, c.rhs, c.ins)
  BY <1>1, ReplaceCall
<1>4. Sound(replace(sb, c.rhs, c.ins, c.root))
  BY <1>2, <1>3, ReplaceNet
<1>5. Sound(sb')
  BY <1>1, <1>4, QuietSound
<1>6. made' = made /\ calls' = calls + 1 /\ calls < MaxCalls
  BY DEF Replace
<1> QED BY ONLY <1>5, <1>6

\* enableFanouts and disableFanouts keep the builder sound.
LEMMA FanoutsToggled ==
  ASSUME Sound(sb), EnableFanouts \/ DisableFanouts
  PROVE  Sound(sb') /\ made' = made /\ calls' = calls
<1>1. PICK p : Net(sb, p)
  BY DEF Sound
<1>2. CASE EnableFanouts
  BY <1>1, <1>2, EnableNet DEF EnableFanouts, Sound
<1>3. CASE DisableFanouts
  BY <1>1, <1>3, DisableNet DEF DisableFanouts, Sound
<1> QED BY <1>2, <1>3

\* make empties the hash and the fanouts, or changes nothing.
LEMMA MakeKeeps ==
  ASSUME NEW b, Kept(b), NEW deleteBufs
  PROVE  Kept(make(b, deleteBufs))
<1> DEFINE c == rearrangeEntries(b, deleteBufs)
           d == IF b.isDisassembled \/ deleteBufs THEN c ELSE b
           r == make(b, deleteBufs)
<1>1. IsRec(b) /\ KeysSound(b) /\ FanoutsSound(b)
  BY DEF Kept
<1>2. IsRec(c) /\ c.strash = << >> /\ c.fanoutsEnabled = FALSE
  BY <1>1 DEF rearrangeEntries, IsRec, EmptyBuilder
<1> HIDE DEF c
<1>3. KeysSound(c) /\ FanoutsSound(c)
  BY <1>2 DEF KeysSound, FanoutsSound
<1>4. IsRec(d) /\ KeysSound(d) /\ FanoutsSound(d)
  BY <1>1, <1>2, <1>3
<1>5. \E cond : r = Require(d, cond)
  <2>1. r = Require(d, checkInputsOrder(d) /\ checkOutputsOrder(d))
    BY DEF make, c
  <2> QED BY ONLY <2>1
<1> HIDE DEF d, r
<1>6. IsRec(r) /\ r.entries = d.entries /\ r.depth = d.depth /\ r.strash = d.strash /\ r.fanouts = d.fanouts
      /\ r.fanoutsEnabled = d.fanoutsEnabled
  BY <1>4, <1>5 DEF Require, IsRec, EmptyBuilder
<1>7. Live(r) = Live(d)
  BY <1>6 DEF Live
<1>8. KeysSound(r)
  BY <1>4, <1>6, <1>7 DEF KeysSound, CellKey
<1>9. FanoutsSound(r)
  <2>1. Wires(r) = Wires(d) /\ \A i : Users(r, i) = Users(d, i) /\ FanoutsOf(r, i) = FanoutsOf(d, i)
    BY <1>6, <1>7 DEF Wires, Users, WireTo, FanoutsOf
  <2> QED BY <2>1, <1>4, <1>6, <1>7 DEF FanoutsSound
<1> QED BY <1>6, <1>8, <1>9 DEF Kept, r

\* What make keeps is part of soundness.
LEMMA SoundKept ==
  ASSUME NEW b, Sound(b)
  PROVE  Kept(b)
BY SoundRec, NetKeys, NetFanouts DEF Sound, Kept

\* The seeds are sound.
LEMMA InitInv ==
  ASSUME Init
  PROVE  BuilderInv
<1>1. PICK s \in Seeds : sb = Build(s)
  BY DEF Init
<1>2. Sound(sb)
  BY <1>1, ArgumentsAssumption, BuildNet
<1>3. ~made /\ calls = 0
  BY ONLY Init DEF Init
<1>4. calls \in 0 .. MaxCalls
  BY ONLY <1>3, BoundsAssumption DEF BoundsAssumption
<1>5. made \in BOOLEAN
  BY ONLY Init DEF Init
<1> QED BY ONLY <1>2, <1>3, <1>4, <1>5 DEF BuilderInv

\* Every call keeps the inductive invariant.
LEMMA NextInv ==
  ASSUME ~LateInput, "OUT" \notin Roots, BuilderInv, [Next]_vars
  PROVE  BuilderInv'
<1> USE DEF BuilderInv
<1>1. CASE AddInput
  <2>1. ~made
    BY <1>1 DEF AddInput, Add
  <2> QED BY <1>1, <2>1, AddInputSound
<1>2. CASE AddOutput
  <2>1. ~made
    BY <1>2 DEF AddOutput, Add
  <2> QED BY <1>2, <2>1, AddOutputSound
<1>3. CASE AddGate
  <2>1. ~made
    BY <1>3 DEF AddGate, Add
  <2> QED BY <1>3, <2>1, AddGateSound
<1>4. CASE ReplaceCell
  <2>1. ~made
    BY <1>4 DEF ReplaceCell
  <2>2. Sound(sb') /\ made' = made /\ calls' = calls + 1 /\ calls < MaxCalls
    BY <1>4, <2>1, ReplaceCellSound
  <2>3. calls' \in 0 .. MaxCalls
    BY <2>2, BoundsAssumption
  <2> QED BY ONLY BuilderInv, <2>1, <2>2, <2>3 DEF BuilderInv
<1>5. CASE Replace
  <2>1. ~made
    BY <1>5 DEF Replace
  <2>2. Sound(sb') /\ made' = made /\ calls' = calls + 1 /\ calls < MaxCalls
    BY <1>5, <2>1, ReplaceSoundly
  <2>3. calls' \in 0 .. MaxCalls
    BY <2>2, BoundsAssumption
  <2> QED BY ONLY BuilderInv, <2>1, <2>2, <2>3 DEF BuilderInv
<1>6. CASE EnableFanouts \/ DisableFanouts
  <2>1. ~made
    BY <1>6 DEF EnableFanouts, DisableFanouts
  <2> QED BY <1>6, <2>1, FanoutsToggled
<1>7. CASE Make
  <2>1. Kept(sb)
    BY SoundKept
  <2>2. PICK deleteBufs \in BOOLEAN : sb' = make(sb, deleteBufs)
    BY <1>7 DEF Make
  <2>3. Kept(sb')
    BY <2>1, <2>2, MakeKeeps
  <2> QED BY <1>7, <2>3 DEF Make
<1>8. CASE UNCHANGED vars
  <2>1. Kept(sb') <=> Kept(sb)
    BY <1>8 DEF vars
  <2>2. Sound(sb') <=> Sound(sb)
    BY <1>8 DEF vars
  <2> QED BY <2>1, <2>2, <1>8 DEF vars
<1> QED BY <1>1, <1>2, <1>3, <1>4, <1>5, <1>6, <1>7, <1>8 DEF Next

\* The inductive invariant holds in every reachable state.  The hypotheses leave out
\* what the runs show to break it: cells added before the first input, and outputs as
\* roots of replace.
THEOREM BuilderInvariant ==
  ASSUME ~LateInput, "OUT" \notin Roots
  PROVE  Spec => []BuilderInv
<1>1. Init => BuilderInv
  BY InitInv
<1>2. BuilderInv /\ [Next]_vars => BuilderInv'
  BY NextInv
<1> QED BY <1>1, <1>2, PTL DEF Spec

\* Every key of the structural hash leads to a live cell with this key: addCell never
\* returns a cell with other inputs or a recycled slot.
THEOREM StrashAlwaysSound ==
  ASSUME ~LateInput, "OUT" \notin Roots
  PROVE  Spec => []StrashSound
<1>1. BuilderInv => StrashSound
  BY SoundKept DEF BuilderInv, Kept, StrashSound
<1> QED BY <1>1, BuilderInvariant, PTL

\* With fanouts enabled, getFanouts returns the users of every live cell, as often as
\* they link to it, whatever cells have been added, replaced, moved and deleted.
THEOREM FanoutsAlwaysExact ==
  ASSUME ~LateInput, "OUT" \notin Roots
  PROVE  Spec => []FanoutsExact
<1>1. BuilderInv => FanoutsExact
  BY SoundKept DEF BuilderInv, Kept, FanoutsExact
<1> QED BY <1>1, BuilderInvariant, PTL

\* Until a subnet is made, the depth bounds name the first and the last cell of every
\* depth, by which addCell and replaceCell place new cells.
THEOREM BoundsAlwaysExact ==
  ASSUME ~LateInput, "OUT" \notin Roots
  PROVE  Spec => []BoundsExact
<1>1. BuilderInv => BoundsExact
  BY NetLevels DEF BuilderInv, Sound, BoundsExact
<1> QED BY <1>1, BuilderInvariant, PTL

\* Until a subnet is made, the order visits every live cell once, inputs first, outputs
\* last and every cell after its inputs, however cells have been moved, deleted and put
\* into recycled slots.
THEOREM OrderTopological ==
  ASSUME ~LateInput, "OUT" \notin Roots
  PROVE  Spec => [](~made => Topological)
<1>1. BuilderInv => (~made => Topological)
  BY NetTopological DEF BuilderInv, Sound, Topological
<1> QED BY <1>1, BuilderInvariant, PTL

\* Until a subnet is made, the depth of every live cell is one more than the greatest
\* depth of its inputs, although a replacement changes depths far from its root.
THEOREM DepthsAlwaysExact ==
  ASSUME ~LateInput, "OUT" \notin Roots
  PROVE  Spec => [](~made => DepthExact)
<1>1. BuilderInv => (~made => DepthExact)
  BY NetDepths DEF BuilderInv, Sound, DepthExact
<1> QED BY <1>1, BuilderInvariant, PTL

\* Until a subnet is made, every reference counter is the number of links to its cell and
\* the free list holds the dead slots, each once: deleteCell frees a cell exactly when its
\* last user goes, and no slot is given out twice.
THEOREM CountersAlwaysExact ==
  ASSUME ~LateInput, "OUT" \notin Roots
  PROVE  Spec => [](~made => CountersExact)
<1>1. BuilderInv => (~made => CountersExact)
  BY NetCounters DEF BuilderInv, Sound, CountersExact
<1> QED BY <1>1, BuilderInvariant, PTL

\* Until a subnet is made, all arrays have the same slots and hold values of their types.
THEOREM TypeCorrect ==
  ASSUME ~LateInput, "OUT" \notin Roots
  PROVE  Spec => [](~made => TypeOK)
<1>1. BuilderInv => (~made => TypeOK)
  BY NetType DEF BuilderInv, Sound, TypeOK
<1> QED BY <1>1, BuilderInvariant, PTL

\* Until a subnet is made, no assert of subnet.cpp fails and no array is read out of its
\* range, in any sequence of legal calls.
THEOREM NoAssertFails ==
  ASSUME ~LateInput, "OUT" \notin Roots
  PROVE  Spec => [](~made => NoFault)
<1>1. BuilderInv => (~made => NoFault)
  BY DEF BuilderInv, Sound, Net, Core, NoFault
<1> QED BY <1>1, BuilderInvariant, PTL
=============================================================================
