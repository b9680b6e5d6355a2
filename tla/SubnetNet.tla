------------------------------ MODULE SubnetNet ------------------------------
(***************************************************************************)
(* What a SubnetBuilder record means: the network it stores, the function  *)
(* the network computes, and when the redundant parts of the record agree. *)
(***************************************************************************)
EXTENDS SubnetBuilder

CONSTANT MaxIn  \* bound on the number of inputs

Live(b) == {i \in DOMAIN b.entries : b.depth[i] # InvalidDepth}

Drivers(b) == {i \in Live(b) : b.entries[i].type # "OUT"}

\* The transitive fanin cone of a cell, with the cell.
Cone(b, i) ==
  LET cone[k \in Live(b)] ==
        {k} \cup UNION {cone[b.entries[k].links[j].idx] : j \in DOMAIN b.entries[k].links}
  IN  cone[i]

\* The cells that may become inputs of cell i.
Before(b, i) == {k \in Drivers(b) : i \notin Cone(b, k)}

\* The builders to which the cells have been added one by one.
Built(cells) ==
  LET built[k \in 0 .. Len(cells)] ==
        IF k = 0 THEN EmptyBuilder ELSE addCell(built[k - 1], cells[k].type, cells[k].links).b
  IN  built

Build(cells) == Built(cells)[Len(cells)]

CellTypes == {"IN", "OUT", "ZERO", "ONE", "BUF", "AND", "OR", "XOR", "MAJ"}

LinkSet(D) == [idx : D, inv : BOOLEAN]

\* Inputs have no links, besides them only constants may have none, and buffers and
\* outputs have one.
Arity(t, ls) ==
  /\ t = "IN" => DOMAIN ls = {}
  /\ DOMAIN ls = {} => t \in {"IN", "ZERO", "ONE"}
  /\ t \in {"BUF", "OUT"} => DOMAIN ls = {1}

\* A gate of type t with the links ls to the cells of D.
IsGate(t, ls, D) == t \in CellTypes \ {"IN", "OUT"} /\ Arity(t, ls) /\ ls \in Seq(LinkSet(D))

\* The cells can be added one by one: an input first, and links to earlier cells
\* other than outputs.
LegalSeed(cells) ==
  /\ Len(cells) \in Nat
  /\ \A k \in 1 .. Len(cells) :
       /\ cells[k].type \in CellTypes /\ Arity(cells[k].type, cells[k].links)
       /\ cells[k].links \in Seq(LinkSet(Drivers(Built(cells)[k - 1])))
       /\ k = 1 => cells[k].type = "IN"

-----------------------------------------------------------------------------
(* What the network computes.  A value is the set of the input assignments *)
(* on which a cell is true.                                                *)

Assignments == SUBSET (1 .. MaxIn)

LinkValue(v, inv) == {a \in Assignments : (a \in v) # inv}

GateValue(t, vs) ==
  CASE t = "ZERO" -> {}
    [] t = "ONE" -> Assignments
    [] t \in {"BUF", "OUT"} -> vs[1]
    [] t = "AND" -> {a \in Assignments : \A j \in DOMAIN vs : a \in vs[j]}
    [] t = "OR" -> {a \in Assignments : \E j \in DOMAIN vs : a \in vs[j]}
    [] t = "XOR" -> {a \in Assignments : Cardinality({j \in DOMAIN vs : a \in vs[j]}) % 2 = 1}
    [] t = "XNOR" -> {a \in Assignments : Cardinality({j \in DOMAIN vs : a \in vs[j]}) % 2 = 0}
    [] t = "MAJ" -> {a \in Assignments : Cardinality({j \in DOMAIN vs : a \in vs[j]}) * 2 > Len(vs)}

\* The number of an input among the inputs, or of an output among the outputs, in the
\* order: the order of their creation.
Rank(b, i) ==
  LET order == Order(b)
  IN  Cardinality({n \in DOMAIN order : /\ b.entries[order[n]].type = b.entries[i].type
                                       /\ \E m \in DOMAIN order : n <= m /\ order[m] = i})

\* The value of cell i if cell `at' had the value v (no cell: at = InvalidID).
ValueWith(b, i, at, v) ==
  LET gate(c, vs) == GateValue(c.type, [j \in DOMAIN c.links |-> LinkValue(vs[j], c.links[j].inv)])
      value[k \in DOMAIN b.entries] ==
        CASE k = at -> v
          [] k # at /\ k \notin Live(b) -> {}
          [] k # at /\ k \in Live(b) /\ b.entries[k].type = "IN" -> {a \in Assignments : Rank(b, k) \in a}
          [] OTHER -> gate(b.entries[k], [j \in DOMAIN b.entries[k].links |->
                                            value[b.entries[k].links[j].idx]])
  IN  value[i]

Value(b, i) == ValueWith(b, i, InvalidID, {})

LinkValues(b, ls) == [j \in DOMAIN ls |-> LinkValue(Value(b, ls[j].idx), ls[j].inv)]

\* The values of the outputs with their numbers.
OutputsWith(b, at, v) ==
  {<<Rank(b, i), ValueWith(b, i, at, v)>> : i \in {k \in Live(b) : b.entries[k].type = "OUT"}}

Outputs(b) == OutputsWith(b, InvalidID, {})

-----------------------------------------------------------------------------
(* Agreement of the parts of a builder.                                    *)

IsArray(f, n, S) == DOMAIN f = 0 .. n - 1 /\ \A i \in DOMAIN f : f[i] \in S

IsBuilder(b) ==
  LET n == Size(b.entries)
      ids == 0 .. n - 1
      links == [idx : ids, inv : BOOLEAN]
  IN  /\ DOMAIN b.entries = ids
      /\ \A i \in ids : /\ b.entries[i].type \in CellTypes
                        /\ \A j \in DOMAIN b.entries[i].links : b.entries[i].links[j] \in links
                        /\ b.entries[i].refcount \in Nat
      /\ IsArray(b.prev, n, ids \cup {NormalOrderID, LowerBoundID})
      /\ IsArray(b.next, n, ids \cup {NormalOrderID, UpperBoundID})
      /\ IsArray(b.depth, n, Nat \cup {InvalidDepth})

\* The order visits every live cell once, inputs first, outputs last, and every
\* cell after the cells it links to.
OrderSound(b) ==
  LET order == Order(b)
      rank(i) == CASE b.entries[i].type = "IN" -> 0
                   [] b.entries[i].type = "OUT" -> 2
                   [] OTHER -> 1
  IN  /\ ToSet(order) = Live(b)
      /\ Len(order) = Cardinality(Live(b))
      /\ \A n \in DOMAIN order :
           /\ \A m \in 1 .. n - 1 : rank(order[m]) <= rank(order[n])
           /\ \A j \in DOMAIN b.entries[order[n]].links :
                \E m \in 1 .. n - 1 : order[m] = b.entries[order[n]].links[j].idx

\* The positions in the order at which there are cells of depth d other than outputs.
Level(b, order, d) == {n \in DOMAIN order : b.entries[order[n]].type # "OUT" /\ b.depth[order[n]] = d}

\* The levels follow each other, and the bounds are their first and last cells.
LevelsSound(b) ==
  LET order == Order(b)
  IN  /\ \A m, n \in DOMAIN order :
           m < n /\ b.entries[order[m]].type # "OUT" /\ b.entries[order[n]].type # "OUT"
             => b.depth[order[m]] <= b.depth[order[n]]
      /\ \A d \in DOMAIN b.depthBounds :
           LET level == Level(b, order, d)
           IN  b.depthBounds[d] = IF level = {} THEN NoBounds
                                  ELSE <<order[Min(level)], order[Max(level)]>>

DepthsSound(b) == \A i \in Live(b) : b.depth[i] = DepthOver(b, b.entries[i].links)

\* The links of the network, each as its cell and its number, and where they lead.
Wires(b) == UNION {{<<i, j>> : j \in DOMAIN b.entries[i].links} : i \in Live(b)}

WireTo(b, w) == b.entries[w[1]].links[w[2]].idx

\* The bag of the cells that link to cell i.
Users(b, i) ==
  [k \in {w[1] : w \in {v \in Wires(b) : WireTo(b, v) = i}} |-> NumLinks(b.entries[k].links, i)]

CountersSound(b) ==
  LET live == Live(b)
      number(t) == Cardinality({i \in live : b.entries[i].type = t})
  IN  /\ \A i \in live : b.entries[i].refcount = Cardinality({w \in Wires(b) : WireTo(b, w) = i})
      /\ ToSet(b.empty) = DOMAIN b.entries \ live
      /\ Len(b.empty) = Cardinality(ToSet(b.empty))
      /\ b.nCell = Cardinality(live) /\ b.nBuf = number("BUF")
      /\ b.nIn = number("IN") /\ b.nOut = number("OUT")

FanoutsOf(b, i) == IF i \in DOMAIN b.fanouts THEN b.fanouts[i] ELSE << >>

FanoutsSound(b) ==
  b.fanoutsEnabled => \A i \in Live(b) : ToBag(FanoutsOf(b, i)) = Users(b, i)

KeysSound(b) ==
  \A key \in DOMAIN b.strash : b.strash[key] \in Live(b) /\ CellKey(b, b.strash[key]) = key

\* The subnet made of b computes the outputs of b and has no holes.
MakeIsSound(b) ==
  \A deleteBufs \in BOOLEAN :
    LET s == make(b, deleteBufs)
    IN  /\ Outputs(s) = Outputs(b)
        /\ Size(s.entries) = s.nCell
        /\ deleteBufs => s.nBuf = 0
=============================================================================
