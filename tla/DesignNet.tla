------------------------------ MODULE DesignNet ------------------------------
(***************************************************************************)
(* A design (gate/model/design.{h,cpp}) from the net it is built of to the *)
(* nets it is turned into.  The net is decomposed into components          *)
(* (NetDecomposer); every component becomes a subnet with a mapping        *)
(* between the pins of the net and the cells of the subnet.  The subnets   *)
(* are then optimized, saved and rolled back one by one, and the design is *)
(* composed into a net at any time, from the current subnets or from those *)
(* of a check point.  The mapping is never updated: after an optimization  *)
(* the composition finds the outputs by their distance from the end.       *)
(*                                                                         *)
(* An operator marked "Bug:" is a faulty variant of the operator after it. *)
(***************************************************************************)
EXTENDS NetDecomposer, SubnetNet

CONSTANTS
  Designs,   \* the nets, of Nets, whose designs are changed before they are composed
  NewCells,  \* flip-flops of the library: [type, inputs] for every flip-flop
  MaxEdits   \* bound on the number of optimizations

ASSUME DesignNetAssumption == Designs \subseteq Nets /\ MaxEdits \in Nat

VARIABLES
  result,    \* NetDecomposer::Result: the subnets with their mappings
  entries,   \* DesignBuilder::entries
  composed,  \* the last net composed
  replaced,  \* the flip-flops replaced (history)
  edits      \* number of optimizations (history)

vars == <<net, context, result, entries, composed, replaced, edits>>

-----------------------------------------------------------------------------
(* makeSubnet.  The inputs and the outputs come in the order of hash       *)
(* tables: order is 1 or -1, two of the orders.                            *)

Negatives == {"NOT", "NAND", "NOR", "XNOR"}

getNegSymbol(t) ==
  [NOT |-> "BUF", NAND |-> "AND", NOR |-> "OR", XNOR |-> "XOR"][t]

Sources(n) == n.inputs \o n.flipFlops

SourceRank(n, s) == SelectInSeq(Sources(n), LAMBDA x : x = s)

InputSeq(n, c, order) ==
  SetToSortSeq(DOMAIN c.inputs, LAMBDA x, y : order * SourceRank(n, x) < order * SourceRank(n, y))

OutputSeq(n, c, order) ==
  SetToSortSeq(DOMAIN c.outputs, LAMBDA x, y : order * OutputIndex(x) < order * OutputIndex(y))

\* A gate of the component: bm.m maps the cells of the net to links of the subnet.
\* Buffers and inverters are no cells of the subnet.
AddInner(n, bm, g) ==
  LET neg == n.type[g] \in Negatives
      t == IF neg THEN getNegSymbol(n.type[g]) ELSE n.type[g]
      ls == [j \in DOMAIN n.links[g] |-> bm.m[n.links[g][j]]]
      added == addCell(bm.b, t, ls)
  IN  IF t = "BUF" THEN [bm EXCEPT !.m = (g :> Link(ls[1].idx, ls[1].inv # neg)) @@ @]
      ELSE [b |-> added.b, m |-> (g :> Link(added.idx, neg)) @@ bm.m]

\* EntryDesc.  Inputs and outputs of the net are "not combinational" too.
EntryDesc(signal, cell) == [signal |-> signal, flipFlopID |-> cell]

\* The subnet with the mappings of its inputs and outputs, which are the entries
\* added from `first' on, and the descriptions of these entries.
SubnetDesc(c, ins, outs, first, subnet) ==
  [subnet |-> subnet,
   inputs |-> [s \in ToSet(ins) |-> SelectInSeq(ins, LAMBDA x : x = s) - 1],
   outputs |-> [o \in ToSet(outs) |-> first + SelectInSeq(outs, LAMBDA x : x = o) - 1],
   size |-> Size(subnet.entries),
   desc |-> [i \in 0 .. Len(ins) - 1 |-> EntryDesc(c.inputs[ins[i + 1]], ins[i + 1])]
              @@ [i \in first .. first + Len(outs) - 1 |->
                    EntryDesc(c.outputs[outs[i - first + 1]], outs[i - first + 1].target)]]

AddInners(n, c, ins) ==
  FoldLeft(LAMBDA bm, g : AddInner(n, bm, g),
           [b |-> Build([k \in DOMAIN ins |-> Cell("IN", << >>)]),
            m |-> [s \in ToSet(ins) |-> Link(SelectInSeq(ins, LAMBDA x : x = s) - 1, FALSE)]],
           c.inners)

AddOutputs(c, ins, outs, bm) ==
  SubnetDesc(c, ins, outs, Size(bm.b.entries),
             make(FoldLeft(LAMBDA b, o : addCell(b, "OUT", <<bm.m[o.source]>>).b, bm.b, outs), FALSE))

makeSubnet(n, c, order) ==
  AddOutputs(c, InputSeq(n, c, order), OutputSeq(n, c, order), AddInners(n, c, InputSeq(n, c, order)))

-----------------------------------------------------------------------------
(* The arcs between the entries (setAdjList).                              *)

\* Bug: the arcs go from the reader to the writer.
findArcs_Reversed(subnets, j) ==
  LET n == subnets[j].subnet.nIn
      written == {subnets[j].desc[k].flipFlopID : k \in {x \in DOMAIN subnets[j].desc : x >= n}}
      read(i) == {k \in 0 .. subnets[i].subnet.nIn - 1 : subnets[i].desc[k].flipFlopID \in written}
  IN  [i \in {x \in DOMAIN subnets : read(x) # {}} |-> subnets[i].desc[Max(read(i))].signal]

\* The arcs into entry j: the entries that write a flip-flop which j reads, with
\* the signal type of the last such output.
findArcs(subnets, j) ==
  LET read == {subnets[j].desc[k].flipFlopID : k \in 0 .. subnets[j].subnet.nIn - 1}
      written(i) == {k \in DOMAIN subnets[i].desc : k >= subnets[i].subnet.nIn
                                                   /\ subnets[i].desc[k].flipFlopID \in read}
  IN  [i \in {x \in DOMAIN subnets : written(x) # {}} |-> subnets[i].desc[Max(written(i))].signal]

\* getPIConnectionEntry and getPOConnectionEntry.
hasPIArc(n, x) == \E s \in DOMAIN x.inputs : n.type[s] = "IN"

hasPOArc(n, x) == \E o \in DOMAIN x.outputs : n.type[o.target] = "OUT"

\* setEntries and the constructor of SubnetEntry.
SubnetEntry(n, subnets, i) ==
  [subnet |-> subnets[i].subnet, builder |-> NoCell, point |-> NoCell,
   arcs |-> findArcs(subnets, i),
   connectedPI |-> hasPIArc(n, subnets[i]), connectedPO |-> hasPOArc(n, subnets[i])]

-----------------------------------------------------------------------------
(* Subnets and builders of an entry.                                       *)

\* SubnetBuilder(subnet): the cells are added in order; a cell that is there
\* already is added again.
FromSubnet(s) ==
  LET add(b, c) ==
        LET key == StrashKey(c.type, c.links)
        IN  addCell(IF StrashEnabled(c.type) /\ StrashFind(b, key) # InvalidID
                    THEN destrashEntry(b, StrashFind(b, key)) ELSE b, c.type, c.links).b
  IN  FoldLeft(add, EmptyBuilder, [k \in 1 .. Size(s.entries) |-> s.entries[k - 1]])

\* Bug: the builder stays.
getSubnetID_Both(e) == IF e.subnet # NoCell THEN e ELSE [e EXCEPT !.subnet = make(e.builder, TRUE)]

getSubnetID(e) ==
  IF e.subnet # NoCell THEN e
  ELSE [e EXCEPT !.subnet = make(e.builder, TRUE), !.builder = NoCell]

getSubnetBuilder(e) ==
  IF e.builder # NoCell THEN e
  ELSE [e EXCEPT !.subnet = NoCell, !.builder = FromSubnet(e.subnet)]

\* save keeps a subnet that has been saved under the same name.
save(e) == LET d == getSubnetID(e) IN [d EXCEPT !.point = IF @ = NoCell THEN d.subnet ELSE @]

rollback(e) == [e EXCEPT !.subnet = e.point, !.builder = NoCell]

-----------------------------------------------------------------------------
(* NetBuilder: the cells of the net under construction, in the order of    *)
(* their creation, and the boundary cells made for the old ones (inout).   *)

NetCell(t, ls) == [type |-> t, links |-> ls, fanout |-> 0]

NetIncRefCount(nb, c) == [nb EXCEPT !.cells[c].fanout = @ + 1]

\* Links that are not connected yet are skipped.
AddNetCell(nb, t, ls) ==
  FoldLeft(LAMBDA x, c : IF c = NoCell THEN x ELSE NetIncRefCount(x, c),
           [nb EXCEPT !.cells = Append(@, NetCell(t, ls))], ls)

\* Bug: the new link is not counted.
connect_Uncounted(nb, c, port, source) == [nb EXCEPT !.cells[c].links[port] = source]

\* connect: the port is not connected (the assert of setLink).
connect(nb, c, port, source) ==
  NetIncRefCount([nb EXCEPT !.cells[c].links[port] = source,
                         !.fault = @ \/ nb.cells[c].links[port] # NoCell], source)

-----------------------------------------------------------------------------
(* compose.                                                                *)

\* The type and the number of pins of an old boundary cell.
OldType(n, c) == IF c \in DOMAIN n.type THEN n.type[c] ELSE NewCells[c].type

OldFanin(n, c) == IF c \in DOMAIN n.type THEN Len(n.links[c]) ELSE Len(NewCells[c].inputs)

\* makeCell for a boundary cell: once for every old cell.
BoundaryCell(n, nb, c) ==
  IF c \in DOMAIN nb.inout THEN nb
  ELSE [AddNetCell(nb, OldType(n, c), [j \in 1 .. OldFanin(n, c) |-> NoCell])
          EXCEPT !.inout = (c :> Len(nb.cells) + 1) @@ @]

\* makeLinkEnd: an inverted link becomes an inverter; r is the builder with the
\* link ends made so far.
makeLinkEnd(r, l, inverse) ==
  LET source == inverse[l.idx]
  IN  IF ~l.inv THEN [r EXCEPT !.ends = Append(@, source)]
      ELSE [nb |-> AddNetCell(r.nb, "NOT", <<source>>), ends |-> Append(r.ends, Len(r.nb.cells) + 1)]

makeLinkList(nb, ls, inverse) ==
  FoldLeft(LAMBDA r, l : makeLinkEnd(r, l, inverse), [nb |-> nb, ends |-> << >>], ls)

\* The subnet's cells in order; p.inverse maps them to cells of the net.
InnerCell(s, p, i) ==
  LET r == makeLinkList(p.nb, s.entries[i].links, p.inverse)
  IN  [nb |-> AddNetCell(r.nb, s.entries[i].type, r.ends),
       inverse |-> (i :> Len(r.nb.cells) + 1) @@ p.inverse]

\* Outputs are at the end, as they were when the mapping was made.
OutputCell(n, x, nb, inverse, o) ==
  LET newIdx == x.outputs[o] + Size(x.subnet.entries) - x.size
      r == makeLinkList(nb, x.subnet.entries[newIdx].links, inverse)
      nb1 == BoundaryCell(n, r.nb, o.target)
  IN  connect([nb1 EXCEPT !.fault = @ \/ newIdx + x.subnet.nOut < Size(x.subnet.entries)],
              nb1.inout[o.target], o.port, r.ends[1])

\* Index k of a map, for the iterations over hash maps (in any order: only the
\* names of the new cells depend on it).
ByIndex(f) == SetToSortSeq(DOMAIN f, LAMBDA x, y : f[x] < f[y])

addSubnet(n, nb, x) ==
  LET s == x.subnet
      nb1 == FoldLeft(LAMBDA y, c : BoundaryCell(n, y, c),
                      [nb EXCEPT !.fault = @ \/ s.nIn # Cardinality(DOMAIN x.inputs)
                                             \/ s.nOut # Cardinality(DOMAIN x.outputs)], ByIndex(x.inputs))
      inputs == [i \in {x.inputs[c] : c \in DOMAIN x.inputs} |->
                   nb1.inout[CHOOSE c \in DOMAIN x.inputs : x.inputs[c] = i]]
      p == FoldLeft(LAMBDA y, i : InnerCell(s, y, i), [nb |-> nb1, inverse |-> inputs],
                    [k \in 1 .. Size(s.entries) - s.nIn - s.nOut |-> s.nIn + k - 1])
  IN  FoldLeft(LAMBDA y, o : OutputCell(n, x, y, p.inverse, o), p.nb, ByIndex(x.outputs))

compose(n, subnets) ==
  FoldLeft(LAMBDA nb, x : addSubnet(n, nb, x),
           FoldLeft(LAMBDA nb, c : BoundaryCell(n, nb, c),
                    [cells |-> << >>, inout |-> << >>, fault |-> FALSE], n.inputs \o n.outputs),
           subnets)

-----------------------------------------------------------------------------
(* Replacement of a flip-flop.                                             *)

\* Bug: the pins of the new cell are taken to be in the old order.
NewOutputKey_Pins(o, old, new) ==
  [o EXCEPT !.source = IF @ = old THEN new ELSE @, !.target = IF @ = old THEN new ELSE @]

NewOutputKey(o, old, new) ==
  [o EXCEPT !.source = IF @ = old THEN new ELSE @,
            !.target = IF @ = old THEN new ELSE @,
            !.port = IF o.target = old THEN NewCells[new].inputs[@] ELSE @]

\* The map f with the keys key[k] for k.
Rekey(f, key) ==
  [k \in {key[x] : x \in DOMAIN f} |-> f[CHOOSE x \in DOMAIN f : key[x] = k]]

ReplaceFlipFlop(x, old, new) ==
  [x EXCEPT !.inputs = Rekey(@, [c \in DOMAIN @ |-> IF c = old THEN new ELSE c]),
            !.outputs = Rekey(@, [o \in DOMAIN @ |-> NewOutputKey(o, old, new)])]

-----------------------------------------------------------------------------
(* The design.                                                             *)

Init ==
  /\ DecomposerInit
  /\ result = << >> /\ entries = << >>
  /\ composed = NoCell
  /\ replaced = {}
  /\ edits = 0

Extract ==
  /\ Traverse
  /\ UNCHANGED <<result, entries, composed, replaced, edits>>

\* initialize: the non-empty components become subnets and entries.
Initialize ==
  /\ ~Traversing /\ result = << >>
  /\ LET parts == SelectSeq(context.components, LAMBDA c : DOMAIN c.outputs # {})
     IN  \E order \in {1, -1} :
           result' = [i \in DOMAIN parts |-> makeSubnet(net, parts[i], order)]
  /\ entries' = [i \in DOMAIN result' |-> SubnetEntry(net, result', i)]
  /\ UNCHANGED <<net, context, composed, replaced, edits>>

\* An optimization of the i-th subnet, in its builder.
Optimized(i, e, b) ==
  /\ entries' = [entries EXCEPT ![i] = [e EXCEPT !.builder = [b EXCEPT !.log = << >>]]]
  /\ edits' = edits + 1
  /\ UNCHANGED <<net, context, result, composed, replaced>>

\* The cells of a builder with two inputs.
Binary(b) == {c \in Live(b) : Len(b.entries[c].links) = 2}

\* An exclusive-or is taken apart: the subnet grows.
TakeApart ==
  /\ edits < MaxEdits /\ net \in Designs
  /\ \E i \in DOMAIN entries : \E e \in {getSubnetBuilder(entries[i])} :
     \E c \in Binary(e.builder) : LET l == e.builder.entries[c].links IN
       /\ e.builder.entries[c].type = "XOR"
       /\ \E p \in {addCell(e.builder, "AND", <<l[1], Link(l[2].idx, ~l[2].inv)>>)} :
          \E q \in {addCell(p.b, "AND", <<Link(l[1].idx, ~l[1].inv), l[2]>>)} :
            Optimized(i, e, replaceCell(q.b, c, "OR", <<Link(p.idx, FALSE), Link(q.idx, FALSE)>>, TRUE))

\* A gate with equal inputs becomes a buffer: the subnet made will be smaller.
Simplify ==
  /\ edits < MaxEdits /\ net \in Designs
  /\ \E i \in DOMAIN entries : \E e \in {getSubnetBuilder(entries[i])} :
     \E c \in Binary(e.builder) : LET l == e.builder.entries[c].links IN
       /\ e.builder.entries[c].type \in {"AND", "OR"}
       /\ l[1] = l[2]
       /\ Optimized(i, e, replaceCell(e.builder, c, "BUF", <<l[1]>>, TRUE))

SavePoint ==
  /\ entries # << >> /\ net \in Designs
  /\ entries' = [i \in DOMAIN entries |-> save(entries[i])]
  /\ UNCHANGED <<net, context, result, composed, replaced, edits>>

HasPoint == entries # << >> /\ \A i \in DOMAIN entries : entries[i].point # NoCell

Rollback ==
  /\ HasPoint
  /\ entries' = [i \in DOMAIN entries |-> rollback(entries[i])]
  /\ UNCHANGED <<net, context, result, composed, replaced, edits>>

\* replaceCell: a flip-flop becomes a cell of the library.
ReplaceCell ==
  /\ entries # << >> /\ net \in Designs
  /\ \E new \in DOMAIN NewCells : LET old == NewCells[new].old IN
       /\ old \in ToSet(net.flipFlops) \ replaced
       /\ result' = [i \in DOMAIN result |-> ReplaceFlipFlop(result[i], old, new)]
       /\ replaced' = replaced \cup {old}
  /\ UNCHANGED <<net, context, entries, composed, edits>>

\* updateSubnets and compose.
Compose(subnets) ==
  /\ result' = [i \in DOMAIN result |-> [result[i] EXCEPT !.subnet = subnets[i]]]
  /\ composed' = compose(net, result') @@ [replaced |-> replaced]

\* make.
Make ==
  /\ entries # << >>
  /\ entries' = [i \in DOMAIN entries |-> getSubnetID(entries[i])]
  /\ Compose([i \in DOMAIN entries |-> entries'[i].subnet])
  /\ UNCHANGED <<net, context, replaced, edits>>

\* make(point): the entries stay as they are.
MakePoint ==
  /\ HasPoint
  /\ Compose([i \in DOMAIN entries |-> entries[i].point])
  /\ UNCHANGED <<net, context, entries, replaced, edits>>

Next ==
  \/ Extract \/ Initialize \/ TakeApart \/ Simplify
  \/ SavePoint \/ Rollback \/ ReplaceCell \/ Make \/ MakePoint

\* The traversal is a loop in one thread that does not stop.
Spec == Init /\ [][Next]_vars /\ WF_vars(Extract)

-----------------------------------------------------------------------------
(* Properties.                                                             *)

\* Every link of a component is to one of its cells or inputs, the subnets are
\* builders that are well formed, and an entry has a subnet or a builder.
TypeOK ==
  /\ net \in Nets
  /\ Len(entries) = Len(result)
  /\ \A i \in DOMAIN entries :
       /\ (entries[i].subnet = NoCell) # (entries[i].builder = NoCell)
       /\ entries[i].subnet # NoCell => IsBuilder(entries[i].subnet)
       /\ entries[i].builder # NoCell => IsBuilder(entries[i].builder)
       /\ entries[i].point # NoCell => IsBuilder(entries[i].point)
  /\ replaced \subseteq ToSet(net.flipFlops)
  /\ edits \in 0 .. MaxEdits

NetGateValue(t, vs) ==
  IF t \in Negatives THEN LinkValue(GateValue(getNegSymbol(t), vs), TRUE) ELSE GateValue(t, vs)

\* The value of a cell of a net as a function of its inputs and flip-flops.
RECURSIVE NetValue(_, _)
NetValue(n, c) ==
  IF isInputLink(n, c) THEN {a \in Assignments : SourceRank(n, c) \in a}
  ELSE NetGateValue(n.type[c], [j \in DOMAIN n.links[c] |-> NetValue(n, n.links[c][j])])

\* The old cell for which the net has been given the cell c.
OldCell(nb, c) ==
  LET k == CHOOSE x \in DOMAIN nb.inout : nb.inout[x] = c
  IN  IF k \in DOMAIN NewCells THEN NewCells[k].old ELSE k

RECURSIVE ComposedValue(_, _)
ComposedValue(nb, c) ==
  IF c \in {nb.inout[x] : x \in DOMAIN nb.inout}
  THEN {a \in Assignments : SourceRank(net, OldCell(nb, c)) \in a}
  ELSE NetGateValue(nb.cells[c].type, [j \in DOMAIN nb.cells[c].links |->
                                         ComposedValue(nb, nb.cells[c].links[j])])

\* The cell that stands for the flip-flop f when the net has been composed.
FlipFlopCell(nb, f) ==
  IF f \notin nb.replaced THEN f ELSE CHOOSE c \in DOMAIN NewCells : NewCells[c].old = f

NewPin(f, c, j) == IF f = c THEN j ELSE NewCells[c].inputs[j]

\* The composed net computes what the original one does: every output, and every
\* pin of every flip-flop, is the same function of the inputs and the flip-flops,
\* whatever has become of the sizes of the subnets, whichever check point the net
\* is made from, and whichever flip-flops have been replaced.
ComposeSound ==
  composed # NoCell =>
    /\ ~composed.fault
    /\ \A o \in ToSet(net.outputs) :
         ComposedValue(composed, composed.cells[composed.inout[o]].links[1]) = NetValue(net, net.links[o][1])
    /\ \A f \in ToSet(net.flipFlops) : LET c == FlipFlopCell(composed, f) IN
         /\ composed.cells[composed.inout[c]].type = OldType(net, c)
         /\ \A j \in DOMAIN net.links[f] :
              ComposedValue(composed, composed.cells[composed.inout[c]].links[NewPin(f, c, j)])
                = NetValue(net, net.links[f][j])

\* The fanout counters of the composed net count the links to its cells, although
\* boundary cells are made before they are connected.
NetFanoutsExact ==
  composed # NoCell =>
    \A c \in DOMAIN composed.cells :
      composed.cells[c].fanout =
        Cardinality({p \in UNION {{<<d, j>> : j \in DOMAIN composed.cells[d].links} : d \in DOMAIN composed.cells} :
                       composed.cells[p[1]].links[p[2]] = c})

\* An entry has an arc from another if and only if a flip-flop leads from one to
\* the other in the net, and the signal type is that of a pin of such a flip-flop.
ArcsExact ==
  \A i, j \in DOMAIN entries :
    LET pins == {o \in DOMAIN result[j].outputs : o.target \in DOMAIN result[i].inputs}
    IN  replaced = {} =>
          /\ (j \in DOMAIN entries[i].arcs) = (pins # {})
          /\ j \in DOMAIN entries[i].arcs =>
               \E o \in pins : getSignalType(net, o.target, o.port) = entries[i].arcs[j]

\* The decomposition ends.
ExtractionEnds == <>~Traversing
=============================================================================
