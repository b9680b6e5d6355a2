---------------------------- MODULE SubnetReplace ----------------------------
(***************************************************************************)
(* SubnetBuilder::replace and evaluateReplace: the replacement of a        *)
(* single-output fragment of a builder (lhs) by a subnet (rhs), and the    *)
(* prediction of its effect on the number of cells that the optimizers     *)
(* base their decisions on.                                                *)
(*                                                                         *)
(* An rhs is a record: nIn inputs (entries 0 .. nIn-1), inner cells (the   *)
(* next entries, in order) and the link of its output.                     *)
(***************************************************************************)
EXTENDS SubnetNet

Rhs(n, cells, out) == [nIn |-> n, cells |-> cells, out |-> out]

\* The entry of the rhs output.
RhsOutID(rhs) == rhs.nIn + Len(rhs.cells)

\* An rhs has inputs, gates over the entries before them, and an output that is
\* an input or the last gate (no gate hangs in the air).
LegalRhs(rhs) ==
  /\ rhs.nIn \in Nat /\ rhs.nIn > 0 /\ Len(rhs.cells) \in Nat
  /\ \A k \in 1 .. Len(rhs.cells) : IsGate(rhs.cells[k].type, rhs.cells[k].links, 0 .. rhs.nIn + k - 2)
  /\ rhs.out.idx \in 0 .. rhs.nIn - 1 \cup {rhs.nIn + Len(rhs.cells) - 1} /\ rhs.out.inv \in BOOLEAN

\* fillMapping: rhs inputs and the rhs output are mapped to lhs entries.
fillMapping(rhs, ins, root) ==
  [k \in 0 .. rhs.nIn - 1 \cup {RhsOutID(rhs)} |-> IF k = RhsOutID(rhs) THEN root ELSE ins[k + 1]]

\* Bug: the inversions of the rhs are lost.
MapLinks_Plain(m, ls) == [j \in DOMAIN ls |-> Link(m[ls[j].idx], FALSE)]

MapLinks(m, ls) == [j \in DOMAIN ls |-> Link(m[ls[j].idx], ls[j].inv)]

\* The rhs cells in order; the output cell too if the root is an output.
RhsSeq(rhs, rootIsOut) ==
  IF rootIsOut THEN Append(rhs.cells, Cell("OUT", <<rhs.out>>)) ELSE rhs.cells

\* The callback on the lhs cell of an rhs cell.  A cell that has been found is
\* reported only if its depth is at least the old depth of the root.
CellDone(b, i, isNew, oldDepth) ==
  CASE isNew -> Callback(b, "NewCell", i)
    [] ~isNew /\ b.depth[i] = oldDepth -> Callback(b, "EqualDepth", i)
    [] ~isNew /\ b.depth[i] > oldDepth -> Callback(b, "GreaterDepth", i)
    [] OTHER -> b

\* The mapping with one more rhs entry.
MapTo(m, rhsID, i) == [k \in DOMAIN m \cup {rhsID} |-> IF k = rhsID THEN i ELSE m[k]]

\* An rhs cell that does not become the root; added is the result of addCell.
CellAdded(s, rhsID, added, hit, oldDepth) ==
  [b |-> CellDone(added.b, added.idx, added.b.nCell > s.b.nCell, oldDepth),
   m |-> MapTo(s.m, rhsID, added.idx), found |-> s.found \/ hit]

\* One rhs cell: s is the builder, the mapping and whether the root's new key
\* has been found in the structural hash.
ReplaceStep(s, rhsID, cell, root, rhsOut, rootIsOut, oldDepth) ==
  LET ls == MapLinks(s.m, cell.links)
      isRoot == rhsOut.idx = rhsID /\ ~rhsOut.inv
      found == ~rootIsOut /\ StrashFind(s.b, StrashKey(cell.type, ls)) # InvalidID
  IN  IF isRoot /\ ~found
      THEN [s EXCEPT !.b = CellDone(replaceCell(s.b, root, cell.type, ls, TRUE), root, FALSE, oldDepth),
                     !.m = MapTo(@, rhsID, root)]
      ELSE CellAdded(s, rhsID, addCell(s.b, cell.type, ls), isRoot, oldDepth)

\* An extra buffer, unless the root is the rhs output.
AddBuffer(s, rhs, root, rhsOut, trivial) ==
  IF (rhsOut.idx < rhs.nIn /\ ~trivial) \/ rhsOut.inv \/ s.found
  THEN replaceCell(s.b, root, "BUF", <<Link(s.m[rhsOut.idx], rhsOut.inv)>>, TRUE)
  ELSE s.b

replace(b, rhs, ins, root) ==
  LET rootIsOut == b.entries[root].type = "OUT"
      rhsOut == IF rootIsOut THEN Link(RhsOutID(rhs), FALSE) ELSE rhs.out
      trivial == ins[1] = root
      seq == RhsSeq(rhs, rootIsOut)
      step[k \in 0 .. Len(seq)] ==
        IF k = 0 THEN [b |-> IF trivial THEN b ELSE destrashEntry(b, root),
                       m |-> fillMapping(rhs, ins, root), found |-> FALSE]
        ELSE ReplaceStep(step[k - 1], rhs.nIn + k - 1, seq[k], root, rhsOut, rootIsOut, b.depth[root])
  IN  AddBuffer(step[Len(seq)], rhs, root, rhsOut, trivial)

-----------------------------------------------------------------------------
(* The predicted effect: e.n is the number of cells, e.m the rhs-to-lhs    *)
(* mapping, e.ref the reference counters that differ from the builder's,   *)
(* e.reused the lhs cells in use.                                          *)

NewRefcount(b, e, i) == IF i \in DOMAIN e.ref THEN e.ref[i] ELSE b.entries[i].refcount

AddRef(b, e, i, d) ==
  [e EXCEPT !.ref = [k \in DOMAIN @ \cup {i} |-> IF k = i THEN NewRefcount(b, e, i) + d ELSE @[k]]]

\* Bug: the references of new cells to old ones are not counted.
incOldLinksRefcnt_None(b, e, ls) == e

incOldLinksRefcnt(b, e, ls) ==
  FoldLeft(LAMBDA x, l : IF l.idx \in DOMAIN x.m THEN AddRef(b, x, x.m[l.idx], 1) ELSE x, e, ls)

\* One inner rhs cell: reused if all of its links are known and it is strashed.
EvalNewCell(b, e, rhsID, cell) ==
  LET known == \A j \in DOMAIN cell.links : cell.links[j].idx \in DOMAIN e.m
      old == IF known THEN StrashFind(b, StrashKey(cell.type, MapLinks(e.m, cell.links)))
             ELSE InvalidID
  IN  IF old # InvalidID
      THEN [e EXCEPT !.m = [k \in DOMAIN @ \cup {rhsID} |-> IF k = rhsID THEN old ELSE @[k]],
                     !.reused = @ \cup {old}]
      ELSE [incOldLinksRefcnt(b, e, cell.links) EXCEPT !.n = @ + 1]

\* The output cell of the rhs, when the root is an output.  The mapping is read
\* with operator[], which maps an unknown rhs cell to entry 0.
EvalOut(b, e, rhs, root) ==
  LET l == b.entries[root].links[1]
      e1 == IF rhs.out.idx \in DOMAIN e.m THEN e ELSE [e EXCEPT !.m = @ @@ (rhs.out.idx :> 0)]
  IN  IF e1.m[rhs.out.idx] = l.idx /\ rhs.out.inv = l.inv
      THEN [e1 EXCEPT !.reused = @ \cup {root}]
      ELSE [incOldLinksRefcnt(b, e1, <<rhs.out>>) EXCEPT !.n = @ + 1]

newEntriesEval(b, rhs, ins, root) ==
  LET e0 == [n |-> 0, m |-> fillMapping(rhs, ins, root), ref |-> << >>,
             reused |-> {ins[k] : k \in 1 .. rhs.nIn}]
      e == FoldLeft(LAMBDA x, k : EvalNewCell(b, x, rhs.nIn + k - 1, rhs.cells[k]), e0,
                    [k \in DOMAIN rhs.cells |-> k])
  IN  IF b.entries[root].type = "OUT" THEN EvalOut(b, e, rhs, root) ELSE e

\* The cells that die with the root, breadth first.
DropRef(b, eq, l) ==
  LET x == AddRef(b, eq[1], l.idx, -1)
  IN  IF x.ref[l.idx] = 0 /\ b.entries[l.idx].type # "IN"
      THEN <<[x EXCEPT !.n = @ + 1], Append(eq[2], l.idx)>>
      ELSE <<x, eq[2]>>

\* eq is the evaluation with the queue; no cell is queued twice.
deletedEval(b, e, queue) ==
  LET step(eq) == IF eq[2] = << >> THEN eq
                  ELSE FoldLeft(LAMBDA x, l : DropRef(b, x, l), <<eq[1], Tail(eq[2])>>,
                                b.entries[Head(eq[2])].links)
      del[k \in 0 .. Size(b.entries)] == IF k = 0 THEN <<e, queue>> ELSE step(del[k - 1])
  IN  del[Size(b.entries)][1].n

deletedEntriesEval(b, root, e) ==
  IF root \in e.reused THEN 0 ELSE deletedEval(b, [e EXCEPT !.n = 1], <<root>>)

\* Effect::size, "old-size - new-size".
evaluateReplace(b, rhs, ins, root) ==
  LET e == newEntriesEval(b, rhs, ins, root)
  IN  deletedEntriesEval(b, root, e) - e.n

-----------------------------------------------------------------------------
(* What an rhs computes when its inputs have the given values.             *)

RhsValue(rhs, vs, i) ==
  LET cell(k) == rhs.cells[k - rhs.nIn + 1]
      value[k \in 0 .. RhsOutID(rhs) - 1] ==
        IF k < rhs.nIn THEN vs[k + 1]
        ELSE GateValue(cell(k).type, [j \in DOMAIN cell(k).links |->
               LinkValue(value[cell(k).links[j].idx], cell(k).links[j].inv)])
  IN  value[i]

RhsOutValue(rhs, vs) == LinkValue(RhsValue(rhs, vs, rhs.out.idx), rhs.out.inv)
=============================================================================
