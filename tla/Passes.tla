------------------------------- MODULE Passes -------------------------------
(***************************************************************************)
(* The optimization passes that walk over a builder while they replace     *)
(* fragments of it: rewriting (optimizer/rewriter.cpp: rw, rwz) and        *)
(* refactoring (optimizer/refactorer.cpp: rf, rfz), both with the iterator *)
(* of optimizer/safe_passer.{h,cpp}.                                       *)
(*                                                                         *)
(* The iterator stands on a cell of the order that the replacement is      *)
(* changing under its feet: the root moves to another depth, its fanouts   *)
(* move, cells die and their slots are used again.  The rewriter moreover  *)
(* keeps the cuts of all cells it has come by.                             *)
(*                                                                         *)
(* The resynthesizer is any procedure that returns, for the function of a  *)
(* cut, some equivalent subnet of Rhss, or none.                           *)
(***************************************************************************)
EXTENDS CutExtractor

CONSTANTS
  Kinds,   \* passes to be run, a subset of {"rw", "rwz", "rf", "rfz"}
  Nets,    \* initial networks: sequences of cells to be added
  Rhss     \* what the resynthesizer may return

ASSUME PassesAssumption ==
  /\ CutSize \in Nat \ {0}
  /\ Kinds \subseteq {"rw", "rwz", "rf", "rfz"}

VARIABLES
  sb,       \* the builder
  kind,     \* the pass
  pc,       \* "node": a cell is to be processed, "step": ++iter, "done"
  it,       \* the SafePasser
  cuts,     \* CutExtractor::entriesCuts
  spec,     \* what the outputs have to be (history)
  old,      \* the cells the pass began with, none of which is an output (history)
  visited   \* the cells processed (history)

vars == <<sb, kind, pc, it, cuts, spec, old, visited>>

-----------------------------------------------------------------------------
(* SafePasser.  Passes only move forward.                                  *)

Bound(i) == i \in {UpperBoundID, LowerBoundID, InvalidID}

\* callOnEachCell: the rewriter computes the cuts of every cell it comes by.
callOnEachCell(cs, k, b, i) ==
  IF k \in {"rw", "rwz"} /\ ~Bound(i) THEN recomputeCuts(cs, i, b.entries[i].links) ELSE cs

\* Bug: the iterator takes what comes next.
PassedOver_None(b, p, i) == <<i>>

\* The cells that the iterator passes over on its way from i to the next safe one.
RECURSIVE PassedOver(_, _, _)
PassedOver(b, p, i) ==
  IF i # UpperBoundID /\ i \in p.isNew \cup p.isPassed
  THEN <<i>> \o PassedOver(b, p, getNext(b, i))
  ELSE <<i>>

\* Where ++iter starts to look.
StepFrom(b, p) == IF p.saveNext # InvalidID THEN p.saveNext ELSE getNext(b, p.entry)

\* recomputeNext: the cell after the root before the replacement, or the first
\* one of the next depth if the root was the last of its depth and has moved up.
\* Before the first ++iter there is no direction.
recomputeNext(b, p, next, oldDepth, rootLast) ==
  IF p.forward /\ oldDepth < b.depth[p.entry] /\ rootLast
  THEN b.depthBounds[oldDepth + 1][1]
  ELSE next

-----------------------------------------------------------------------------
(* What the callbacks of replace do.                                       *)

\* addNewCell.
NewCells(log) == {log[k].id : k \in {n \in DOMAIN log : log[n].on = "NewCell"}}

\* Bug: cells that move behind the iterator keep their cuts.
cutRecomputeDepthCond_Never(e, oldDepth) == FALSE

\* A cell that has moved is recomputed only if the iterator will not come by.
cutRecomputeDepthCond(e, oldDepth) == e.depth <= oldDepth

\* cutRecompute and cutRecomputeDepthCond, in the order of the calls.
CutsAfter(cs, k, log, oldDepth) ==
  IF k \in {"rf", "rfz"} THEN cs
  ELSE FoldLeft(LAMBDA c, e : IF e.on = "RecomputedDepth" /\ ~cutRecomputeDepthCond(e, oldDepth)
                              THEN c ELSE recomputeCuts(c, e.id, e.links), cs, log)

-----------------------------------------------------------------------------
(* The pass.                                                               *)

Init ==
  \E net \in Nets, k \in Kinds :
    \E b \in {Build(net)} :
      /\ sb = b
      /\ kind = k
      /\ pc = "node"
      /\ it = [entry |-> getSubnetBegin(b), saveNext |-> InvalidID, forward |-> FALSE,
               isNew |-> {}, isPassed |-> {getSubnetBegin(b)}]
      /\ cuts = callOnEachCell(<< >>, k, b, getSubnetBegin(b))
      /\ spec = Outputs(b)
      /\ old = Drivers(b)
      /\ visited = {}

\* The leaves of the cones the pass tries: the rewriter's stored cuts, in
\* increasing order; the refactorer's reconvergence-driven window.
Windows ==
  IF kind \in {"rw", "rwz"}
  THEN {SetToSortSeq(cut, LAMBDA x, y : x < y) : cut \in cuts[it.entry]}
  ELSE {getReconvergentCut(sb, it.entry)}

\* The resynthesizer's answers that have the function of the root, as far as the
\* values of the leaves in the network can tell (the refactorer computes what
\* combinations of them do not occur).  A cone that is its own leaf stays.
Candidates(ins, value) ==
  {r \in Rhss : /\ r.nIn = Len(ins)
                /\ ins[1] = it.entry => r = Rhs(1, << >>, Link(0, FALSE))
                /\ RhsOutValue(r, [j \in DOMAIN ins |-> value[ins[j]]]) = value[it.entry]}

\* The cost function of rw, rwz and the predicates of rf, rfz.
Accepted(k, size) == size > 0 \/ (k \in {"rwz", "rfz"} /\ size = 0)

\* rewriteOnNode, nodeProcessing: no candidate is good enough (or there is none:
\* the resynthesizer may fail).
Skip ==
  /\ pc = "node"
  /\ pc' = "step"
  /\ visited' = visited \cup {it.entry}
  /\ UNCHANGED <<sb, kind, it, cuts, spec, old>>

\* rewriteOnNode, nodeProcessing: the best candidate replaces the cone, through
\* SafePasser::replace.
ReplaceNode ==
  /\ pc = "node"
  /\ \E value \in {[i \in Live(sb) |-> Value(sb, i)]}, ins \in Windows :
     \E rhs \in Candidates(ins, value) :
       /\ Accepted(kind, evaluateReplace(sb, rhs, ins, it.entry))
       /\ \E b \in {replace(sb, rhs, ins, it.entry)} :
            LET oldDepth == sb.depth[it.entry]
                rootLast == sb.depthBounds[oldDepth][2] = it.entry
            IN  /\ sb' = [b EXCEPT !.log = << >>]
                /\ cuts' = CutsAfter(cuts, kind, b.log, oldDepth)
                /\ it' = [it EXCEPT !.isNew = @ \cup NewCells(b.log),
                                    !.saveNext = recomputeNext(b, it, getNext(sb, it.entry),
                                                               oldDepth, rootLast)]
  /\ pc' = "step"
  /\ visited' = visited \cup {it.entry}
  /\ UNCHANGED <<kind, spec, old>>

\* Bug: a cell is processed until no replacement is accepted, and zero-cost ones are.
Step_Again ==
  /\ pc = "step"
  /\ LET i == IF it.saveNext # InvalidID THEN it.entry ELSE getNext(sb, it.entry)
     IN  /\ it' = [it EXCEPT !.entry = i, !.saveNext = InvalidID, !.forward = TRUE]
         /\ cuts' = callOnEachCell(cuts, kind, sb, i)
         /\ pc' = IF sb.entries[i].type = "OUT" THEN "done" ELSE "node"
  /\ UNCHANGED <<sb, kind, spec, old, visited>>

\* ++iter (changeIt) and the loop's condition.
Step ==
  /\ pc = "step"
  /\ \E path \in {PassedOver(sb, it, StepFrom(sb, it))} :
       LET i == Last(path)
       IN  /\ it' = [it EXCEPT !.entry = i, !.saveNext = InvalidID, !.forward = TRUE,
                               !.isPassed = @ \cup ({i} \ {UpperBoundID})]
           /\ cuts' = FoldLeft(LAMBDA c, k : callOnEachCell(c, kind, sb, k), cuts, path)
           /\ pc' = IF i = UpperBoundID \/ sb.entries[i].type = "OUT" THEN "done" ELSE "node"
  /\ UNCHANGED <<sb, kind, spec, old, visited>>

Next == Skip \/ ReplaceNode \/ Step

\* The pass is a loop in one thread, which does not stop at a cell (Skip is enabled
\* at every cell until that cell has been processed) nor between two cells.
Spec == Init /\ [][Next]_vars /\ WF_vars(Skip) /\ WF_vars(Step)

-----------------------------------------------------------------------------
(* Properties.                                                             *)

\* Whatever the pass replaces, the outputs stay the same, no assert fails, and the
\* order is topological.
PassSound == ~sb.fault /\ Outputs(sb) = spec /\ OrderSound(sb)

\* SafePasser "avoids entries added by replacing in previous iterations": a cell
\* that is processed is live, was there when the pass began, is in the order, and
\* has not been processed before, although slots of dead cells are used again and
\* the iterator goes back when its next cell has moved to a smaller depth.  The
\* loop ends at an output: the rewriter's does not test for the end of the order.
SafeVisits ==
  /\ pc = "node" => /\ it.entry \in Live(sb) \cap old
                    /\ it.entry \notin it.isNew \cup visited
  /\ pc = "done" => it.entry # UpperBoundID

\* The cells from the beginning of the order up to the iterator.
Behind ==
  LET order == Order(sb)
      n == SelectInSeq(order, LAMBDA i : i = it.entry)
  IN  {order[m] : m \in 1 .. n}

\* The cones that are cut out are cones: what the pass tries for a cell, and the
\* stored cuts of all cells behind the iterator (from which later ones are
\* computed), are cuts of at most k leaves of the network as it is now.  No leaf is
\* dead, recycled or bypassed.
CutsFresh ==
  pc = "node" =>
    /\ \A ins \in Windows : IsCut(sb, it.entry, ToSet(ins))
    /\ kind \in {"rw", "rwz"} =>
         \A i \in Behind : i \in DOMAIN cuts /\ \A c \in cuts[i] : IsCut(sb, i, c)

\* Every pass ends.
Terminates == <>(pc = "done")
=============================================================================
