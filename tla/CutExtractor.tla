---------------------------- MODULE CutExtractor ----------------------------
(***************************************************************************)
(* k-feasible cuts (gate/optimizer/cut_extractor.{h,cpp}).  A cut is the   *)
(* set of its leaves.  The cuts of a cell are computed from the cuts of    *)
(* the cells it links to, which must have been computed before; a cell     *)
(* whose inputs change has stale cuts until they are computed again.       *)
(***************************************************************************)
EXTENDS SubnetReplace

CONSTANT CutSize  \* k, the largest number of leaves

\* The unions of one cut of every input (Cut::merge).
MergedCuts(lists) ==
  FoldLeft(LAMBDA acc, S : {u \cup v : u \in acc, v \in S}, {{}}, lists)

\* Cut::dominates.
dominates(u, v) == u \subseteq v /\ u # v

\* addCut and cutNotDominated for all combinations: the cuts of at most k leaves
\* that no other one dominates.
addCuts(trivial, lists) ==
  LET all == {trivial} \cup {c \in MergedCuts(lists) : Cardinality(c) <= CutSize}
  IN  {c \in all : ~\E d \in all : dominates(d, c)}

\* findCuts: the trivial cut and the merged ones.  A cell that the extractor has
\* not come by has no cuts.
findCuts(cuts, i, ls) ==
  LET cutsOf(j) == IF j \in DOMAIN cuts THEN cuts[j] ELSE {}
  IN  IF ls = << >> THEN {{i}} ELSE addCuts({i}, [j \in DOMAIN ls |-> cutsOf(ls[j].idx)])

recomputeCuts(cuts, i, ls) ==
  [k \in DOMAIN cuts \cup {i} |-> IF k = i THEN findCuts(cuts, i, ls) ELSE cuts[k]]

-----------------------------------------------------------------------------
(* The reconvergence-driven cut (optimizer/reconvergence.cpp): w has the   *)
(* leaves, in order, and the cells marked in the session.                  *)

IsConst(b, i) == b.entries[i].type \in {"ZERO", "ONE"}

\* The links that would become leaves, with repetitions.
NewLeaves(b, w, i) ==
  SelectSeq(b.entries[i].links, LAMBDA l : ~IsConst(b, l.idx) /\ l.idx \notin w.marked)

\* The first leaf with the smallest cost; 0 if all are sources or the cut would be
\* too large.
findBestLeave(b, w) ==
  LET computeCost(n) == Len(NewLeaves(b, w, w.leaves[n]))
      inner == {n \in DOMAIN w.leaves : b.entries[w.leaves[n]].links # << >>}
      best == {n \in inner : \A m \in inner : computeCost(n) <= computeCost(m)}
  IN  IF best = {} \/ computeCost(Min(best)) + Len(w.leaves) - 1 > CutSize THEN 0 ELSE Min(best)

RECURSIVE ExpandLeaves(_, _)
ExpandLeaves(b, w) ==
  LET n == findBestLeave(b, w)
      add(v, l) == IF IsConst(b, l.idx) \/ l.idx \in v.marked THEN v
                   ELSE [leaves |-> Append(v.leaves, l.idx), marked |-> v.marked \cup {l.idx}]
      expanded == FoldLeft(add, w, b.entries[w.leaves[n]].links)
  IN  IF n = 0 THEN w.leaves ELSE ExpandLeaves(b, [expanded EXCEPT !.leaves = RemoveAt(@, n)])

\* The leaves of the window of a root; the root itself if it is a constant.
getReconvergentCut(b, root) ==
  LET leaves == ExpandLeaves(b, [leaves |-> <<root>>, marked |-> {}])
  IN  IF leaves = << >> THEN <<root>> ELSE leaves

-----------------------------------------------------------------------------

\* Every path from a source, constants aside, to i meets one of the leaves.
RECURSIVE Covers(_, _, _)
Covers(b, i, leaves) ==
  \/ i \in leaves
  \/ IsConst(b, i)
  \/ /\ b.entries[i].links # << >>
     /\ \A j \in DOMAIN b.entries[i].links : Covers(b, b.entries[i].links[j].idx, leaves)

\* leaves is a k-feasible cut of cell i of the network as it is.
IsCut(b, i, leaves) ==
  /\ leaves # {}
  /\ Cardinality(leaves) <= CutSize
  /\ leaves \subseteq Cone(b, i)
  /\ Covers(b, i, leaves)
=============================================================================
