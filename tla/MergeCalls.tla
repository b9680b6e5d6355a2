----------------------------- MODULE MergeCalls -----------------------------
(***************************************************************************)
(* Calls of SubnetBuilder::mergeCells and of its two clients in the class, *)
(* replaceWithZero and replaceWithOne, with every argument that meets the  *)
(* documented precondition ("remaining entries precede the entries being   *)
(* removed").  The cells need not be equivalent: mergeCells redirects      *)
(* links, and the outputs must be those of the redirected network.         *)
(***************************************************************************)
EXTENDS SubnetNet

CONSTANTS
  Nets,         \* initial networks: sequences of cells to be added
  MaxRemoved,   \* bound on the cells one call removes
  MaxCalls      \* bound on the number of calls

ASSUME MergeAssumption == MaxRemoved \in Nat /\ MaxCalls \in Nat

VARIABLES
  sb,    \* the builder
  spec,  \* what the outputs have to be (history)
  calls  \* number of calls so far

vars == <<sb, spec, calls>>

Init ==
  \E net \in Nets :
    /\ sb = Build(net)
    /\ spec = Outputs(Build(net))
    /\ calls = 0

-----------------------------------------------------------------------------
(* What a merge means.                                                     *)

\* The value of cell i when a link to a removed cell reads the remaining one.
RECURSIVE RedirectedValue(_, _, _)
RedirectedValue(b, i, mergeTo) ==
  LET c == b.entries[i]
      source(j) == IF c.links[j].idx \in DOMAIN mergeTo THEN mergeTo[c.links[j].idx]
                   ELSE c.links[j].idx
  IN  IF c.type = "IN" THEN Value(b, i)
      ELSE GateValue(c.type, [j \in DOMAIN c.links |->
             LinkValue(RedirectedValue(b, source(j), mergeTo), c.links[j].inv)])

RedirectedOutputs(b, mergeTo) ==
  {<<Rank(b, i), RedirectedValue(b, i, mergeTo)>> : i \in {k \in Live(b) : b.entries[k].type = "OUT"}}

-----------------------------------------------------------------------------
(* The calls.                                                              *)

\* A cell that may be removed is driven by logic or is a constant.
Removable(b) == {i \in Drivers(b) : b.entries[i].type # "IN"}

Precedes(b, r, i) ==
  LET order == Order(b)
  IN  SelectInSeq(order, LAMBDA k : k = r) < SelectInSeq(order, LAMBDA k : k = i)

\* The sets of cells one call may remove; some cell is referenced (the assert).
Groups(b) ==
  {S \in SUBSET Removable(b) : /\ Cardinality(S) \in 1 .. MaxRemoved
                              /\ \E i \in S : b.entries[i].refcount > 0}

\* mergeCells on builder b; a hash map decides who is deleted first.
MergeIn(b, mergeTo) ==
  \E removal \in SetToSeqs(DOMAIN mergeTo) :
    /\ sb' = mergeCells(b, mergeTo, removal)
    /\ spec' = RedirectedOutputs(b, mergeTo)
    /\ calls < MaxCalls /\ calls' = calls + 1

\* The remaining cells precede the ones being removed and are not removed.
MergeCells ==
  \E ids \in Groups(sb) : \E mergeTo \in [ids -> Drivers(sb) \ ids] :
    /\ \A i \in ids : Precedes(sb, mergeTo[i], i)
    /\ MergeIn(sb, mergeTo)

\* replaceWithZero and replaceWithOne: the constant is added, or found.
ReplaceWith(t) ==
  \E added \in {addCell(sb, t, << >>)} : \E ids \in Groups(sb) :
    /\ added.idx \notin ids
    /\ MergeIn(added.b, [i \in ids |-> added.idx])

ReplaceWithZero == ReplaceWith("ZERO")

ReplaceWithOne == ReplaceWith("ONE")

Next == MergeCells \/ ReplaceWithZero \/ ReplaceWithOne

Spec == Init /\ [][Next]_vars

-----------------------------------------------------------------------------

\* After any sequence of merges, with the cells removed in any order, the
\* outputs are those of the network with its links redirected: the early exit
\* of the loop of mergeCells leaves no link to a removed cell behind.
MergeSound == Outputs(sb) = spec

\* No assert of mergeCells or deleteCell fails, the order stays topological, and
\* references, free slots and cell numbers are exact: a cell deleted as the last
\* user's fanin is not deleted again by the loop over the removed cells.
MergedNetSound == ~sb.fault /\ OrderSound(sb) /\ CountersSound(sb)

\* mergeCells does not recompute depths.  What the order relies on survives all
\* the same: depths grow along every link, the levels follow each other and the
\* depth bounds delimit them.
LevelsKept ==
  /\ LevelsSound(sb)
  /\ \A i \in Live(sb) : \A j \in DOMAIN sb.entries[i].links :
       sb.depth[sb.entries[i].links[j].idx] < sb.depth[i]

\* make after merges: same outputs, no holes.
MergedMake == MakeIsSound(sb)
=============================================================================
