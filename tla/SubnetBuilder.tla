---------------------------- MODULE SubnetBuilder ----------------------------
(***************************************************************************)
(* The mutable logic network of Utopia EDA (gate/model/subnet.{h,cpp}).    *)
(*                                                                         *)
(* A SubnetBuilder keeps an array of entries (cells with reference         *)
(* counters), a doubly linked topological order threaded through the       *)
(* array, the first and the last cell of every depth, a free list of array *)
(* slots, a structural hash from cell keys to cells and, on demand, the    *)
(* fanouts of every cell.  All of these describe one network, and every    *)
(* method updates some of them by hand.                                    *)
(*                                                                         *)
(* A builder is a record; every method of the class is an operator that    *)
(* takes a builder and returns the updated one.  Cells have at most        *)
(* Cell::InPlaceLinks links (no link entries) and one output.  A failed    *)
(* assert, or an array access out of range, sets the field `fault'.  The   *)
(* callbacks of one call of replace are collected in the field `log'.      *)
(*                                                                         *)
(* An operator marked "Bug:" is a faulty variant of the operator after it. *)
(* No specification uses it; the variants show that the properties can     *)
(* fail (see the README).                                                  *)
(***************************************************************************)
EXTENDS Integers, Sequences, FiniteSets, FiniteSetsExt, SequencesExt

\* Special entry IDs (huge unsigned numbers in the code).
InvalidID == -1
NormalOrderID == -2
LowerBoundID == -3
UpperBoundID == -4

InvalidDepth == -1

Link(i, v) == [idx |-> i, inv |-> v]

Cell(t, ls) == [type |-> t, links |-> ls, refcount |-> 0]

\* The constructor: no entries, no order, no depths.
EmptyBuilder ==
  [entries |-> << >>, prev |-> << >>, next |-> << >>, depth |-> << >>,
   depthBounds |-> << >>, empty |-> << >>,
   begin |-> InvalidID, end |-> InvalidID,
   strash |-> << >>, fanouts |-> << >>, fanoutsEnabled |-> FALSE,
   nIn |-> 0, nOut |-> 0, nCell |-> 0, nBuf |-> 0,
   isDisassembled |-> FALSE, fault |-> FALSE, log |-> << >>]

\* Arrays are functions on 0 .. n-1; `resize' extends one with a default.
Grow(f, n, x) == [i \in DOMAIN f \cup 0 .. n - 1 |-> IF i \in DOMAIN f THEN f[i] ELSE x]

\* The array f with x at index i.
SetAt(f, i, x) == [k \in DOMAIN f |-> IF k = i THEN x ELSE f[k]]

Size(f) == Cardinality(DOMAIN f)

\* An assert of the code.
Require(b, cond) == IF cond THEN b ELSE [b EXCEPT !.fault = TRUE]

\* A callback on cell i: its name, the cell, and what the callee can read of it.
Callback(b, name, i) ==
  [b EXCEPT !.log = Append(@, [on |-> name, id |-> i, links |-> b.entries[i].links,
                               depth |-> b.depth[i]])]

-----------------------------------------------------------------------------
(* Structural hashing.                                                     *)

StrashEnabled(t) == t \notin {"IN", "OUT"}

\* The key holds the links in ascending order (the cell types here are commutative):
\* two keys are equal if their bags of links are.
StrashKey(t, ls) == <<t, ToBag(ls)>>

CellKey(b, i) == StrashKey(b.entries[i].type, b.entries[i].links)

StrashFind(b, key) == IF key \in DOMAIN b.strash THEN b.strash[key] ELSE InvalidID

StrashInsert(b, key, i) ==
  IF key \in DOMAIN b.strash THEN b
  ELSE [b EXCEPT !.strash = [k \in DOMAIN @ \cup {key} |-> IF k = key THEN i ELSE @[k]]]

\* Bug: deleted and replaced cells keep their keys.
destrashEntry_Keep(b, i) == b

destrashEntry(b, i) ==
  IF StrashEnabled(b.entries[i].type) /\ StrashFind(b, CellKey(b, i)) = i
  THEN [b EXCEPT !.strash = [k \in DOMAIN @ \ {CellKey(b, i)} |-> @[k]]]
  ELSE b

-----------------------------------------------------------------------------
(* Topological order.                                                      *)

getSubnetBegin(b) == IF b.begin = NormalOrderID THEN 0 ELSE b.begin

getSubnetEnd(b) == IF b.end = NormalOrderID THEN Size(b.entries) - 1 ELSE b.end

getNext(b, i) ==
  CASE i = LowerBoundID ->
         IF getSubnetBegin(b) = InvalidID THEN UpperBoundID ELSE getSubnetBegin(b)
    [] i # LowerBoundID /\ i = getSubnetEnd(b) -> UpperBoundID
    [] OTHER -> IF b.next[i] = NormalOrderID THEN i + 1 ELSE b.next[i]

getPrev(b, i) ==
  CASE i = UpperBoundID ->
         IF getSubnetBegin(b) = InvalidID THEN LowerBoundID ELSE getSubnetEnd(b)
    [] i # UpperBoundID /\ i = getSubnetBegin(b) -> LowerBoundID
    [] OTHER -> IF b.prev[i] = NormalOrderID THEN i - 1 ELSE b.prev[i]

setOrder(b, first, second) ==
  IF first = LowerBoundID /\ second = UpperBoundID
  THEN [b EXCEPT !.begin = InvalidID, !.end = InvalidID]
  ELSE
    LET b1 == [b EXCEPT
                !.begin = IF second = getSubnetBegin(b) /\ first # LowerBoundID THEN first
                          ELSE IF first = LowerBoundID THEN second ELSE @,
                !.end = IF first = getSubnetEnd(b) /\ second # UpperBoundID THEN second
                        ELSE IF second = UpperBoundID THEN first ELSE @]
        b2 == IF second # UpperBoundID /\ getPrev(b1, second) # first
              THEN [b1 EXCEPT !.prev = SetAt(@, second, first), !.isDisassembled = TRUE]
              ELSE b1
    IN  IF first # LowerBoundID /\ getNext(b2, first) # second
        THEN [b2 EXCEPT !.next = SetAt(@, first, second), !.isDisassembled = TRUE]
        ELSE b2

\* The pivot must be in the order (the assert of getNext).
placeAfter(b, i, pivot) ==
  IF pivot = InvalidID THEN Require(b, FALSE)
  ELSE setOrder(setOrder(b, i, getNext(b, pivot)), pivot, i)

-----------------------------------------------------------------------------
(* Depth bounds.                                                           *)

NoBounds == <<InvalidID, InvalidID>>

\* Bug: the first cell of a depth goes and the bound still names it.
deleteDepthBounds_KeepFirst(b, i) ==
  LET d == b.depth[i]
      bounds == b.depthBounds[d]
      after == CASE bounds[1] = bounds[2] -> NoBounds
                 [] bounds[1] # bounds[2] /\ bounds[2] = i -> <<bounds[1], getPrev(b, i)>>
                 [] OTHER -> bounds
  IN  setOrder([b EXCEPT !.depthBounds = SetAt(@, d, after)], getPrev(b, i), getNext(b, i))

deleteDepthBounds(b, i) ==
  LET d == b.depth[i]
      bounds == b.depthBounds[d]
      after == CASE bounds[1] = bounds[2] -> NoBounds
                 [] bounds[1] # bounds[2] /\ bounds[1] = i -> <<getNext(b, i), bounds[2]>>
                 [] bounds[1] # bounds[2] /\ bounds[1] # i /\ bounds[2] = i ->
                      <<bounds[1], getPrev(b, i)>>
                 [] OTHER -> bounds
  IN  IF d \notin DOMAIN b.depthBounds THEN Require(b, FALSE)
      ELSE setOrder([b EXCEPT !.depthBounds = SetAt(@, d, after)], getPrev(b, i), getNext(b, i))

\* One step back over a constant.  (The loop reads getCell(lowerBoundID) when no
\* input precedes: the value is unused.)
SkipConst(b, i) ==
  IF i # LowerBoundID /\ b.entries[i].type \in {"ZERO", "ONE"} THEN getPrev(b, i) ELSE i

\* Bug: an input is placed after the constants.
lastNonConst_Last(b, i) == i

\* Walk back over the constants so that an input precedes them.
lastNonConst(b, i) ==
  LET back[k \in 0 .. Size(b.entries)] == IF k = 0 THEN i ELSE SkipConst(b, back[k - 1])
  IN  back[Size(b.entries)]

addDepthBounds(b, i) ==
  LET d == b.depth[i]
      t == b.entries[i].type
      b1 == IF d \in DOMAIN b.depthBounds THEN b
            ELSE [b EXCEPT !.depthBounds = Grow(@, d + 1, NoBounds)]
      bounds == b1.depthBounds[d]
      pivot == IF d = 0 /\ t = "IN" THEN lastNonConst(b1, bounds[2]) ELSE bounds[2]
  IN  CASE t = "OUT" -> placeAfter(b1, i, getSubnetEnd(b1))
        [] t # "OUT" /\ bounds[1] = InvalidID ->
             placeAfter([b1 EXCEPT !.depthBounds = SetAt(@, d, <<i, i>>)], i,
                        IF d = 0 THEN LowerBoundID ELSE b1.depthBounds[d - 1][2])
        [] OTHER ->
             LET b2 == placeAfter(b1, i, pivot)
             IN  IF bounds[2] = pivot THEN [b2 EXCEPT !.depthBounds = SetAt(@, d, <<bounds[1], i>>)] ELSE b2

-----------------------------------------------------------------------------
(* Fanouts and reference counters.                                         *)

\* The fanout lists with one more fanout.
PushFanout(fanouts, source, fanout) ==
  LET f == Grow(fanouts, source + 1, << >>) IN SetAt(f, source, Append(f[source], fanout))

\* Cell i becomes a fanout of every cell that it links to.
PushFanouts(fanouts, i, ls) ==
  LET push[j \in 0 .. Len(ls)] == IF j = 0 THEN fanouts ELSE PushFanout(push[j - 1], ls[j].idx, i)
  IN  push[Len(ls)]

addFanout(b, source, fanout) ==
  IF b.fanoutsEnabled THEN [b EXCEPT !.fanouts = PushFanout(@, source, fanout)] ELSE b

delFanout(b, source, fanout) ==
  CASE ~b.fanoutsEnabled -> b
    [] b.fanoutsEnabled /\ source \notin DOMAIN b.fanouts -> Require(b, FALSE)
    [] OTHER -> [b EXCEPT !.fanouts = SetAt(@, source, RemoveFirst(@[source], fanout))]

SetRefCount(b, i, n) == [b EXCEPT !.entries = SetAt(@, i, [@[i] EXCEPT !.refcount = n])]

incRefCount(b, i) == SetRefCount(b, i, b.entries[i].refcount + 1)

\* Bug: a reference is dropped twice.
decRefCount_Twice(b, i) == SetRefCount(b, i, b.entries[i].refcount - 2)

\* Bug: a reference is not dropped.
decRefCount_None(b, i) == b

decRefCount(b, i) ==
  IF b.entries[i].refcount > 0 THEN SetRefCount(b, i, b.entries[i].refcount - 1) ELSE Require(b, FALSE)

-----------------------------------------------------------------------------
(* Allocation.                                                             *)

\* A slot from the free list (LIFO) or a new one at the end of the array.
NextSlot(b) == IF b.empty # << >> THEN Last(b.empty) ELSE Size(b.entries)

allocSlot(b, isBuf) ==
  LET n == Size(b.entries)
      b1 == [b EXCEPT !.nCell = @ + 1, !.nBuf = IF isBuf THEN @ + 1 ELSE @]
  IN  IF b.empty # << >> THEN [b1 EXCEPT !.empty = Front(@)]
      ELSE [b1 EXCEPT !.entries = Grow(@, n + 1, Cell("NULL", << >>)),
                      !.prev = Grow(@, n + 1, NormalOrderID),
                      !.next = Grow(@, n + 1, NormalOrderID),
                      !.depth = Grow(@, n + 1, InvalidDepth)]

DepthOver(b, ls) == Max({0} \cup {b.depth[ls[j].idx] + 1 : j \in DOMAIN ls})

\* The number of the links of ls to cell k.
NumLinks(ls, k) == Cardinality({j \in DOMAIN ls : ls[j].idx = k})

\* Every link gets a fanout and a reference.
LinkTo(b, i, ls) ==
  [b EXCEPT
     !.entries = [k \in DOMAIN b.entries |->
                    [b.entries[k] EXCEPT !.refcount = @ + NumLinks(ls, k)]],
     !.fanouts = IF b.fanoutsEnabled THEN PushFanouts(@, i, ls) ELSE @]

\* allocEntry(typeID, links): the strashed cell, or a new one.
NewEntry(b, t, ls) ==
  LET fixed == [b EXCEPT !.begin = getSubnetBegin(b), !.end = getSubnetEnd(b)]
      i == NextSlot(b)
      b1 == allocSlot(fixed, t = "BUF")
      b2 == IF StrashEnabled(t) THEN StrashInsert(b1, StrashKey(t, ls), i) ELSE b1
      b3 == LinkTo(Require([b2 EXCEPT !.depth = SetAt(@, i, DepthOver(b2, ls))],
                           \A j \in DOMAIN ls : b.entries[ls[j].idx].type # "OUT"), i, ls)
  IN  addDepthBounds([b3 EXCEPT !.entries = SetAt(@, i, Cell(t, ls))], i)

\* addCell returns the builder and the entry.
addCell(b, t, ls) ==
  LET old == IF StrashEnabled(t) THEN StrashFind(b, StrashKey(t, ls)) ELSE InvalidID
      fixed == [b EXCEPT !.begin = getSubnetBegin(b), !.end = getSubnetEnd(b)]
      b1 == IF old # InvalidID THEN fixed ELSE NewEntry(b, t, ls)
  IN  [b |-> [b1 EXCEPT !.nIn = IF t = "IN" THEN @ + 1 ELSE @,
                        !.nOut = IF t = "OUT" THEN @ + 1 ELSE @],
       idx |-> IF old # InvalidID THEN old ELSE NextSlot(b)]

-----------------------------------------------------------------------------
(* Deletion.                                                               *)

\* Bug: the slot is not returned to the free list.
deallocEntry_Leak(b, i) ==
  LET b1 == deleteDepthBounds(destrashEntry(b, i), i)
  IN  [b1 EXCEPT !.depth = SetAt(@, i, InvalidDepth), !.nCell = @ - 1,
                 !.nBuf = IF b.entries[i].type = "BUF" THEN @ - 1 ELSE @]

deallocEntry(b, i) ==
  LET b1 == deleteDepthBounds(destrashEntry(Require(b, b.entries[i].refcount = 0), i), i)
      isBuf == b.entries[i].type = "BUF"
  IN  [b1 EXCEPT !.depth = SetAt(@, i, InvalidDepth), !.empty = Append(@, i),
                 !.nCell = @ - 1, !.nBuf = IF isBuf THEN @ - 1 ELSE @]

\* One input of the cell being deleted: the pair <<builder, queue>>.
DropInput(bq, i, l) ==
  LET b1 == decRefCount(delFanout(bq[1], l.idx, i), l.idx)
      c == b1.entries[l.idx]
  IN  <<b1, IF c.refcount = 0 /\ c.type # "IN" THEN Append(bq[2], l.idx) ELSE bq[2]>>

DropInputs(bq, i, ls) ==
  LET drop[j \in 0 .. Len(ls)] == IF j = 0 THEN bq ELSE DropInput(drop[j - 1], i, ls[j])
  IN  drop[Len(ls)]

\* The first cell of the queue is deleted.
DeleteStep(bq) ==
  IF bq[2] = << >> \/ bq[1].fault THEN bq
  ELSE DropInputs(<<deallocEntry(bq[1], Head(bq[2])), Tail(bq[2])>>, Head(bq[2]),
                  bq[1].entries[Head(bq[2])].links)

\* No cell is queued twice, so that there are at most as many steps as entries.
deleteCell(b, i) ==
  LET del[k \in 0 .. Size(b.entries)] == IF k = 0 THEN <<b, <<i>>>> ELSE DeleteStep(del[k - 1])
  IN  del[Size(b.entries)][1]

-----------------------------------------------------------------------------
(* Replacement of one cell.                                                *)

\* The walk of recomputeFanoutDepths: w.i is the current entry, w.moved are the
\* cells whose depth has changed, and w.n is the number of links to them that have
\* not been seen yet.

\* Cell w.i with the new depth d goes to its place in the order.
MoveCell(w, d) ==
  addDepthBounds(Callback([deleteDepthBounds(w.b, w.i) EXCEPT !.depth = SetAt(@, w.i, d)],
                          "RecomputedDepth", w.i), w.i)

LinksToMoved(w) == Cardinality({j \in DOMAIN w.b.entries[w.i].links :
                                  w.b.entries[w.i].links[j].idx \in w.moved})

\* Bug: the walk does not wait for the fanouts of the cells it has moved.
VisitCell_Direct(w) ==
  LET d == DepthOver(w.b, w.b.entries[w.i].links)
      moves == d # w.b.depth[w.i] /\ w.b.entries[w.i].type # "OUT"
  IN  [b |-> IF moves THEN MoveCell(w, d) ELSE [w.b EXCEPT !.depth = SetAt(@, w.i, d)],
       i |-> getNext(w.b, w.i), moved |-> w.moved, n |-> w.n - LinksToMoved(w)]

VisitCell(w) ==
  LET d == DepthOver(w.b, w.b.entries[w.i].links)
      moves == d # w.b.depth[w.i] /\ w.b.entries[w.i].type # "OUT"
  IN  [b |-> IF moves THEN MoveCell(w, d) ELSE [w.b EXCEPT !.depth = SetAt(@, w.i, d)],
       i |-> getNext(w.b, w.i),
       moved |-> IF moves THEN w.moved \cup {w.i} ELSE w.moved,
       n |-> w.n - LinksToMoved(w) + (IF moves THEN w.b.entries[w.i].refcount ELSE 0)]

RecomputeStep(w) ==
  CASE w.n = 0 \/ w.b.fault -> w
    [] w.n # 0 /\ ~w.b.fault /\ w.i \in {UpperBoundID, InvalidID} -> [w EXCEPT !.b = Require(@, FALSE)]
    [] w.n # 0 /\ ~w.b.fault /\ w.i \in w.moved -> [w EXCEPT !.i = getNext(w.b, w.i)]
    [] OTHER -> VisitCell(w)

\* Bug: only the replaced cell moves.
recomputeFanoutDepths_None(b, root, oldRootNext) == b

\* The walk meets a cell at most twice, the second time where it has been moved to.
recomputeFanoutDepths(b, root, oldRootNext) ==
  LET N == 2 * Size(b.entries) + 1
      walk[k \in 0 .. N] ==
        IF k = 0 THEN [b |-> b, i |-> oldRootNext, moved |-> {root}, n |-> b.entries[root].refcount]
        ELSE RecomputeStep(walk[k - 1])
  IN  Require(walk[N].b, walk[N].n = 0)

\* Bug: the replaced cell stays a fanout of its old inputs.
DropOldInput_Fanout(b, i, l, delZeroRefcount) ==
  LET b1 == decRefCount(b, l.idx)
      c == b1.entries[l.idx]
  IN  IF c.refcount = 0 /\ c.type # "IN" /\ delZeroRefcount THEN deleteCell(b1, l.idx) ELSE b1

\* An old input of the replaced cell loses a reference.
DropOldInput(b, i, l, delZeroRefcount) ==
  LET b1 == decRefCount(delFanout(b, l.idx, i), l.idx)
      c == b1.entries[l.idx]
  IN  IF c.refcount = 0 /\ c.type # "IN" /\ delZeroRefcount THEN deleteCell(b1, l.idx) ELSE b1

DropOldInputs(b, i, ls, delZeroRefcount) ==
  LET drop[j \in 0 .. Len(ls)] ==
        IF j = 0 THEN b ELSE DropOldInput(drop[j - 1], i, ls[j], delZeroRefcount)
  IN  drop[Len(ls)]

\* The new cell takes the place of the old one, with its references.
PutCell(b, i, t, ls, refcount) ==
  LET b1 == [b EXCEPT !.entries = SetAt(@, i, [Cell(t, ls) EXCEPT !.refcount = refcount])]
  IN  IF StrashEnabled(t) THEN StrashInsert(b1, StrashKey(t, ls), i) ELSE b1

\* The new cell goes to its place in the order, and the cells above it follow.
PlaceCell(b, i, oldNext, oldDepth, newDepth) ==
  IF oldDepth = newDepth THEN Callback(b, "NewCell", i)
  ELSE recomputeFanoutDepths(
         addDepthBounds(Callback([deleteDepthBounds(b, i) EXCEPT !.depth = SetAt(@, i, newDepth)],
                                 "NewCell", i), i), i, oldNext)

replaceCell(b, i, t, ls, delZeroRefcount) ==
  LET old == b.entries[i]
      b1 == [destrashEntry(b, i) EXCEPT
               !.nBuf = @ - (IF old.type = "BUF" THEN 1 ELSE 0) + (IF t = "BUF" THEN 1 ELSE 0)]
      b2 == DropOldInputs(LinkTo(b1, i, ls), i, old.links, delZeroRefcount)
  IN  PlaceCell(PutCell(b2, i, t, ls, old.refcount), i, getNext(b, i), b.depth[i], DepthOver(b, ls))

-----------------------------------------------------------------------------
(* Fanouts on demand.                                                      *)

\* The part of the order walked so far with the next entry.
WalkOn(b, order) ==
  LET i == IF order = << >> THEN getSubnetBegin(b) ELSE getNext(b, Last(order))
  IN  IF i \in {UpperBoundID, InvalidID} THEN order ELSE Append(order, i)

\* The topological order (cut after as many steps as there are entries, so
\* that a damaged order is a finite sequence too).
Order(b) ==
  LET N == Size(b.entries) + 1
      walk[k \in 0 .. N] == IF k = 0 THEN << >> ELSE WalkOn(b, walk[k - 1])
  IN  walk[N]

enableFanouts(b) ==
  LET order == Order(b)
      push[k \in 0 .. Len(order)] ==
        IF k = 0 THEN b.fanouts ELSE PushFanouts(push[k - 1], order[k], b.entries[order[k]].links)
  IN  [b EXCEPT !.fanoutsEnabled = TRUE, !.fanouts = push[Len(order)]]

disableFanouts(b) == [b EXCEPT !.fanoutsEnabled = FALSE, !.fanouts = << >>]

-----------------------------------------------------------------------------
(* Merging of equivalent cells.                                            *)

\* Redirects the j-th link of cell i; bn is <<builder, references left>>.
RedirectLink(bn, mergeTo, i, j) ==
  LET b == bn[1]
      source == b.entries[i].links[j].idx
      remain == mergeTo[source]
  IN  IF bn[2] = 0 \/ source \notin DOMAIN mergeTo THEN bn
      ELSE \* The link is redirected before its fanout is deleted.
           LET b1 == delFanout([b EXCEPT !.entries = SetAt(@, i, [@[i] EXCEPT !.links[j].idx = remain])], remain, i)
               b2 == addFanout(decRefCount(b1, source), remain, i)
           IN  <<incRefCount(b2, remain), bn[2] - 1>>

\* Bug: only the first link of a cell is redirected.
RedirectCell_First(bn, mergeTo, i) ==
  IF bn[1].entries[i].links = << >> THEN bn ELSE RedirectLink(bn, mergeTo, i, 1)

RedirectCell(bn, mergeTo, i) ==
  FoldLeft(LAMBDA c, j : RedirectLink(c, mergeTo, i, j), bn,
           [j \in DOMAIN bn[1].entries[i].links |-> j])

\* mergeTo maps every removed cell to the remaining one (the sets of the code's
\* map do not overlap).  The cells are removed in the order of a hash map, which
\* is an argument.
mergeCells(b, mergeTo, removal) ==
  LET order == Order(b)
      start == SelectInSeq(order, LAMBDA i : i \in DOMAIN mergeTo)
      refs == MapThenSumSet(LAMBDA i : b.entries[i].refcount, DOMAIN mergeTo)
      bn == FoldLeft(LAMBDA c, i : RedirectCell(c, mergeTo, i), <<Require(b, refs > 0), refs>>,
                     SubSeq(order, start + 1, Len(order)))
  IN  FoldLeft(LAMBDA c, i : deleteCell(c, i), bn[1], removal)

-----------------------------------------------------------------------------
(* Making a subnet.                                                        *)

\* One entry of rearrangeEntries: r.e and r.d are the new entries and depths,
\* r.m maps old entries to links to new ones, r.last is the depth of the
\* previous cell.
Rearrange(b, r, i, deleteBufs) ==
  LET c == b.entries[i]
      n == Size(r.e)
      relink(l) == Link(r.m[l.idx].idx, r.m[l.idx].inv # l.inv)
      ls == [j \in DOMAIN c.links |-> relink(c.links[j])]
      d == Max({0} \cup {r.d[ls[j].idx] + 1 : j \in DOMAIN ls})
      refs(k) == Cardinality({j \in DOMAIN ls : ls[j].idx = k})
      shift == r.last # InvalidDepth /\ ~r.outVisited /\ b.depth[n] # r.last
  IN  IF deleteBufs /\ c.type = "BUF"
      THEN [r EXCEPT !.m = [k \in DOMAIN @ \cup {i} |-> IF k = i THEN ls[1] ELSE @[k]],
                     !.bufs = @ + 1]
      ELSE [r EXCEPT
              !.m = [k \in DOMAIN @ \cup {i} |-> IF k = i THEN Link(n, FALSE) ELSE @[k]],
              !.e = [k \in 0 .. n |-> IF k = n THEN Cell(c.type, ls)
                                      ELSE [@[k] EXCEPT !.refcount = @ + refs(k)]],
              !.d = Grow(@, n + 1, d),
              !.last = d,
              !.outVisited = @ \/ (shift /\ c.type = "OUT"),
              !.bounds = IF ~shift THEN @
                         ELSE LET f == SetAt(@, r.last, <<@[r.last][1], n - 1>>)
                              IN  IF c.type = "OUT" THEN f ELSE SetAt(f, d, <<n, f[d][2]>>)]

\* rearrangeEntries and clearContext: the entries in topological order,
\* without the holes, in the implicit order.
rearrangeEntries(b, deleteBufs) ==
  LET order == Order(b)
      step[k \in 0 .. Len(order)] ==
        IF k = 0 THEN [e |-> << >>, d |-> << >>, m |-> << >>, last |-> InvalidDepth,
                       outVisited |-> FALSE, bounds |-> b.depthBounds, bufs |-> 0]
        ELSE Rearrange(b, step[k - 1], order[k], deleteBufs)
      r == step[Len(order)]
      implicit == [k \in DOMAIN r.e |-> NormalOrderID]
  IN  [b EXCEPT !.entries = r.e, !.depth = r.d, !.prev = implicit, !.next = implicit,
                !.depthBounds = r.bounds, !.nCell = @ - r.bufs, !.nBuf = @ - r.bufs,
                !.empty = << >>, !.begin = NormalOrderID, !.end = NormalOrderID,
                !.strash = << >>, !.isDisassembled = FALSE,
                !.fanoutsEnabled = FALSE, !.fanouts = << >>]

checkInputsOrder(b) == \A i \in 0 .. b.nIn - 1 : b.entries[i].type = "IN"

checkOutputsOrder(b) ==
  \A i \in Size(b.entries) - b.nOut .. Size(b.entries) - 1 : b.entries[i].type = "OUT"

\* Bug: the buffers of a builder in the implicit order are kept.
make_Bufs(b, deleteBufs) == IF b.isDisassembled THEN rearrangeEntries(b, deleteBufs) ELSE b

\* Bug: the holes are kept unless the buffers are deleted.
make_Holes(b, deleteBufs) == IF deleteBufs THEN rearrangeEntries(b, deleteBufs) ELSE b

\* The builder after make; its entries are the entries of the subnet made.
make(b, deleteBufs) ==
  LET b1 == IF b.isDisassembled \/ deleteBufs THEN rearrangeEntries(b, deleteBufs) ELSE b
  IN  Require(b1, checkInputsOrder(b1) /\ checkOutputsOrder(b1))
=============================================================================
