------------------------------ MODULE Balancer ------------------------------
(***************************************************************************)
(* The balancer (optimizer/balancer.cpp): inputs of a gate are exchanged   *)
(* with inputs of an equal gate below it so that the late ones come closer *)
(* to the output.  Cells are rewired one by one with replaceCell, which    *)
(* moves them and everything above them to other depths, while the loops   *)
(* go on with the depths they have read before, and the pass with the cell *)
(* that came next before the rewiring, which may have moved too.           *)
(*                                                                         *)
(* The cell types of the library that are associative are commutative too, *)
(* so balanceAssoc and the moves of operands in a fixed order are not      *)
(* reached.                                                                *)
(*                                                                         *)
(* An operator marked "Bug:" is a faulty variant of the operator after it. *)
(***************************************************************************)
EXTENDS SubnetNet

CONSTANT Nets  \* initial networks: sequences of cells to be added

VARIABLES
  sb,    \* the builder
  it,    \* the cell to be balanced; UpperBoundID: the pass has ended
  spec   \* what the outputs have to be (history)

vars == <<sb, it, spec>>

isAssociative(t) == t \in {"AND", "OR", "XOR", "XNOR"}

\* Bug: a gate with other users is rewired.
canBalanceAssoc_Shared(b, u, d) ==
  isAssociative(b.entries[u].type) /\ b.entries[u].type = b.entries[d].type

\* The gate d below u is of the same type and has no other users.
canBalanceAssoc(b, u, d) ==
  /\ isAssociative(b.entries[u].type)
  /\ b.entries[u].type = b.entries[d].type
  /\ b.entries[d].refcount <= 1

\* Majority gates with the same cell in the middle, a shallow operand above and a
\* deep one below.
canBalanceCompl(b, u, d, swap) ==
  LET us == b.entries[u].links
      ds == b.entries[d].links
  IN  /\ b.entries[u].type = "MAJ" /\ b.entries[d].type = "MAJ"
      /\ Len(us) = 3 /\ Len(ds) = 3
      /\ b.entries[d].refcount = 1
      /\ ds[2].idx = us[2].idx
      /\ b.depth[swap] < b.depth[IF us[1].idx = d THEN ds[1].idx ELSE ds[3].idx]

canBalance(b, u, d, swap) == canBalanceCompl(b, u, d, swap) \/ canBalanceAssoc(b, u, d)

\* maj(maj(x, m, y), m, z) = maj(maj(z, m, y), m, x).
balanceComplAssoc(b, i) ==
  LET us == b.entries[i].links
      first == canBalance(b, i, us[1].idx, us[3].idx) /\ ~us[1].inv
      last == canBalance(b, i, us[3].idx, us[1].idx) /\ ~us[3].inv
      d == us[IF first THEN 1 ELSE 3].idx
      ds == b.entries[d].links
  IN  IF ~first /\ ~last THEN b
      ELSE replaceCell(replaceCell(b, i, "MAJ", IF first THEN <<us[1], us[2], ds[1]>>
                                                ELSE <<ds[3], us[2], us[3]>>, FALSE),
                       d, "MAJ", IF first THEN <<us[3], ds[2], ds[3]>>
                                 ELSE <<ds[1], ds[2], us[1]>>, FALSE)

-----------------------------------------------------------------------------
(* balanceCommutAssoc.  x.b is the builder, x.links the future inputs of   *)
(* the cell, x.in those of the gate below, x.byDepth the inputs of the     *)
(* cell in increasing order of the depths they had at first, d the depth   *)
(* the cell had at first.                                                  *)

\* The link below changes places with the shallowest input.
Exchange(x, below, t, l) ==
  LET up == Append(RemoveFirst(x.links, x.byDepth[1].link), l)
      down == Append(RemoveFirst(x.in, l), x.byDepth[1].link)
  IN  [b |-> replaceCell(x.b, below, t, down, FALSE), links |-> up, in |-> down,
       byDepth |-> Tail(x.byDepth), isOptimizable |-> TRUE]

\* Bug: inputs are exchanged also if nothing is gained.
TryExchange_Any(x, below, t, d, l) == IF x.byDepth = << >> THEN x ELSE Exchange(x, below, t, l)

\* Bug: a gain of one level is missed.
TryExchange_Two(x, below, t, d, l) ==
  IF x.byDepth = << >> \/ x.byDepth[1].depth + 3 >= d \/ x.b.depth[l.idx] + 2 # d THEN x
  ELSE Exchange(x, below, t, l)

TryExchange(x, below, t, d, l) ==
  IF x.byDepth = << >> \/ x.byDepth[1].depth + 2 >= d \/ x.b.depth[l.idx] + 2 # d THEN x
  ELSE Exchange(x, below, t, l)

\* One of the latest inputs of the cell, and a gate that can be rewired.
Swappable(x, i, d, l) ==
  canBalanceAssoc(x.b, i, l.idx) /\ x.b.depth[l.idx] + 1 = d /\ ~l.inv

BalanceInput(x, i, t, d, l) ==
  IF ~Swappable(x, i, d, l) THEN x
  ELSE FoldLeft(LAMBDA y, k : TryExchange(y, l.idx, t, d, k),
                [x EXCEPT !.in = x.b.entries[l.idx].links], x.b.entries[l.idx].links)

Rewired(x, i, t) == IF x.isOptimizable THEN replaceCell(x.b, i, t, x.links, FALSE) ELSE x.b

balanceCommutAssoc(b, i) ==
  LET c == b.entries[i]
      keyed == [j \in DOMAIN c.links |-> [depth |-> b.depth[c.links[j].idx], link |-> c.links[j], at |-> j]]
      less(p, q) == p.depth < q.depth \/ (p.depth = q.depth /\ p.at < q.at)
  IN  IF Len(c.links) < 2 THEN b
      ELSE Rewired(FoldLeft(LAMBDA x, l : BalanceInput(x, i, c.type, b.depth[i], l),
                            [b |-> b, links |-> c.links, in |-> << >>, byDepth |-> SortSeq(keyed, less),
                             isOptimizable |-> FALSE], c.links), i, c.type)

BalanceOnce(b, i) ==
  CASE isAssociative(b.entries[i].type) -> balanceCommutAssoc(b, i)
    [] b.entries[i].type = "MAJ" -> balanceComplAssoc(b, i)
    [] OTHER -> b

\* The cell is balanced as long as its depth decreases.
RECURSIVE balanceOnEntry(_, _)
balanceOnEntry(b, i) ==
  LET again(c) == IF c.depth[i] < b.depth[i] /\ ~c.fault THEN balanceOnEntry(c, i)
                  ELSE Require(c, c.depth[i] = b.depth[i])
  IN  again(BalanceOnce(b, i))

-----------------------------------------------------------------------------
(* The pass (transform).                                                   *)

Init ==
  \E net \in Nets :
    \E b \in {Build(net)} : sb = b /\ it = getSubnetBegin(b) /\ spec = Outputs(b)

\* All cells are visited, inputs and outputs too; saveNext is read first.
Balance ==
  /\ it # UpperBoundID
  /\ sb' = [balanceOnEntry(sb, it) EXCEPT !.log = << >>]
  /\ it' = getNext(sb, it)
  /\ UNCHANGED spec

Next == Balance

Spec == Init /\ [][Next]_vars

-----------------------------------------------------------------------------
(* Properties.                                                             *)

\* Whatever is exchanged, with the stale depths the loops use: the outputs stay the
\* same (the equivalence the tests of the balancer check), no assert fails, the
\* assert on the depth of the balanced cell included, and order, levels, depths and
\* counters are those of the rewired network.
BalanceSound ==
  /\ ~sb.fault
  /\ Outputs(sb) = spec
  /\ OrderSound(sb) /\ LevelsSound(sb) /\ DepthsSound(sb) /\ CountersSound(sb)

\* No output gets deeper when a cell below it is balanced, although late inputs of
\* one gate become inputs of another one.
NeverDeeper ==
  [][\A i \in Live(sb) : sb.entries[i].type = "OUT" => sb'.depth[i] <= sb.depth[i]]_vars

\* The depth of gate u if its j-th input changed places with the k-th one of gate d.
ExchangedDepth(b, u, d, j, k) ==
  LET us == b.entries[u].links
      ds == b.entries[d].links
      below == DepthOver(b, [ds EXCEPT ![k] = us[j]])
      depth(l) == IF l.idx = d THEN below ELSE b.depth[l.idx]
  IN  1 + Max({depth([us EXCEPT ![j] = ds[k]][n]) : n \in DOMAIN us})

\* One pass is enough: when it has ended, no single exchange between a gate and an
\* equal gate that is its own makes the gate shallower, although the gates were
\* balanced one by one while the depths of their inputs still changed.
Settled ==
  it = UpperBoundID =>
    \A u \in Live(sb) : isAssociative(sb.entries[u].type) =>
      \A n \in DOMAIN sb.entries[u].links :
        LET l == sb.entries[u].links[n]
        IN  canBalanceAssoc(sb, u, l.idx) /\ ~l.inv =>
              \A j \in DOMAIN sb.entries[u].links \ {n}, k \in DOMAIN sb.entries[l.idx].links :
                ExchangedDepth(sb, u, l.idx, j, k) >= sb.depth[u]
=============================================================================
