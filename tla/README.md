# Verification of Utopia EDA (hlimds) in TLA+

Utopia EDA is a logic synthesis tool: it reads a design, splits it into
combinational *subnets*, optimizes each subnet by local replacements, maps it to
library cells and writes it back. This directory models the parts of it whose
state is hard to keep right, checks them with TLC on small instances and proves
theorems about them with TLAPS. Source paths below are relative to the
repository's `src/`.

## 1. Inventory

| Component | State | Operations | What makes it correct |
|---|---|---|---|
| `gate/model/subnet.{h,cpp}`: `SubnetBuilder` | entry array, linked order, depth bounds, free list, structural hash, fanouts, counters | add, delete, replace, merge cells; make | all redundant parts describe one network, in topological order |
| same: `replace`, `evaluateReplace` | (the builder) | replace a fragment by a subnet; predict the effect | the function changes only at the root; the prediction is what happens |
| `gate/model/design.h`: `DesignBuilder` | per subnet: a subnet or a builder, check points | make on demand, save, rollback | one network per entry; points complete and stable |
| `shell/`: commands | the loaded design; the context's design and library | read, delete, optimize, map, unmap, save, go to | the function of the design never changes; guards see what they are meant to see |
| `gate/techmapper` | partial solutions over cuts | map, unmap | same function; all subnets or none |
| `gate/optimizer`: passes, `SafePasser`, rewriter, refactorer, resubstitutor, balancer | a position in the builder being changed | visit, replace | every cell visited, none after its death |
| cuts, MFFC, reconvergence, conflict graph | cut sets per cell | extract, merge, dominate | cuts are cuts, and bounded |
| `gate/optimizer/synthesis`, `gate/premapper`, `gate/synthesizer` | none | functions from truth tables or operands to networks | the network computes the function |
| `gate/debugger`, `gate/simulator`, `gate/function` | mitre, solver, sample storage | check equivalence | verdicts are sound |
| `gate/model/net*`, `decomposer`, `storage`, `base/` | cells and links, object ids; components, mappings of pins to entries | build, split into subnets and back | components are closed and disjoint; the composition is the original |
| estimators, criterion, library, translators, printers, rtl, diag, util | costs, tables, text | - | mostly numeric or textual |

*Interaction.* Everything is called synchronously, from one thread: a command
runs passes over all subnets of the design; a pass takes the builder of an entry,
asks `evaluateReplace` and calls `replace`; reading a subnet makes it. What is hard
here is not concurrency but *aliasing in time*: indices, references and summaries
that survive a later change. The builder's array slots are recycled, six
redundant structures are updated by hand in every operation, a pass walks over
the order it is changing, the prediction of a replacement is separate code from
the replacement, the shell and the technology mapper hold references to designs of
their own, the mapping between a net's pins and subnet entries is made once and used
after every optimization, and a mapping may fail between two subnets. `PROJECT.json` lists these
hazards at their lines.

## 2. Modules

| Module | Models |
|---|---|
| `SubnetBuilder` | the class: every method is an operator from builder to builder. The record's fields are the class's members. A failed assert or an index out of range sets `fault`. |
| `SubnetNet` | what a builder means: the function of each cell (as a set of input assignments), and when order, levels, depths, counters, fanouts and hash agree with the cells |
| `SubnetReplace` | `replace` and the size component of `evaluateReplace` |
| `BuilderCalls` | a builder under legal calls of its public methods: `AddInput`, `AddOutput`, `AddGate`, `ReplaceCell`, `Replace`, `EnableFanouts`, `DisableFanouts`, `Make` |
| `MergeCalls` | a builder under `mergeCells`, `replaceWithZero`, `replaceWithOne` |
| `CutExtractor` | k-feasible cuts of a cell from those of its inputs, and the reconvergence-driven cut |
| `Passes` | the rewriter and the refactorer (`rw`, `rwz`, `rf`, `rfz`) with the iterator `SafePasser`, composed with `SubnetReplace`: `ReplaceNode` or `Skip` at a cell, then `Step` (`++iter`) |
| `Balancer` | the balancer, composed with `replaceCell`: one `Balance` step per cell of the order |
| `NetDecomposer` | the traversal of a net that extracts its components, one link per step |
| `Components` | abstract specification of the decomposition: the cones of the outputs, merged where they meet |
| `ComponentsProofs` | theorems about `Components` |
| `NetDecomposerProofs` | theorems about `NetDecomposer`: that it implements `Components`, its signal types, and the order of the gates |
| `NetworkProofs` | what the primitives of a builder keep: placing, counting, listing, hashing and deleting cells, up to `addCell` and `deleteCell` |
| `BuilderProofs` | theorems about `BuilderCalls`: its safety invariants, under every sequence of calls |
| `ValueProofs` | theorem about `BuilderCalls`: a replacement changes the function at its root only |
| `LoopProofs` | that the runs of the loops in `SubnetBuilder` and `SubnetReplace` exist |
| `DataLemmas` | lemmas on numbers, recursion and sequences that the proofs need |
| `DesignNet` | `NetDecomposer` composed with the rest of a design's life: subnets with their mappings and arcs (`Initialize`), optimizations (`TakeApart`, `Simplify`), `SavePoint`, `Rollback`, `ReplaceCell` (a flip-flop by a library cell), and the composition of a net from the current subnets (`Make`) or from those of a check point (`MakePoint`) |
| `Synthesizer` | the soft block synthesizers: `synthSoftBlocks` synthesizes a block of any operation, with any widths and operands |
| `Shell` | designs, check points, context and the commands that change them, one action per command |
| `DesignStore` | abstract specification of a session: a store of designs with a current and with named versions |
| `ShellProofs` | theorems about `Shell`, and that it implements `DesignStore` |
| `MCBuilder`, `MCMerge`, `MCPasses`, `MCBalancer`, `MCDesign`, `MCSynthesizer`, `MCShell` | instances for TLC |

*Abstraction.* Cells have one output and at most three links (no link entries);
weights, sessions and simulation bits are left out. The callbacks of `replace`
are collected in a log, in their order, with what the callee can see; `Passes` applies
them. The resynthesizer of a pass may return any cone of a given set that has the value of the
root in the network, or none: which one is the best is left open. Special entry IDs,
which are huge unsigned numbers in the code, are negative numbers.

In `Balancer` the branches for types that are associative but not commutative
(`balanceAssoc`, `moveOp`) are left out: the library has no such type, so they are dead.

In `NetDecomposer` and `DesignNet` cells have one output port and there are no soft or
hard blocks and no latches. The components of a net are kept in hash tables, in
whose order `makeSubnet` enumerates inputs and outputs: both the order of the net
and its reverse are possible. The optimizations of a design are two
representative ones that keep the function and change the array of the subnet,
one that makes it longer and one that makes it shorter: what matters to the
composition is where the mapped outputs are found afterwards.

In `Synthesizer` a link of the subnet under construction is the value it carries:
a synthesizer is a function from the values of its operands to those of its
outputs, and the code that chooses which links to combine is kept. A link that the
code default-constructs refers to entry 0, and has the value of the first input.
Division is not implemented by the code: such a block stays without a subnet.

In `Shell` a network is its function and its kind: logical, technological, or
without gates; passes, mapper and unmapper choose any network with the same function
and an admissible kind, so their own correctness is an assumption there. `make` is a function `Made`
that keeps the function and may lose buffers: that this holds of the real `make` is what
`MakeSound` checks. An assert that fails ends the session (`aborted`).

Operators marked `Bug:` are faulty variants of the operator that follows. No
specification uses them; put in its place they make one of the properties fail,
which shows that the property depends on the code it is about.

*Refinements.* `ImplementsStore` (in `Shell`) maps a design to the version made of
the networks of its entries, whether they are subnets or builders, and a check point to
the version it stores: sessions are then sessions of the store, whatever was made, failed or
is reached by a second reference. `ImplementsComponents` (in `NetDecomposer`) maps the
traversal to `Components`: a link on the way changes nothing, and the link that completes
an output adds its cone to the components.

## 3. Runs

All systems are sequential, so a state with no more calls is a normal end:
deadlock is not checked, except for `design`, where a net can always be composed.
Fairness is assumed in two modules. In `Passes`, a pass is a loop in
one thread that nothing interrupts, so it neither stops at a cell (`Skip` is
enabled there until the cell has been processed) nor between two cells (`Step`).
In `DesignNet`, the traversal is such a loop too (`Extract`).
Elsewhere no liveness is stated: the modelled code never waits, and its loops
are functions on intervals, folds or recursive operators whose evaluation by TLC ends.

| Run | Bounds | Checks |
|---|---|---|
| `builder` | all networks of at most five entries over AND, BUF and a constant, two inputs, one output, one replacement at any moment | `TypeOK`, `NoFault`, `BoundsExact`, `FanoutsExact`, `StrashSound` |
| `nets` | two networks of seven and eight cells with shared and chained cells, any two replacements at any root by any of four rhs, links in any order | `Topological`, `DepthExact`, `CountersExact`, `ReplaceSound`, `MakeSound`, `EvaluateExact` |
| `merge` | two networks of eight cells, three calls, up to two removed cells per call, every order of removal | `MergeSound`, `MergedNetSound`, `LevelsKept`, `MergedMake` |
| `passes` | four passes over two networks of eleven and thirteen cells with three inputs, cuts of three leaves, eleven cones for the resynthesizer to choose from at every cell | `PassSound`, `SafeVisits`, `CutsFresh`, `Terminates` |
| `balance` | 1136 networks of four inputs and up to five gates: chains of equal and of alternating gates, shared gates, inverted links, gates of three operands, majority gates with equal middle operands | `BalanceSound`, `Settled`, `NeverDeeper` |
| `design` | 576 nets of three gates, two inputs, two outputs and a flip-flop; some of them also with two edits, a check point, a library flip-flop | `TypeOK`, `InnersTopological`, `SignalsSound`, `ComposeSound`, `NetFanoutsExact`, `ArcsExact`, `ImplementsComponents`, `ExtractionEnds` |
| `synth` | all operands of up to four bits (adders, products to one to nine bits, comparisons; fewer for the rest), eight words each of chosen widths of up to sixteen bits, output widths from one bit to more than the result has (of split products those that are wide enough, see below), one, two and three selecting bits | `ArithmeticExact`, `ComparisonsExact`, `SelectionExact` |
| `shell` | two design objects with two subnets, two names of points, eight commands | `TypeOK`, `Consistent`, `PointsComplete`, `FunctionKept`, `MappedGuard`, `CheckpointsStable`, `ImplementsStore` |
| `outroot` | as `nets`, outputs may be replaced | violates `ReplaceSound` |
| `majority` | chains of majority gates with the same cell in the middle, once inverted | violates `BalanceSound` |
| `demux` | a demultiplexer of one selecting bit and two bits | violates `DemuxIndexed` |
| `context` | as `shell` | violates `ContextCurrent` |

Why the bounds are enough: five entries are the least for which a replacement
can delete a cell whose slot a new cell takes while a hash key, a bound and a fanout
have named it; the seeds of `nets` have a cell with users at two depths behind a
root, so that a replacement moves cells which move others; two calls let the
second one meet recycled slots and an explicit order. With three merges a cell may be both
remaining and removed in turn. The networks of `passes` have a root that becomes shallower by two
levels with users that move before the iterator and cells of its own depth behind
it, and one that becomes deeper without change of cost. The chains of `balance` are as long
as it takes for an exchange at the top to undo or to enable one below, with a user
that must not see the change. In `design` the third output passed may touch
none, one or two finished components, a gate may be reached as data and as clock,
and an output may come straight from a flip-flop. The words of `synth` cross every
power of two at which the prefix adder, the recursive multiplier and the
cascade of comparisons change their shape. In the shell, two subnets
are the least for a mapping that fails in the middle, two objects the least for
a stale context, and eight commands reach load, map, save, delete, load, optimize,
save, go to in one session.

What the runs show, beyond the properties that hold:

* `outroot`: replacing at an output cell that changes its depth moves the output
  behind the other outputs. With a single output nothing is seen; with two, the outputs of
  the made subnet are exchanged.
* `majority`: the exchange of operands of nested majority gates compares the middle
  operands by the index of their cell and not by their inversion. With operands
  `m` and `~m` it changes the function.
* `demux`: all elements of the upper half of the outputs are assigned to one place.
  The others keep a default-constructed link. (With one bit the index is
  outside of the list.)
* `context`: `techmap` and `unmap` keep working on a deleted design.

Where a passing property is weaker than a comment in the code suggests, the reason is
this:

* `EvaluateExact` leaves out the replacements whose rhs output is a cell that the
  builder already has: `replace` keeps the root as a buffer, whose reference
  `evaluateReplace` does not count.
* `SafeVisits` does not say that every node is visited (`rewriter.h:24`): a cell that a
  replacement moves before the saved next cell is not. The stored cuts stay right all the same
  (`CutsFresh`), because the rewriter recomputes the cuts of exactly the cells
  that it will not come by (`PassedOver`); nothing is claimed of the missed optimization.
* `CheckpointsStable` and `ImplementsStore` let `save` succeed without effect: under
  a name in use the old check point is kept.
* `MappedGuard` does not say that all subnets are mapped or none: a failed mapping
  leaves a mixed design. If the first subnet has logical gates, no subnet is technological.
* `SignalsSound` says that the signal type of an input is that of some path to an output:
  an input that reaches outputs of two types keeps one of them.
* `ArithmeticExact` is claimed of a product only if it asks nowhere on the way for a product of
  one bit of operands of several bits, or of none (`WideEnough`), although `celltype.h:305` documents `OUT = X*Y`
  for every width. A product of one bit is taken to be the conjunction of the most significant bits
  (`multiplication.cpp:170`), where it should be that of the least significant ones: 2 x 2 bits to
  one bit is wrong. With operands split at `k` bits, an output of `k + 1` bits is wrong too (5 x 5 to
  4, 9 x 9 to 6), also where only an inner product is so narrow (10 x 10 to 9), and one
  of `k` bits fails an assert. This is a defect of the code, which the run `synth` does not show.
  The unsigned subtractor adds its outputs twice (`addition.cpp:99`); the first ones are compared.
* `SelectionExact` takes the first selecting bit of `MUX` for the most significant one
  (`multiplexer.cpp:125`), as the code does, and that of `DEMUX` for the least significant one, as the code
  does too (`DemuxIndexed` as well): the two read the same `INDEX(S)` of `celltype.h:205` and
  `celltype.h:215` in opposite orders. `BMUX` is compared with its documented table, `BDEMUX`
  and `DEMUX` of one bit with `OUT[s][i]`.

Known limits of the passing runs: `LateInput = FALSE` keeps cells from being
added before the first input. A constant added first, and then an input, leaves the first bound
of depth 0 at the constant (`addDepthBounds`), and `BoundsExact` does
not hold. The calls are legal by construction: `replaceCell` asserts that a cell of the
new type can be hashed, or that an output stays one (`subnet.cpp:1362`), which all arguments
satisfy (gates other than inputs and outputs, of at most three links), so that assert is not a source of
`fault`. `BoundsExact` is not claimed for a builder after `make`, because
`rearrangeEntries` shifts only some of the bounds. `MergeCalls` keeps fanouts
disabled: `mergeCells` redirects a link before it deletes the fanout, so it does
not maintain them.

## 4. Proofs

`ShellProofs` proves, for any number of designs, subnets, check points, networks
and commands:

* `TypeCorrect`: `Spec => []TypeOK`
* `SubnetOrBuilder`: `Spec => []Consistent`
* `PointsAgree`: `Spec => []PointsComplete`
* `FunctionPreserved`: `Spec => []FunctionKept`
* `FirstSubnetDecides`: `Spec => []MappedGuard`
* `PointsStable`: `Spec => CheckpointsStable`
* `Refinement`: `Spec => ImplementsStore`

*Assumptions.* `ObjectsAssumption` (the null values are not objects, there is a
subnet), `StructuresAssumption` (every network has a function and a kind),
`MadeAssumption` (`make` keeps the function, and the kind unless only buffers
made the network logical) and `FilesAssumption` (what is read has no library cells).

*Argument.* None of the properties is inductive by itself: `rollback` copies
check points into the design, so what holds of the design must hold of all check points;
that a saved subnet exists follows from `PointsComplete` only; and `save` copies
what `make` returned, which needs `Consistent` to be a network at all. The
inductive invariant `Inv` is `TypeOK` together with `DesignOK` of every live design, which
says all of this of one design. For each operation of `DesignBuilder` (make, set
builders, save, rollback) one lemma says that it keeps `DesignOK`; two lemmas lift
an operation on the loaded design and one on the context's design to the session,
where both references may name the same object; `NextInv` has one step per
command. `PointsStable` uses `Inv` and one lemma per operation about the check points only.

`Refinement` rests on `Inv` in the states before and after a step: a design and
all its check points compute what the design computed when it was loaded. A command
that keeps that origin and the names therefore takes the current version to an equivalent one,
which is a `Rewrite` of the store (or a stutter, which is a `Rewrite` to the same
version); `OperationsKeepNames` says which operations these are. `save` under a
new name is a `Name`: the subnets it has made are both the current version and the
named one. Loading is `Open`, `delete_design` is `Close` if the context does not
hold the object, and leaves the version in the store if it does.

`ComponentsProofs` proves, for every graph of gates, finite or not, cyclic or not:

* `ComponentsSound`: `Spec => [](Disjoint /\ SelfContained /\ Finest /\ NoDeadGates)`

The four are one inductive invariant together with `PartsType`: that merging
the touched components with the new cone leaves it closed and disjoint from the
rest is set algebra once the cone is known to be the least closed set with the source (`ConeLeast`);
that the result cannot be divided needs that a cone lies in one half of any division (`ConeWhole`)
and that every component it touches follows it.

`NetDecomposerProofs` proves about the traversal of the code
(`DecomposerSpec`), for every set of nets of any size:

* `Refinement`: `DecomposerSpec => ImplementsComponents`
* `ComponentsFound`: `DecomposerSpec => [](Disjoint /\ SelfContained /\ Finest /\ NoDeadGates)`,
  of the components that the traversal has completed
* `SignalsSoundness`: `DecomposerSpec => []SignalsSound`
* `InnersInOrder`: `DecomposerSpec => [](IsAcyclic(net) => InnersTopological)`

*Assumptions.* `NetsAssumption`: a net is what `NetBuilder` guarantees (`IsNet`): links are to
inputs, flip-flops and gates of the net, flip-flops have at most the four pins of
`getSignalType`, and the lists of outputs and flip-flops name a cell once. Loops of gates
are not excluded: the first three theorems hold with them. The order of the gates is a matter
of nets without loops (`IsAcyclic`); in a net with a loop no order exists.

*Argument.* The state of the traversal is between two outputs most of the
time, so the invariant `Inv` describes a cone that is half done: every gate met is listed or on the
stack; all links of a listed gate, and the links already passed of a gate on the
stack, lead to something met (`IsSeen`: an input noted, a gate met, or a gate
of a component that will be merged); and everything met is in the cone of the output.
`StoreInv` adds that a completed component has all that its gates depend on and that `belongsTo`
names the one component of a gate. Back at the outputs the stack holds no gates, so
the gates listed and those to be merged are closed under links: they contain the cone, because it is
the least closed set, and nothing but the cone and the components it touches
(`MakeParts`). Hence completing an output is `AddOutput` of `Components`, and every other iteration is a
stutter (`TraverseInv`). The components found then have the properties proved in
`ComponentsProofs`, which `NetDecomposerProofs` instantiates with the refinement mapping.

The order needs a stronger invariant (`OrderInv`): the gates on the stack are a path of links,
so a gate left that depended on one on the stack would close a loop
(`NoLoop`), and the gates of the component under construction depend only on earlier
ones and on gates owned by other components. `mergeComponents` puts those in front,
which is why its order matters (`MergeOrdered`).

`mergeComponents` and the concatenation of the outputs' links are recursive over the length of a list. What they
compute is proved with a least counterexample (`LeastNumber` in `DataLemmas`) in the place of
an induction scheme.

`BuilderProofs` (on `NetworkProofs` and `LoopProofs`) and `ValueProofs` prove about a
builder under the calls of `BuilderCalls`, for arrays of any size, gates of any of the types (the
proofs do not need the limit of three links), any replacement subnets and any number of replacements:

* `BuilderInvariant`: `Spec => []BuilderInv`, the inductive invariant
* `StrashAlwaysSound`: `Spec => []StrashSound`
* `FanoutsAlwaysExact`: `Spec => []FanoutsExact`
* `BoundsAlwaysExact`: `Spec => []BoundsExact`
* `OrderTopological`: `Spec => [](~made => Topological)`
* `DepthsAlwaysExact`: `Spec => [](~made => DepthExact)`
* `CountersAlwaysExact`: `Spec => [](~made => CountersExact)`
* `TypeCorrect`: `Spec => [](~made => TypeOK)`
* `NoAssertFails`: `Spec => [](~made => NoFault)`
* `ReplacedSoundly` (in `ValueProofs`): `Spec => [](~made => ReplaceSound)`

*Assumptions.* `BoundsAssumption` and `ArgumentsAssumption` say which calls are legal: a gate has links,
but for constants, a buffer has one; a replacement subnet and a network to start with are lists
of gates whose links lead to earlier ones. Each theorem assumes `~LateInput` and `"OUT" \notin
Roots`: a cell added before the first input breaks the bound of depth 0, as said above, and an output as
the root of `replace` breaks the order of the outputs (run `outroot`).

*Argument.* The invariant `BuilderInv` says that the builder is `Sound` until it is made: some
numbering `p` of the live cells is their order, and order, bounds, depths, counters, free list, fanouts
and hash are those of the cells (`Net`). After `make` it says what `make` leaves alone: keys and
fanouts (`Kept`). Inside a call the parts of a builder disagree, so the lemmas are about `Core`, in which the links to be
counted are a set of tokens of its own, and only between two calls the links of the
live cells. `NetworkProofs` shows what `placeAfter`, the depth bounds, `addLink`, `delLink` and
the hash keep, and then `addCell` and `deleteCell`, whose queue holds the cells that
nothing uses any more. `replaceCell` is followed through the states in which it
breaks the invariant: the new links are counted before the old ones are dropped (`Rewiring`,
`Dropped`), the cell is rewritten at its old place (`Put`), and the cells above it are moved one by
one by a walk that reads the order it changes (`Walking`). The walk stops when its counter of
references is used up; the invariant says that the counter is the number of links to moved cells from cells
that are still ahead, so nothing that has to move is left behind.

For the values, the recursive definition of `Value` is shown to have a solution in an ordered network,
and two networks to agree on every set of cells closed under links on which they have the same
gates (`ValuesAgree`, by the least cell in the order on which they would differ). Moves and deletions
change no gate that is left (`Keeps`), and the root rewritten is the root redefined. The hash compares bags of
links, and the value of a gate depends on the bag only (`GateBag`), majority gates included.
`replace` is then followed entry by entry of the replacement subnet (`Progress`).

Loops are functions on intervals in the models. That a run of a loop exists is proved once for all of
them (`LoopProofs`), by the least step at which a run that is long enough would not exist
(`LeastNumber`).

*Only model-checked.* Of the builder: after `make`, `TypeOK`, `NoFault`, `Topological`, `DepthExact`,
`CountersExact` and `ReplaceSound`, and `MakeSound`, since `rearrangeEntries` gives every cell a new slot and nothing
of the invariant survives as it is; `EvaluateExact`; and `mergeCells` (`MergeCalls`). Passes,
balancer, synthesizers and what comes after the extraction in `DesignNet` (subnets, arcs, composition): they use
recursive operators, which keep theorems out of the modules. The liveness
properties `Terminates` and `ExtractionEnds`: the prover does not support fairness.

## 5. Plan

Done so far: builder, replacement, merging, passes, balancing, the decomposer and
the composition of designs, soft block synthesizers, the shell, the two abstract
specifications, and the proofs about shell, decomposer, builder and replacement. Left, in this order:

1. The other passes on top of `Passes`: resubstitution, the lazy refactorer, the reverse passer.
2. MFFC, subnet views, the conflict graph: pure operators against reference definitions.
3. Wide cells: link entries in `allocEntry`, `getLinkIndices`, sessions and marks.
4. Premappers and two-level minimization: operators checked against truth tables.
5. Technology mapper (dynamic programming over cuts), solution spaces, NPN transformations.
6. Equivalence checkers: mitre, verdicts, simulation storage.
7. Proofs: what `make` leaves (`Topological`, `CountersExact` and `MakeSound` of the array after
   `rearrangeEntries`), and `mergeCells`, from the lemmas of `NetworkProofs`.

## 6. Not modelled

Left out for good: text formats, printers, Liberty parsing, logging and
floating-point cost models, and the RTL front end, which the shell does not use.
Most of the lines of the repository are libraries kept in it (`lib/`: SQLite, JSON, CLI11,
easylogging++, AIGER), of which nothing is modelled.

Hazards that the models abstract from, and no property covers: `replace` holds a reference to
the root's cell while `addCell` may reallocate the array (`subnet.cpp:565`); the
new reference counter is truncated to 16 bits where the cell has 20
(`subnet.cpp:917`); the move constructor of `EntryDescriptor` copies `prev` into three other
members (`subnet.h:1032`); a library object exists before the first Liberty file has been
found (`read_liberty.h:33`); the default mapping of the checkers counts cells where
a builder's array may have holes (`base_checker.cpp:115`).
