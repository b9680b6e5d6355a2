----------------------------- MODULE BuilderCalls -----------------------------
(***************************************************************************)
(* A SubnetBuilder under the calls its clients make: the translators and   *)
(* the synthesizers build a network, the optimizers replace fragments of   *)
(* it and ask for fanouts, and at last a subnet is made.                   *)
(*                                                                         *)
(* Every action is one public call.  Its guard is the call's documented    *)
(* precondition: links name cells of the network other than outputs, and a *)
(* cell is never made to depend on itself.                                 *)
(***************************************************************************)
EXTENDS SubnetReplace

CONSTANTS
  MaxOut,      \* bound on the number of outputs
  MaxEntries,  \* bound on the size of the entry array
  MaxCalls,    \* bound on the number of modifying calls (replace, replaceCell)
  Gates,       \* gate types to be added: a set of [type |-> t, arity |-> n]
  Invs,        \* inversion flags on the links of added cells
  Rhss,        \* replacement subnets
  Roots,       \* cell types that may be replaced
  Seeds,       \* networks to start with: sequences of cells to be added
  LateInput    \* whether cells may be added before the first input

ASSUME BoundsAssumption ==
  /\ MaxIn \in Nat /\ MaxOut \in Nat /\ MaxEntries \in Nat /\ MaxCalls \in Nat
  /\ Invs \subseteq BOOLEAN
  /\ "IN" \notin Roots
  /\ LateInput \in BOOLEAN

\* The arguments are what the clients pass: gates with inputs (but for constants;
\* a buffer has one), subnets, and networks that can be built.
ASSUME ArgumentsAssumption ==
  /\ \A g \in Gates : /\ g.type \in CellTypes \ {"IN", "OUT"}
                      /\ g.arity \in Nat /\ (g.arity = 0 => g.type \in {"ZERO", "ONE"})
                      /\ g.type = "BUF" => g.arity = 1
  /\ \A r \in Rhss : LegalRhs(r)
  /\ \A s \in Seeds : LegalSeed(s)

VARIABLES
  sb,      \* the builder
  made,    \* whether a subnet has been made of it
  calls,   \* the number of replacements so far
  spec,    \* what the outputs have to be (history)
  effect   \* the last replacement: the error of its predicted size, and whether
           \* it has left a buffer of an old cell (history)

vars == <<sb, made, calls, spec, effect>>

Links(S) == {Link(i, v) : i \in S, v \in Invs}

Room(b, n) == Size(b.entries) + n - Len(b.empty) <= MaxEntries

\* Link lists of length n over the cells of S, in the order of the entries (a
\* bound: the gates are commutative; Replace links cells in any order and twice).
LinkLists(S, n) ==
  {ls \in [1 .. n -> Links(S)] : \A j \in 1 .. n - 1 : ls[j].idx < ls[j + 1].idx}

\* The legal arguments of addCell, replaceCell and replace.
AddCalls(b) == UNION {[type : {g.type}, links : LinkLists(Drivers(b), g.arity)] : g \in Gates}

ReplaceCellCalls(b) ==
  UNION {[root : {i}, type : {g.type}, links : LinkLists(Before(b, i), g.arity)] :
           i \in {k \in Live(b) : b.entries[k].type \in Roots \ {"OUT"}}, g \in Gates}

\* The only input of a fragment may be its root (the trivial cut).
ReplaceCalls(b) ==
  UNION {[root : {i}, rhs : {r},
          ins : [1 .. r.nIn -> Before(b, i)] \cup
                (IF r.nIn = 1 /\ r.cells = << >> /\ ~r.out.inv /\ b.entries[i].type # "OUT"
                 THEN {<<i>>} ELSE {})] :
           i \in {k \in Live(b) : b.entries[k].type \in Roots},
           r \in {x \in Rhss : Room(b, Len(x.cells))}}

\* The callers here pass no callbacks.
Quiet(b) == [b EXCEPT !.log = << >>]

NoEffect == [error |-> 0, buffer |-> FALSE]

\* Whether the rhs output is an lhs cell found by the hash or an rhs input, so
\* that replace keeps the root as a buffer of that cell.
KeepsBuffer(b, c) ==
  LET e == newEntriesEval(b, c.rhs, c.ins, c.root)
  IN  b.entries[c.root].type # "OUT" /\ c.rhs.out.idx \in DOMAIN e.m

\* The cells that replacement c of builder b removed, less the ones it added, new
\* being the result.  A buffer that took the root's place does not count: make
\* deletes it.
SizeChange(b, c, new) ==
  LET buffer == (KeepsBuffer(b, c) \/ c.rhs.out.inv) /\ new.entries[c.root].type = "BUF"
  IN  b.nCell - new.nCell + (IF buffer THEN 1 ELSE 0)

Init ==
  /\ \E s \in Seeds : sb = Build(s)
  /\ made = FALSE
  /\ calls = 0
  /\ spec = Outputs(sb)
  /\ effect = NoEffect

Add(t, ls) ==
  /\ ~made /\ Room(sb, 1)
  /\ LateInput \/ t = "IN" \/ sb.nIn > 0
  /\ sb' = addCell(sb, t, ls).b
  /\ spec' = Outputs(sb')
  /\ effect' = NoEffect
  /\ UNCHANGED <<made, calls>>

AddInput == sb.nIn < MaxIn /\ Add("IN", << >>)

AddOutput == sb.nOut < MaxOut /\ \E l \in Links(Drivers(sb)) : Add("OUT", <<l>>)

AddGate == \E c \in AddCalls(sb) : Add(c.type, c.links)

\* The balancer passes delZeroRefcount = false.
ReplaceCell ==
  /\ ~made /\ calls < MaxCalls
  /\ \E c \in ReplaceCellCalls(sb), del \in BOOLEAN :
       /\ sb' = Quiet(replaceCell(sb, c.root, c.type, c.links, del))
       /\ spec' = OutputsWith(sb, c.root, GateValue(c.type, LinkValues(sb, c.links)))
  /\ calls' = calls + 1
  /\ effect' = NoEffect
  /\ UNCHANGED made

Replace ==
  /\ ~made /\ calls < MaxCalls
  /\ \E c \in ReplaceCalls(sb) :
       /\ sb' = Quiet(replace(sb, c.rhs, c.ins, c.root))
       /\ spec' = OutputsWith(sb, c.root,
                     RhsOutValue(c.rhs, [k \in DOMAIN c.ins |-> Value(sb, c.ins[k])]))
       /\ effect' = IF c.ins[1] = c.root THEN NoEffect
                    ELSE [error |-> evaluateReplace(sb, c.rhs, c.ins, c.root) - SizeChange(sb, c, sb'),
                          buffer |-> KeepsBuffer(sb, c)]
  /\ calls' = calls + 1
  /\ UNCHANGED made

EnableFanouts ==
  /\ ~made /\ ~sb.fanoutsEnabled
  /\ sb' = enableFanouts(sb)
  /\ UNCHANGED <<made, calls, spec, effect>>

DisableFanouts ==
  /\ ~made /\ sb.fanoutsEnabled
  /\ sb' = disableFanouts(sb)
  /\ UNCHANGED <<made, calls, spec, effect>>

\* A builder may be made twice (the technology mapper makes a subnet for its
\* report and the design makes another one later).
Make ==
  /\ sb.nOut > 0
  /\ \E deleteBufs \in BOOLEAN : sb' = make(sb, deleteBufs)
  /\ made' = TRUE
  /\ effect' = NoEffect
  /\ UNCHANGED <<calls, spec>>

Next ==
  \/ AddInput \/ AddOutput \/ AddGate \/ ReplaceCell \/ Replace
  \/ EnableFanouts \/ DisableFanouts \/ Make

Spec == Init /\ [][Next]_vars


-----------------------------------------------------------------------------
(* Properties.                                                             *)

\* The arrays have the same size and hold values of their types.
TypeOK == IsBuilder(sb) /\ made \in BOOLEAN /\ calls \in 0 .. MaxCalls

\* No assert of subnet.cpp fails and no array is read out of its range, in any
\* sequence of legal calls.
NoFault == ~sb.fault

\* The order is topological with the inputs first and the outputs last, however
\* cells have been moved, deleted and put into recycled slots: every pass,
\* simulator and encoder relies on it in a single sweep (EntryIterator).
Topological == OrderSound(sb)

\* The stored depth of a cell is the length of its longest path to the inputs,
\* although a replacement changes the depths of cells far from the root.
DepthExact == DepthsSound(sb)

\* getFirstWithDepth and getLastWithDepth return the first and the last cell of
\* the depth in the order, by which new cells are placed.  (rearrangeEntries
\* leaves the bounds of a made builder as they happen to be.)
BoundsExact == made \/ LevelsSound(sb)

\* The reference counter of a cell is the number of links to it and the slots
\* of the free list are the dead ones: deleteCell frees a cell exactly when its
\* last user goes, and no slot is given out twice.
CountersExact == CountersSound(sb)

\* With fanouts enabled, getFanouts returns the users of every live cell.
FanoutsExact == FanoutsSound(sb)

\* Every key of the structural hash leads to a live cell that has this key, so
\* addCell never returns a cell with other inputs or a recycled slot.
StrashSound == KeysSound(sb)

\* Replacing a cell or a fragment changes the network exactly as if the root had
\* been redefined as the new function of the inputs: no output depends on the
\* slots, the hash hits, the moves and the deletions involved, nor on later calls.
ReplaceSound == Outputs(sb) = spec

\* The subnet made of a builder computes the builder's outputs, with and
\* without its buffers, and has no holes.  (ReplaceSound covers a second make.)
MakeSound == ~made /\ sb.nOut > 0 => MakeIsSound(sb)

\* Effect::size, on which the optimizers decide, is the change in size whenever
\* the rhs output is a new cell: evaluateReplace repeats the hash lookups and the
\* reference counting of replace in code of its own.
EvaluateExact == ~effect.buffer => effect.error = 0
=============================================================================
