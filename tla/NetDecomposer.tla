---------------------------- MODULE NetDecomposer ----------------------------
(***************************************************************************)
(* The extraction of the components of a net                               *)
(* (gate/model/decomposer/net_decomposer.cpp): a depth-first traversal     *)
(* from the outputs of the net and the inputs of its flip-flops back to    *)
(* the primary inputs and the flip-flops' outputs.  Every output starts a  *)
(* component; a gate that an earlier component owns makes the two one.     *)
(* The gates of a component are listed in the order in which the traversal *)
(* leaves them.                                                            *)
(*                                                                         *)
(* A net is a record: the types and the links of its cells and the lists   *)
(* of its inputs, outputs and flip-flops.  Cells have one output port;     *)
(* blocks (soft and hard ones) are left out.                               *)
(*                                                                         *)
(* An operator marked "Bug:" is a faulty variant of the operator after it. *)
(***************************************************************************)
EXTENDS Integers, Sequences, FiniteSets, FiniteSetsExt, SequencesExt

CONSTANTS
  Nets,      \* nets to be decomposed
  GateIDs,   \* names of the combinational cells
  NoCell     \* OBJ_NULL_ID

VARIABLES
  net,      \* the net
  context   \* NetTraversalContext

decomposerVars == <<net, context>>

Signals == {"DATA", "CLOCK", "RESET", "SET"}

DFFs == {"DFF", "DFFrs"}

\* getSignalType: what the pin of a flip-flop is for.
getSignalType(n, c, port) ==
  IF n.type[c] \in DFFs THEN <<"DATA", "CLOCK", "RESET", "SET">>[port] ELSE "DATA"

\* The link comes from a primary input or a flip-flop.
isInputLink(n, source) == n.type[source] \in {"IN"} \cup DFFs

\* The links of a cell: gates pass on the signal type of the link by which the
\* traversal has come to them.
fillLinks(n, c, signals) ==
  [j \in DOMAIN n.links[c] |->
     [source |-> n.links[c][j], target |-> c, port |-> j,
      signal |-> IF signals = {} THEN getSignalType(n, c, j) ELSE CHOOSE s \in signals : TRUE]]

\* What the builder of a net guarantees: links are to inputs, flip-flops and gates of
\* the net, flip-flops have the pins of getSignalType, and the lists of outputs and
\* flip-flops name a cell once.  A loop of gates is not excluded.
IsNet(n) ==
  /\ DOMAIN n.links = DOMAIN n.type
  /\ NoCell \notin DOMAIN n.type
  /\ \A c \in DOMAIN n.type :
       /\ n.links[c] \in Seq(DOMAIN n.type)
       /\ \A s \in ToSet(n.links[c]) : s \in GateIDs \/ isInputLink(n, s)
       /\ c \in GateIDs => ~isInputLink(n, c)
       /\ n.type[c] \in DFFs => Len(n.links[c]) <= 4
  /\ n.outputs \in Seq(DOMAIN n.type) /\ n.flipFlops \in Seq(DOMAIN n.type)
  /\ IsInjective(n.outputs) /\ IsInjective(n.flipFlops)
  /\ ToSet(n.outputs) \cap ToSet(n.flipFlops) = {}

ASSUME NetsAssumption == \A n \in Nets : IsNet(n)

extractOutputs(n) ==
  FlattenSeq([i \in DOMAIN n.outputs |-> fillLinks(n, n.outputs[i], {})])
    \o FlattenSeq([i \in DOMAIN n.flipFlops |-> fillLinks(n, n.flipFlops[i], {})])

-----------------------------------------------------------------------------
(* NetComponent: the inputs and the outputs with their signal types        *)
(* (inputs and inputsDesc, outputs and outputsDesc), the gates in order.   *)

NoComponent == [inputs |-> << >>, inners |-> << >>, outputs |-> << >>]

\* The map f with v at key k (unordered_map::operator[]).
Put(f, k, v) == [x \in DOMAIN f \cup {k} |-> IF x = k THEN v ELSE f[x]]

\* The map f with the entries of g; what is there is not overwritten
\* (unordered_map::insert).
Insert(f, g) == [x \in DOMAIN f \cup DOMAIN g |-> IF x \in DOMAIN f THEN f[x] ELSE g[x]]

\* Bug: the gates of the merged component come first.
MergeComponent_Front(c, d) ==
  [inputs |-> Insert(c.inputs, d.inputs), inners |-> d.inners \o c.inners,
   outputs |-> Insert(c.outputs, d.outputs)]

MergeComponent(c, d) ==
  [inputs |-> Insert(c.inputs, d.inputs), inners |-> c.inners \o d.inners,
   outputs |-> Insert(c.outputs, d.outputs)]

\* makeInputLink and makeOutputLink: the keys of the mappings.
OutputKey(l) == [source |-> l.source, target |-> l.target, port |-> l.port]

-----------------------------------------------------------------------------
(* NetTraversalContext.                                                    *)

Entry(c, ls) == [cell |-> c, links |-> ls, index |-> 1]

\* The constructor: the stack holds the outputs, if there are any.
NewContext(n) ==
  [stack |-> IF extractOutputs(n) = << >> THEN << >> ELSE <<Entry(NoCell, extractOutputs(n))>>,
   components |-> << >>, belongsTo |-> << >>, merging |-> {},
   component |-> NoComponent, componentCells |-> {}]

Top(x) == Last(x.stack)

isOutput(e) == e.cell = NoCell

isPassed(e) == e.index > Len(e.links)

\* Bug: a gate of an earlier component does not merge the components.
push_NoMerge(n, x, c, signal) ==
  IF c \in DOMAIN x.belongsTo \cup x.componentCells THEN x
  ELSE [x EXCEPT !.componentCells = @ \cup {c}, !.stack = Append(@, Entry(c, fillLinks(n, c, {signal})))]

push(n, x, c, signal) ==
  IF c \in DOMAIN x.belongsTo THEN [x EXCEPT !.merging = @ \cup {x.belongsTo[c]}]
  ELSE IF c \in x.componentCells THEN x
  ELSE [x EXCEPT !.componentCells = @ \cup {c}, !.stack = Append(@, Entry(c, fillLinks(n, c, {signal})))]

\* Bug: the signal type of the last path is not passed on.
addInput_Data(x, l) == [x EXCEPT !.component.inputs = Put(@, l.source, "DATA")]

addInput(x, l) == [x EXCEPT !.component.inputs = Put(@, l.source, l.signal)]

addInner(x, c) == [x EXCEPT !.component.inners = Append(@, c)]

addOutput(x, l) == [x EXCEPT !.component.outputs = Put(@, OutputKey(l), l.signal)]

\* Bug: the traversal stays at the link.
nextLink_Stay(x) == x

nextLink(x) == [x EXCEPT !.stack[Len(x.stack)].index = @ + 1]

\* mergeComponents: the components that share gates with the one under construction,
\* merged in order.
mergeComponents(x) ==
  LET merged[i \in 0 .. Len(x.components)] ==
        IF i = 0 THEN NoComponent
        ELSE IF i \in x.merging THEN MergeComponent(merged[i - 1], x.components[i])
        ELSE merged[i - 1]
  IN  merged[Len(x.components)]

\* The component under construction joins the first of them, and they with it; or it
\* is a new one.
makeComponent(x) ==
  LET index == IF x.merging = {} THEN Len(x.components) + 1 ELSE Min(x.merging)
      moved == (UNION {ToSet(x.components[i].inners) : i \in x.merging}) \cup ToSet(x.component.inners)
  IN  [stack |-> x.stack,
       components |-> [i \in 1 .. (IF x.merging = {} THEN index ELSE Len(x.components)) |->
                         IF i = index THEN MergeComponent(mergeComponents(x), x.component)
                         ELSE IF i \in x.merging THEN NoComponent ELSE x.components[i]],
       belongsTo |-> Insert([c \in moved |-> index], x.belongsTo),
       merging |-> {}, component |-> NoComponent, componentCells |-> {}]

\* The top entry's link: an output is noted, an input ends the path, a gate is
\* pushed if it is new.
Visit(n, x) ==
  LET l == Top(x).links[Top(x).index]
      x1 == IF isOutput(Top(x)) THEN addOutput(x, l) ELSE x
  IN  IF isInputLink(n, l.source) THEN nextLink(addInput(x1, l))
      ELSE push(n, nextLink(x1), l.source, l.signal)

-----------------------------------------------------------------------------
(* extractComponents: one action per iteration of its loop.                *)

DecomposerInit ==
  /\ net \in Nets
  /\ context = NewContext(net)

Traversing == context.stack # << >>

\* The next output, after the component of the previous one has been completed.
NextOutput ==
  /\ Traversing /\ isOutput(Top(context)) /\ ~isPassed(Top(context))
  /\ context' = Visit(net, IF Top(context).index > 1 THEN makeComponent(context) ELSE context)
  /\ UNCHANGED net

\* All outputs have been passed.
LastOutput ==
  /\ Traversing /\ isOutput(Top(context)) /\ isPassed(Top(context))
  /\ context' = [makeComponent(context) EXCEPT !.stack = Front(@)]
  /\ UNCHANGED net

VisitLink ==
  /\ Traversing /\ ~isOutput(Top(context)) /\ ~isPassed(Top(context))
  /\ context' = Visit(net, context)
  /\ UNCHANGED net

\* A gate is listed when all it depends on has been listed.
LeaveGate ==
  /\ Traversing /\ ~isOutput(Top(context)) /\ isPassed(Top(context))
  /\ context' = [addInner(context, Top(context).cell) EXCEPT !.stack = Front(@)]
  /\ UNCHANGED net

Traverse == NextOutput \/ LastOutput \/ VisitLink \/ LeaveGate

DecomposerSpec == DecomposerInit /\ [][Traverse]_decomposerVars

-----------------------------------------------------------------------------
(* Properties.                                                             *)

\* Every gate is listed after the gates it depends on, also when components are
\* merged, so makeSubnet finds the links of a gate mapped when it comes to it.
InnersTopological ==
  \A c \in ToSet(context.components) : \A k \in DOMAIN c.inners : \A s \in ToSet(net.links[c.inners[k]]) :
    IF isInputLink(net, s) THEN s \in DOMAIN c.inputs
    ELSE \E m \in 1 .. k - 1 : c.inners[m] = s

\* The net as Components sees it.
GraphOf(n) ==
  [fanin |-> [g \in GateIDs |-> IF g \in DOMAIN n.links THEN ToSet(n.links[g]) ELSE {}],
   sources |-> [k \in DOMAIN extractOutputs(n) |-> extractOutputs(n)[k].source]]

Graph == GraphOf(net)

OutputIndex(o) ==
  CHOOSE k \in DOMAIN extractOutputs(net) : OutputKey(extractOutputs(net)[k]) = o

\* The outputs whose components have been completed.
Completed ==
  IF ~Traversing THEN Len(extractOutputs(net))
  ELSE IF context.stack[1].index = 1 THEN 0 ELSE context.stack[1].index - 2

\* The components (those that have been merged into others are empty).
Parts ==
  {[gates |-> ToSet(c.inners), outputs |-> {OutputIndex(o) : o \in DOMAIN c.outputs}] :
     c \in {d \in ToSet(context.components) : DOMAIN d.outputs # {}}}

Abstract == INSTANCE Components WITH
  Gates <- GateIDs,
  graph <- Graph, passed <- Completed, parts <- Parts

\* The signal type noted for an input of a component is that of an output of this
\* component which depends on the input, whatever the order in which the paths were
\* followed and the components merged.
SignalsSound ==
  \A c \in ToSet(context.components) : \A s \in DOMAIN c.inputs : \E o \in DOMAIN c.outputs :
    /\ c.outputs[o] = c.inputs[s]
    /\ s = o.source \/ \E g \in Abstract!ConeOf(Graph, o.source) : s \in Graph.fanin[g]

\* The traversal implements Components: it looks at every gate once and merges by
\* the owners of the gates it meets, and the result after every output is the one
\* that the cones of the outputs define.
ImplementsComponents == Abstract!Spec
=============================================================================
