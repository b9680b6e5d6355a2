------------------------------ MODULE Components ------------------------------
(***************************************************************************)
(* What the decomposition of a net into components promises: the           *)
(* components are built up output by output.  An output brings the gates   *)
(* it depends on (its cone), and the components that share a gate with the *)
(* cone become one.  NetDecomposer implements this specification with one  *)
(* depth-first traversal that looks at every gate once.                    *)
(***************************************************************************)
EXTENDS Integers, Sequences

CONSTANT Gates  \* combinational cells (a net need not use them all)

VARIABLES
  graph,   \* the net: what the gates link to, and the sources of the outputs
  passed,  \* number of outputs passed
  parts    \* the components: sets of gates with sets of outputs

vars == <<graph, passed, parts>>

\* S contains the gates that its gates depend on.
IsClosed(n, S) == \A g \in S : n.fanin[g] \cap Gates \subseteq S

\* The gates that x depends on: the least closed set with x.
ConeOf(n, x) ==
  {g \in Gates : \A S \in SUBSET Gates :
     ({x} \cap Gates \subseteq S /\ IsClosed(n, S)) => g \in S}

Init ==
  /\ passed = 0
  /\ parts = {}

\* The components that share a gate with S.
Touched(S) == {p \in parts : p.gates \cap S # {}}

AddOutput ==
  /\ passed < Len(graph.sources)
  /\ passed' = passed + 1
  /\ LET new == ConeOf(graph, graph.sources[passed + 1])
         old == Touched(new)
     IN  parts' = (parts \ old) \cup
                    {[gates |-> new \cup UNION {p.gates : p \in old},
                      outputs |-> {passed + 1} \cup UNION {p.outputs : p \in old}]}
  /\ UNCHANGED graph

Next == AddOutput

Spec == Init /\ [][Next]_vars

-----------------------------------------------------------------------------

\* Components share no gates and no outputs.
Disjoint ==
  \A p, q \in parts : p # q => p.gates \cap q.gates = {} /\ p.outputs \cap q.outputs = {}

\* Every output passed is in a component, with all the gates it depends on: a
\* component is a network of its own, whose inputs are no gates.
SelfContained ==
  /\ \A p \in parts : IsClosed(graph, p.gates)
  /\ \A k \in 1 .. passed : \E p \in parts :
       k \in p.outputs /\ ConeOf(graph, graph.sources[k]) \subseteq p.gates

\* The gates of a component cannot be divided further: of two disjoint closed sets
\* that make it up, one is empty.
Finest ==
  \A p \in parts : \A S, T \in SUBSET p.gates :
    (IsClosed(graph, S) /\ IsClosed(graph, T) /\ S \cap T = {} /\ S \cup T = p.gates)
      => S = {} \/ T = {}

\* A component has no gates that none of its outputs depends on.
NoDeadGates ==
  \A p \in parts : p.gates \subseteq UNION {ConeOf(graph, graph.sources[k]) : k \in p.outputs}
=============================================================================
