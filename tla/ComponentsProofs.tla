--------------------------- MODULE ComponentsProofs ---------------------------
(***************************************************************************)
(* The components of any net are disjoint, self-contained and as fine as   *)
(* possible.  The cone of an output is the least closed set that contains  *)
(* its source; everything else is set algebra on the components that the   *)
(* cone touches.                                                           *)
(***************************************************************************)
EXTENDS Components, TLAPS

\* Part of the inductive invariant that the properties take for granted.
PartsType ==
  /\ passed \in Nat
  /\ \A p \in parts : /\ p = [gates |-> p.gates, outputs |-> p.outputs]
                      /\ p.gates \subseteq Gates
                      /\ p.outputs \subseteq 1 .. passed
                      /\ p.outputs # {}

\* The inductive invariant.
Inv == PartsType /\ Disjoint /\ SelfContained /\ Finest /\ NoDeadGates

-----------------------------------------------------------------------------

\* A cone is a closed set of gates, and contained in every closed set that has its
\* source.
LEMMA ConeLeast ==
  ASSUME NEW n, NEW x
  PROVE  /\ ConeOf(n, x) \subseteq Gates
         /\ IsClosed(n, ConeOf(n, x))
         /\ \A S \in SUBSET Gates : {x} \cap Gates \subseteq S /\ IsClosed(n, S) => ConeOf(n, x) \subseteq S
  BY DEF ConeOf, IsClosed

\* The source of a cone is in it; the cone of a source that is no gate is empty.
LEMMA ConeSource ==
  ASSUME NEW n, NEW x
  PROVE  {x} \cap Gates \subseteq ConeOf(n, x) /\ (x \notin Gates => ConeOf(n, x) = {})
<1>1. {x} \cap Gates \subseteq ConeOf(n, x)
  BY DEF ConeOf
<1>2. IsClosed(n, {})
  BY DEF IsClosed
<1>3. x \notin Gates => ConeOf(n, x) \subseteq {}
  BY <1>2, ConeLeast
<1> QED
  BY <1>1, <1>3

\* A cone cannot be divided: the half that has the source is all of it.
LEMMA ConeWhole ==
  ASSUME NEW n, NEW x, NEW S \in SUBSET Gates, NEW T \in SUBSET Gates,
         IsClosed(n, S), IsClosed(n, T), ConeOf(n, x) \subseteq S \cup T
  PROVE  ConeOf(n, x) \subseteq S \/ ConeOf(n, x) \subseteq T
<1>1. CASE x \in S
  BY <1>1, ConeLeast
<1>2. CASE x \in T
  BY <1>2, ConeLeast
<1>3. CASE x \notin S \cup T
  <2>1. x \notin Gates
    BY <1>3, ConeSource
  <2> QED
    BY <2>1, ConeSource
<1> QED
  BY <1>1, <1>2, <1>3

\* Parts of a closed set within a closed set are closed.
LEMMA ClosedCap ==
  ASSUME NEW n, NEW S, NEW T, IsClosed(n, S), IsClosed(n, T)
  PROVE  IsClosed(n, S \cap T)
  BY DEF IsClosed

-----------------------------------------------------------------------------

\* There are no components in the beginning.
LEMMA InitInv == Init => Inv
  BY DEF Init, Inv, PartsType, Disjoint, SelfContained, Finest, NoDeadGates

\* Adding an output keeps the invariant.
LEMMA AddOutputInv ==
  ASSUME Inv, AddOutput
  PROVE  Inv'
<1> DEFINE k == passed + 1
           cone == ConeOf(graph, graph.sources[k])
           old == Touched(cone)
           new == [gates |-> cone \cup UNION {p.gates : p \in old},
                   outputs |-> {k} \cup UNION {p.outputs : p \in old}]
<1>1. /\ passed' = k /\ graph' = graph
      /\ parts' = (parts \ old) \cup {new}
      /\ k \in Nat
  BY DEF AddOutput, Inv, PartsType
<1>2. PartsType /\ Disjoint /\ SelfContained /\ Finest /\ NoDeadGates
  BY DEF Inv
<1>3. cone \subseteq Gates /\ IsClosed(graph, cone)
  BY ConeLeast
<1>4. old \subseteq parts /\ \A p \in parts : p \notin old => p.gates \cap cone = {}
  BY DEF Touched
<1>4a. \A p \in old : p.gates \cap cone # {}
  BY DEF Touched
<1>5. /\ new.gates = cone \cup UNION {p.gates : p \in old}
      /\ new.outputs = {k} \cup UNION {p.outputs : p \in old}
  OBVIOUS
<1> HIDE DEF k, cone, old, new
<1>6. /\ \A p \in old : p.gates \subseteq new.gates /\ p.outputs \subseteq new.outputs
      /\ cone \subseteq new.gates /\ k \in new.outputs
      /\ \A g \in new.gates : g \in cone \/ \E p \in old : g \in p.gates
      /\ \A j \in new.outputs : j = k \/ \E p \in old : j \in p.outputs
  BY <1>5
<1>7. PartsType'
  <2>1. passed' \in Nat /\ \A j \in 1 .. passed : j \in 1 .. passed'
    BY <1>1, <1>2 DEF PartsType, k
  <2>2. new = [gates |-> new.gates, outputs |-> new.outputs]
    BY DEF new
  <2>3. new.gates \subseteq Gates
    BY <1>2, <1>3, <1>4, <1>6 DEF PartsType
  <2>4. k \in 1 .. passed'
    BY <1>1, <1>2 DEF PartsType, k
  <2>5. new.outputs \subseteq 1 .. passed' /\ new.outputs # {}
    BY <1>2, <1>4, <1>6, <2>1, <2>4 DEF PartsType
  <2> QED
    BY <1>1, <1>2, <2>1, <2>2, <2>3, <2>5 DEF PartsType
<1>8. Disjoint'
  <2>1. ASSUME NEW p \in parts, p \notin old
        PROVE  p.gates \cap new.gates = {} /\ p.outputs \cap new.outputs = {}
    <3>1. k \notin p.outputs
      BY <1>2, <2>1 DEF PartsType, k
    <3>2. \A q \in old : p.gates \cap q.gates = {} /\ p.outputs \cap q.outputs = {}
      BY <1>2, <1>4, <2>1 DEF Disjoint
    <3> QED
      BY <1>4, <1>6, <2>1, <3>1, <3>2
  <2> QED
    BY <1>1, <1>2, <2>1 DEF Disjoint
<1>9. SelfContained'
  <2>1. IsClosed(graph, new.gates)
    BY <1>2, <1>3, <1>4, <1>6 DEF SelfContained, IsClosed
  <2>2. ASSUME NEW j \in 1 .. k
        PROVE  \E p \in parts' : j \in p.outputs /\ ConeOf(graph, graph.sources[j]) \subseteq p.gates
    <3>1. CASE j = k
      BY <1>1, <1>6, <3>1 DEF cone
    <3>2. CASE j # k
      <4>1. j \in 1 .. passed
        BY <1>2, <3>2 DEF PartsType, k
      <4>2. PICK p \in parts : j \in p.outputs /\ ConeOf(graph, graph.sources[j]) \subseteq p.gates
        BY <1>2, <4>1 DEF SelfContained
      <4>3. CASE p \in old
        BY <1>1, <1>6, <4>2, <4>3
      <4>4. CASE p \notin old
        BY <1>1, <4>2, <4>4
      <4> QED
        BY <4>3, <4>4
    <3> QED
      BY <3>1, <3>2
  <2> QED
    BY <1>1, <1>2, <2>1, <2>2 DEF SelfContained
<1>10. Finest'
  <2>1. ASSUME NEW S \in SUBSET new.gates, NEW T \in SUBSET new.gates,
               IsClosed(graph, S), IsClosed(graph, T), S \cap T = {}, S \cup T = new.gates,
               cone \subseteq S
        PROVE  T = {}
    <3>1. ASSUME NEW p \in old PROVE p.gates \subseteq S
      <4>1. IsClosed(graph, p.gates)
        BY <1>2, <1>4 DEF SelfContained
      <4>2. IsClosed(graph, S \cap p.gates) /\ IsClosed(graph, T \cap p.gates)
        BY <2>1, <4>1, ClosedCap
      <4>3. S \cap p.gates \in SUBSET p.gates /\ T \cap p.gates \in SUBSET p.gates
        OBVIOUS
      <4>4. (S \cap p.gates) \cap (T \cap p.gates) = {} /\ (S \cap p.gates) \cup (T \cap p.gates) = p.gates
        BY <1>6, <2>1
      <4>5. S \cap p.gates = {} \/ T \cap p.gates = {}
        BY <1>2, <1>4, <4>2, <4>3, <4>4 DEF Finest
      <4>6. S \cap p.gates # {}
        BY <1>4a, <2>1
      <4> QED
        BY <4>4, <4>5, <4>6
    <3>2. new.gates \subseteq S
      BY <1>6, <2>1, <3>1
    <3> QED
      BY <2>1, <3>2
  <2>2. ASSUME NEW S \in SUBSET new.gates, NEW T \in SUBSET new.gates,
               IsClosed(graph, S), IsClosed(graph, T), S \cap T = {}, S \cup T = new.gates
        PROVE  S = {} \/ T = {}
    <3>1. S \in SUBSET Gates /\ T \in SUBSET Gates
      BY <1>1, <1>7 DEF PartsType
    <3>2. cone \subseteq S \/ cone \subseteq T
      BY <1>6, <2>2, <3>1, ConeWhole DEF cone
    <3>3. CASE cone \subseteq S
      BY <2>1, <2>2, <3>3
    <3>4. CASE cone \subseteq T
      <4>1. T \cap S = {} /\ T \cup S = new.gates
        BY <2>2
      <4> QED
        BY <2>1, <2>2, <3>4, <4>1
    <3> QED
      BY <3>2, <3>3, <3>4
  <2> QED
    BY <1>1, <1>2, <2>2 DEF Finest
<1>11. NoDeadGates'
  <2>1. ASSUME NEW g \in new.gates
        PROVE  \E j \in new.outputs : g \in ConeOf(graph, graph.sources[j])
    <3>1. CASE g \in cone
      BY <1>6, <3>1 DEF cone
    <3>2. CASE \E p \in old : g \in p.gates
      BY <1>2, <1>4, <1>6, <3>2 DEF NoDeadGates
    <3> QED
      BY <1>6, <3>1, <3>2
  <2>2. ASSUME NEW p \in parts'
        PROVE  p.gates \subseteq UNION {ConeOf(graph, graph.sources[j]) : j \in p.outputs}
    <3>1. CASE p = new
      BY <2>1, <3>1
    <3>2. CASE p # new
      BY <1>1, <1>2, <2>2, <3>2 DEF NoDeadGates
    <3> QED
      BY <3>1, <3>2
  <2> QED
    BY <1>1, <2>2 DEF NoDeadGates, ConeOf, IsClosed
<1> QED
  BY <1>7, <1>8, <1>9, <1>10, <1>11 DEF Inv

\* The invariant holds in every reachable state.
THEOREM Invariance == Spec => []Inv
<1>1. Inv /\ [Next]_vars => Inv'
  <2> SUFFICES ASSUME Inv, [Next]_vars PROVE Inv'
    OBVIOUS
  <2>1. CASE AddOutput
    BY <2>1, AddOutputInv
  <2>2. CASE UNCHANGED vars
    <3>1. graph' = graph /\ passed' = passed /\ parts' = parts
      BY <2>2 DEF vars
    <3>2. PartsType' /\ Disjoint'
      BY <3>1 DEF Inv, PartsType, Disjoint
    <3>3. SelfContained'
      BY <3>1 DEF Inv, SelfContained
    <3>4. Finest'
      BY <3>1 DEF Inv, Finest
    <3>5. NoDeadGates'
      BY <3>1 DEF Inv, NoDeadGates
    <3> QED
      BY <3>2, <3>3, <3>4, <3>5 DEF Inv
  <2> QED
    BY <2>1, <2>2 DEF Next
<1> QED
  BY <1>1, InitInv, PTL DEF Spec

\* For every net: the components extracted share no gates and no outputs, every
\* one has all gates that its outputs depend on and no others, and none could be
\* divided.
THEOREM ComponentsSound == Spec => [](Disjoint /\ SelfContained /\ Finest /\ NoDeadGates)
<1>1. Inv => Disjoint /\ SelfContained /\ Finest /\ NoDeadGates
  BY DEF Inv
<1> QED
  BY <1>1, Invariance, PTL
=============================================================================
