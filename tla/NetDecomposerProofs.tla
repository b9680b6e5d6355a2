------------------------- MODULE NetDecomposerProofs -------------------------
(***************************************************************************)
(* The traversal of NetDecomposer implements Components, for every net,    *)
(* also one with loops of gates, and the signal types of the inputs are    *)
(* sound.                                                                  *)
(*                                                                         *)
(* The inductive invariant says what the traversal has done when it is     *)
(* half way through the cone of an output: every gate met is listed or on  *)
(* the stack, all links of the gates listed and the links passed of those  *)
(* on the stack lead to what has been met, and everything met is in the    *)
(* cone.  When the stack is back at the outputs, nothing is on the stack,  *)
(* so the gates listed and the components to be merged are closed and      *)
(* contain the cone, which is least: the gates are those that Components   *)
(* adds.  The proofs go from nets and links through the fields of a        *)
(* context to the actions.                                                 *)
(***************************************************************************)
EXTENDS NetDecomposer, DataLemmas

-----------------------------------------------------------------------------
(* Nets and their links.                                                   *)

Cells(n) == DOMAIN n.type

Outs(n) == extractOutputs(n)

LinkSet(n) == [source : Cells(n), target : Cells(n), port : Nat, signal : Signals]

\* The link of pin j of cell c.
IsPin(n, c, j, l) ==
  l.source = n.links[c][j] /\ l.target = c /\ l.port = j

\* The links of a cell, with a signal type given or not.
LEMMA FillLinks ==
  ASSUME NEW n \in Nets, NEW c \in Cells(n), NEW S \in SUBSET Signals, \A x, y \in S : x = y
  PROVE  /\ fillLinks(n, c, S) \in Seq(LinkSet(n))
         /\ DOMAIN fillLinks(n, c, S) = DOMAIN n.links[c]
         /\ \A j \in DOMAIN n.links[c] :
              /\ IsPin(n, c, j, fillLinks(n, c, S)[j])
              /\ S = {} => fillLinks(n, c, S)[j].signal = getSignalType(n, c, j)
              /\ \A x \in S : fillLinks(n, c, S)[j].signal = x
<1>1. n.links[c] \in Seq(Cells(n)) /\ (n.type[c] \in DFFs => Len(n.links[c]) <= 4)
  BY NetsAssumption DEF IsNet, Cells
<1>2. DOMAIN n.links[c] = 1 .. Len(n.links[c]) /\ Len(n.links[c]) \in Nat
  BY <1>1
<1>3. \A j \in DOMAIN n.links[c] : n.links[c][j] \in Cells(n) /\ j \in Nat
  BY <1>1, <1>2
<1>4. \A j \in DOMAIN n.links[c] : getSignalType(n, c, j) \in Signals
  <2> TAKE j \in DOMAIN n.links[c]
  <2>1. CASE n.type[c] \in DFFs
    <3>1. j \in 1 .. 4
      BY <1>1, <1>2, <2>1
    <3>2. j = 1 \/ j = 2 \/ j = 3 \/ j = 4
      BY <3>1
    <3> QED
      BY <2>1, <3>2 DEF getSignalType, Signals
  <2>2. CASE n.type[c] \notin DFFs
    BY <2>2 DEF getSignalType, Signals
  <2> QED
    BY <2>1, <2>2
<1> DEFINE sig(j) == IF S = {} THEN getSignalType(n, c, j) ELSE CHOOSE x \in S : TRUE
           lk(j) == [source |-> n.links[c][j], target |-> c, port |-> j, signal |-> sig(j)]
<1>5. fillLinks(n, c, S) = [j \in DOMAIN n.links[c] |-> lk(j)]
  BY DEF fillLinks
<1>6. \A x \in S : (CHOOSE y \in S : TRUE) = x
  OBVIOUS
<1>7. \A j \in DOMAIN n.links[c] : sig(j) \in Signals
  BY <1>4, <1>6
<1> HIDE DEF sig
<1>8. \A j \in DOMAIN n.links[c] : lk(j) \in LinkSet(n)
  BY <1>3, <1>7 DEF LinkSet
<1>9. \A j \in DOMAIN n.links[c] : IsPin(n, c, j, lk(j)) /\ lk(j).signal = sig(j)
  BY DEF IsPin
<1>10. \A j \in DOMAIN n.links[c] : (S = {} => sig(j) = getSignalType(n, c, j)) /\ \A x \in S : sig(j) = x
  BY <1>6 DEF sig
<1> HIDE DEF lk
<1>11. fillLinks(n, c, S) \in Seq(LinkSet(n))
  BY <1>2, <1>5, <1>8
<1> QED
  BY <1>5, <1>9, <1>10, <1>11

\* The links of a gate met by a path with a signal type.
GateLinks(n, c, signal) == fillLinks(n, c, {signal})

\* They are the gate's pins in order, all with that signal type.
LEMMA GateLinksFacts ==
  ASSUME NEW n \in Nets, NEW c \in Cells(n), NEW signal \in Signals
  PROVE  /\ GateLinks(n, c, signal) \in Seq(LinkSet(n))
         /\ DOMAIN GateLinks(n, c, signal) = DOMAIN n.links[c]
         /\ \A j \in DOMAIN n.links[c] :
              IsPin(n, c, j, GateLinks(n, c, signal)[j]) /\ GateLinks(n, c, signal)[j].signal = signal
<1> DEFINE S == {signal}
<1>1. S \in SUBSET Signals /\ (\A x, y \in S : x = y) /\ signal \in S
  OBVIOUS
<1>2. GateLinks(n, c, signal) = fillLinks(n, c, S)
  BY DEF GateLinks
<1> HIDE DEF S
<1>3. /\ fillLinks(n, c, S) \in Seq(LinkSet(n))
      /\ DOMAIN fillLinks(n, c, S) = DOMAIN n.links[c]
      /\ \A j \in DOMAIN n.links[c] :
           IsPin(n, c, j, fillLinks(n, c, S)[j]) /\ \A z \in S : fillLinks(n, c, S)[j].signal = z
  BY <1>1, FillLinks
<1> QED
  BY <1>1, <1>2, <1>3

\* The links of a list of cells.
LinksOf(n, cs) == FlattenSeq([i \in DOMAIN cs |-> fillLinks(n, cs[i], {})])

\* They are pins of these cells, every one once, with the signal types of their ports.
LEMMA ListedLinks ==
  ASSUME NEW n \in Nets, NEW cs \in Seq(Cells(n)), IsInjective(cs)
  PROVE  /\ LinksOf(n, cs) \in Seq(LinkSet(n))
         /\ \A l \in ToSet(LinksOf(n, cs)) :
              /\ l.target \in ToSet(cs)
              /\ l.port \in DOMAIN n.links[l.target]
              /\ l.source = n.links[l.target][l.port]
              /\ l.signal = getSignalType(n, l.target, l.port)
         /\ IsInjective(LinksOf(n, cs))
<1> DEFINE ss == [i \in DOMAIN cs |-> fillLinks(n, cs[i], {})]
<1>1. DOMAIN cs = 1 .. Len(cs) /\ Len(cs) \in Nat /\ \A i \in DOMAIN cs : cs[i] \in Cells(n)
  OBVIOUS
<1>2. ASSUME NEW i \in DOMAIN cs
      PROVE  /\ ss[i] \in Seq(LinkSet(n))
             /\ DOMAIN ss[i] = DOMAIN n.links[cs[i]]
             /\ \A j \in DOMAIN n.links[cs[i]] :
                  IsPin(n, cs[i], j, ss[i][j]) /\ ss[i][j].signal = getSignalType(n, cs[i], j)
  <2>1. ss[i] = fillLinks(n, cs[i], {})
    OBVIOUS
  <2>2. {} \in SUBSET Signals /\ cs[i] \in Cells(n)
    BY <1>1
  <2> HIDE DEF ss
  <2> QED
    BY <2>1, <2>2, FillLinks
<1>3. LinksOf(n, cs) = FlattenSeq(ss) /\ DOMAIN ss = DOMAIN cs
  BY DEF LinksOf
<1> HIDE DEF ss
<1>4. ss \in Seq(Seq(LinkSet(n)))
  <2>1. ss = [i \in 1 .. Len(cs) |-> ss[i]]
    <3>1. ss = [i \in DOMAIN cs |-> ss[i]]
      BY DEF ss
    <3> QED
      BY <1>1, <3>1
  <2>2. \A i \in 1 .. Len(cs) : ss[i] \in Seq(LinkSet(n))
    BY <1>1, <1>2
  <2> DEFINE Q == Seq(LinkSet(n))
  <2> HIDE DEF Q
  <2>3. ss \in [1 .. Len(cs) -> Q]
    BY <2>1, <2>2 DEF Q
  <2>4. ss \in Seq(Q)
    BY <1>1, <2>3
  <2> QED
    BY <2>4 DEF Q
<1>5. \A i \in DOMAIN ss : IsInjective(ss[i])
  <2> TAKE i \in DOMAIN ss
  <2>1. \A j \in DOMAIN ss[i] : ss[i][j].port = j
    BY <1>2, <1>3 DEF IsPin
  <2> QED
    BY <2>1 DEF IsInjective
<1>6. ASSUME NEW i \in DOMAIN ss, NEW l \in ToSet(ss[i])
      PROVE  /\ l.target = cs[i]
             /\ l.port \in DOMAIN n.links[l.target]
             /\ l.source = n.links[l.target][l.port]
             /\ l.signal = getSignalType(n, l.target, l.port)
  <2>1. PICK j \in DOMAIN ss[i] : l = ss[i][j]
    BY <1>6 DEF ToSet
  <2>2. IsPin(n, cs[i], j, l) /\ l.signal = getSignalType(n, cs[i], j) /\ j \in DOMAIN n.links[cs[i]]
    BY <1>2, <1>3, <2>1
  <2> QED
    BY <2>2 DEF IsPin
<1>7. \A i, j \in DOMAIN ss : i # j => ToSet(ss[i]) \cap ToSet(ss[j]) = {}
  <2> SUFFICES ASSUME NEW i \in DOMAIN ss, NEW j \in DOMAIN ss, NEW l \in ToSet(ss[i]), l \in ToSet(ss[j])
               PROVE  i = j
    OBVIOUS
  <2>1. l.target = cs[i] /\ l.target = cs[j]
    BY <1>6
  <2> QED
    BY <1>3, <2>1 DEF IsInjective
<1>8. /\ FlattenSeq(ss) \in Seq(LinkSet(n))
      /\ \A x \in ToSet(FlattenSeq(ss)) : \E i \in DOMAIN ss : x \in ToSet(ss[i])
      /\ IsInjective(FlattenSeq(ss))
  BY <1>4, <1>5, <1>7, FlattenProperties
<1>9. \A i \in DOMAIN ss : cs[i] \in ToSet(cs)
  BY <1>3 DEF ToSet
<1> QED
  BY <1>3, <1>6, <1>8, <1>9

\* What is known of the outputs of a net.
LEMMA Outputs ==
  ASSUME NEW n \in Nets
  PROVE  /\ Outs(n) \in Seq(LinkSet(n))
         /\ \A k \in DOMAIN Outs(n) :
              /\ Outs(n)[k] \in LinkSet(n)
              /\ Outs(n)[k].source \in ToSet(n.links[Outs(n)[k].target])
              /\ Outs(n)[k].signal = getSignalType(n, Outs(n)[k].target, Outs(n)[k].port)
         /\ \A k, m \in DOMAIN Outs(n) : OutputKey(Outs(n)[k]) = OutputKey(Outs(n)[m]) => k = m
<1> DEFINE a == LinksOf(n, n.outputs)
           b == LinksOf(n, n.flipFlops)
<1>1. /\ n.outputs \in Seq(Cells(n)) /\ n.flipFlops \in Seq(Cells(n))
      /\ IsInjective(n.outputs) /\ IsInjective(n.flipFlops)
      /\ ToSet(n.outputs) \cap ToSet(n.flipFlops) = {}
  BY NetsAssumption DEF IsNet, Cells
<1>2. Outs(n) = a \o b
  BY DEF Outs, extractOutputs, LinksOf
<1> DEFINE Good(l) == /\ l.port \in DOMAIN n.links[l.target]
                      /\ l.source = n.links[l.target][l.port]
                      /\ l.signal = getSignalType(n, l.target, l.port)
<1>3. a \in Seq(LinkSet(n)) /\ IsInjective(a) /\ \A l \in ToSet(a) : l.target \in ToSet(n.outputs) /\ Good(l)
  BY <1>1, ListedLinks
<1>4. b \in Seq(LinkSet(n)) /\ IsInjective(b) /\ \A l \in ToSet(b) : l.target \in ToSet(n.flipFlops) /\ Good(l)
  BY <1>1, ListedLinks
<1> HIDE DEF a, b, Good
<1>5. ToSet(a) \cap ToSet(b) = {}
  BY <1>1, <1>3, <1>4
<1>6. IsInjective(a \o b) /\ a \o b \in Seq(LinkSet(n)) /\ ToSet(a \o b) = ToSet(a) \cup ToSet(b)
  BY <1>3, <1>4, <1>5, ConcatInjective, ToSetConcat
<1>7. Outs(n) \in Seq(LinkSet(n)) /\ IsInjective(Outs(n)) /\ \A l \in ToSet(Outs(n)) : Good(l)
  BY <1>2, <1>3, <1>4, <1>6
<1> HIDE DEF Outs
<1>8. \A k \in DOMAIN Outs(n) : Outs(n)[k] \in LinkSet(n) /\ Good(Outs(n)[k])
  BY <1>7 DEF ToSet
<1>9. \A k \in DOMAIN Outs(n) :
        Outs(n)[k].source \in ToSet(n.links[Outs(n)[k].target])
  BY <1>8 DEF ToSet, Good
<1>10. ASSUME NEW k \in DOMAIN Outs(n), NEW m \in DOMAIN Outs(n), OutputKey(Outs(n)[k]) = OutputKey(Outs(n)[m])
       PROVE  k = m
  <2>1. Outs(n)[k].source = Outs(n)[m].source /\ Outs(n)[k].target = Outs(n)[m].target /\ Outs(n)[k].port = Outs(n)[m].port
    BY <1>10 DEF OutputKey
  <2>2. Outs(n)[k].signal = Outs(n)[m].signal
    BY <1>8, <2>1 DEF Good
  <2>3. Outs(n)[k] = Outs(n)[m]
    BY <1>8, <2>1, <2>2 DEF LinkSet
  <2> QED
    BY <1>7, <2>3 DEF IsInjective
<1> QED
  BY <1>7, <1>8, <1>9, <1>10 DEF Good

-----------------------------------------------------------------------------
(* Contexts, field by field.                                               *)

MkContext(s, cs, b, m, c, cells) ==
  [stack |-> s, components |-> cs, belongsTo |-> b, merging |-> m, component |-> c, componentCells |-> cells]

MkComponent(i, g, o) == [inputs |-> i, inners |-> g, outputs |-> o]

IsContext(x) ==
  x = MkContext(x.stack, x.components, x.belongsTo, x.merging, x.component, x.componentCells)

IsComponent(c) == c = MkComponent(c.inputs, c.inners, c.outputs)

EntrySet(n) == [cell : Cells(n) \cup {NoCell}, links : Seq(LinkSet(n)), index : Nat \ {0}]

\* The link at which the traversal stands, and whether it leads to a new gate.
Here(x) == Top(x).links[Top(x).index]

IsNew(n, x) ==
  ~isInputLink(n, Here(x).source) /\ Here(x).source \notin DOMAIN x.belongsTo \cup x.componentCells

\* The stack after nextLink.
Advanced(s) == [s EXCEPT ![Len(s)].index = @ + 1]

\* Only the index of its last entry has changed.
LEMMA AdvancedStack ==
  ASSUME NEW n, NEW s \in Seq(EntrySet(n)), s # << >>
  PROVE  /\ Advanced(s) \in Seq(EntrySet(n)) /\ Len(Advanced(s)) = Len(s)
         /\ \A k \in 1 .. Len(s) - 1 : Advanced(s)[k] = s[k]
         /\ Advanced(s)[Len(s)] = [cell |-> s[Len(s)].cell, links |-> s[Len(s)].links, index |-> s[Len(s)].index + 1]
<1> DEFINE E == EntrySet(n)
           e == s[Len(s)]
           f == [e EXCEPT !.index = @ + 1]
<1>1. Len(s) \in Nat \ {0} /\ e \in E
  OBVIOUS
<1>2. f \in E /\ f = [cell |-> e.cell, links |-> e.links, index |-> e.index + 1]
  <2>1. /\ e = [cell |-> e.cell, links |-> e.links, index |-> e.index]
        /\ e.cell \in Cells(n) \cup {NoCell} /\ e.links \in Seq(LinkSet(n)) /\ e.index \in Nat \ {0}
    BY <1>1 DEF EntrySet
  <2> HIDE DEF e
  <2>2. f = [cell |-> e.cell, links |-> e.links, index |-> e.index + 1]
    BY <2>1
  <2>3. [cell |-> e.cell, links |-> e.links, index |-> e.index + 1] \in EntrySet(n)
    BY <2>1 DEF EntrySet
  <2> QED
    BY <2>2, <2>3
<1>3. Advanced(s) = [s EXCEPT ![Len(s)] = f]
  BY DEF Advanced
<1> HIDE DEF E, f, e
<1>4. s \in Seq(E)
  BY DEF E
<1>5. [s EXCEPT ![Len(s)] = f] \in Seq(E) /\ Len([s EXCEPT ![Len(s)] = f]) = Len(s)
  BY <1>1, <1>2, <1>4
<1>6. \A k \in 1 .. Len(s) - 1 : [s EXCEPT ![Len(s)] = f][k] = s[k]
  BY <1>1, <1>4
<1>7. [s EXCEPT ![Len(s)] = f][Len(s)] = f
  BY <1>1, <1>4
<1> QED
  BY <1>2, <1>3, <1>5, <1>6, <1>7 DEF E, e

\* The effect of the operations that an iteration is made of.
LEMMA StepFields ==
  ASSUME NEW x, IsContext(x), IsComponent(x.component), NEW l, NEW c
  PROVE  /\ nextLink(x) =
              MkContext(Advanced(x.stack), x.components, x.belongsTo, x.merging, x.component, x.componentCells)
         /\ addInput(x, l) =
              MkContext(x.stack, x.components, x.belongsTo, x.merging,
                MkComponent(Put(x.component.inputs, l.source, l.signal), x.component.inners, x.component.outputs),
                x.componentCells)
         /\ addOutput(x, l) =
              MkContext(x.stack, x.components, x.belongsTo, x.merging,
                MkComponent(x.component.inputs, x.component.inners, Put(x.component.outputs, OutputKey(l), l.signal)),
                x.componentCells)
         /\ addInner(x, c) =
              MkContext(x.stack, x.components, x.belongsTo, x.merging,
                MkComponent(x.component.inputs, Append(x.component.inners, c), x.component.outputs),
                x.componentCells)
<1> USE DEF IsContext, IsComponent, MkContext, MkComponent
<1>1. nextLink(x) =
        MkContext(Advanced(x.stack), x.components, x.belongsTo, x.merging, x.component, x.componentCells)
  BY DEF nextLink, Advanced
<1>2. addInput(x, l) =
        MkContext(x.stack, x.components, x.belongsTo, x.merging,
          MkComponent(Put(x.component.inputs, l.source, l.signal), x.component.inners, x.component.outputs),
          x.componentCells)
  BY DEF addInput
<1>3. addOutput(x, l) =
        MkContext(x.stack, x.components, x.belongsTo, x.merging,
          MkComponent(x.component.inputs, x.component.inners, Put(x.component.outputs, OutputKey(l), l.signal)),
          x.componentCells)
  BY DEF addOutput
<1>4. addInner(x, c) =
        MkContext(x.stack, x.components, x.belongsTo, x.merging,
          MkComponent(x.component.inputs, Append(x.component.inners, c), x.component.outputs),
          x.componentCells)
  <2> DEFINE a == Append(x.component.inners, c)
  <2>1. addInner(x, c) = [x EXCEPT !.component.inners = a]
    BY DEF addInner
  <2> HIDE DEF a
  <2>2. [x EXCEPT !.component.inners = a] =
          MkContext(x.stack, x.components, x.belongsTo, x.merging,
            MkComponent(x.component.inputs, a, x.component.outputs), x.componentCells)
    OBVIOUS
  <2> QED
    BY <2>1, <2>2 DEF a
<1> QED
  BY <1>1, <1>2, <1>3, <1>4

\* What an iteration at a link changes.
LEMMA VisitFields ==
  ASSUME NEW n, NEW x, IsContext(x), IsComponent(x.component), NEW l, l = Here(x)
  PROVE  Visit(n, x) =
           MkContext(
             IF IsNew(n, x) THEN Append(Advanced(x.stack), Entry(l.source, fillLinks(n, l.source, {l.signal})))
             ELSE Advanced(x.stack),
             x.components, x.belongsTo,
             IF ~isInputLink(n, l.source) /\ l.source \in DOMAIN x.belongsTo
             THEN x.merging \cup {x.belongsTo[l.source]} ELSE x.merging,
             MkComponent(
               IF isInputLink(n, l.source) THEN Put(x.component.inputs, l.source, l.signal) ELSE x.component.inputs,
               x.component.inners,
               IF isOutput(Top(x)) THEN Put(x.component.outputs, OutputKey(l), l.signal) ELSE x.component.outputs),
             IF IsNew(n, x) THEN x.componentCells \cup {l.source} ELSE x.componentCells)
<1> DEFINE outs == IF isOutput(Top(x)) THEN Put(x.component.outputs, OutputKey(l), l.signal) ELSE x.component.outputs
           x1 == IF isOutput(Top(x)) THEN addOutput(x, l) ELSE x
           y1 == MkContext(x.stack, x.components, x.belongsTo, x.merging,
                           MkComponent(x.component.inputs, x.component.inners, outs), x.componentCells)
<1>1. x1 = y1
  BY StepFields DEF IsContext, IsComponent
<1>2. Visit(n, x) = IF isInputLink(n, l.source) THEN nextLink(addInput(y1, l))
                    ELSE push(n, nextLink(y1), l.source, l.signal)
  BY <1>1 DEF Visit, Here
<1>3. IsContext(y1) /\ IsComponent(y1.component)
  BY DEF IsContext, IsComponent, MkContext, MkComponent
<1> HIDE DEF outs, x1
<1>4. CASE isInputLink(n, l.source)
  <2> DEFINE y2 == MkContext(x.stack, x.components, x.belongsTo, x.merging,
                     MkComponent(Put(x.component.inputs, l.source, l.signal), x.component.inners, outs),
                     x.componentCells)
  <2>1. addInput(y1, l) = y2
    <3>1. /\ y1.stack = x.stack /\ y1.components = x.components /\ y1.belongsTo = x.belongsTo
          /\ y1.merging = x.merging /\ y1.componentCells = x.componentCells
          /\ y1.component.inputs = x.component.inputs /\ y1.component.inners = x.component.inners
          /\ y1.component.outputs = outs
      BY DEF MkContext, MkComponent
    <3> HIDE DEF y1
    <3> QED
      BY <1>3, <3>1, StepFields
  <2>2. nextLink(y2) = MkContext(Advanced(y2.stack), y2.components, y2.belongsTo, y2.merging, y2.component, y2.componentCells)
    <3>1. IsContext(y2) /\ IsComponent(y2.component)
      BY DEF IsContext, IsComponent, MkContext, MkComponent
    <3> HIDE DEF y2
    <3> QED
      BY <3>1, StepFields
  <2>3. Visit(n, x) = nextLink(y2)
    BY <1>2, <1>4, <2>1
  <2>4. /\ y2.stack = x.stack /\ y2.components = x.components /\ y2.belongsTo = x.belongsTo
        /\ y2.merging = x.merging /\ y2.componentCells = x.componentCells
        /\ y2.component = MkComponent(Put(x.component.inputs, l.source, l.signal), x.component.inners, outs)
    BY DEF MkContext
  <2> HIDE DEF y2
  <2>5. ~IsNew(n, x)
    BY <1>4 DEF IsNew
  <2> QED
    BY <1>4, <2>2, <2>3, <2>4, <2>5 DEF outs
<1>5. CASE ~isInputLink(n, l.source)
  <2> DEFINE y2 == MkContext(Advanced(x.stack), x.components, x.belongsTo, x.merging,
                     MkComponent(x.component.inputs, x.component.inners, outs), x.componentCells)
  <2>1. nextLink(y1) = y2
    <3>1. /\ y1.stack = x.stack /\ y1.components = x.components /\ y1.belongsTo = x.belongsTo
          /\ y1.merging = x.merging /\ y1.componentCells = x.componentCells
          /\ y1.component = MkComponent(x.component.inputs, x.component.inners, outs)
      BY DEF MkContext
    <3> HIDE DEF y1
    <3> QED
      BY <1>3, <3>1, StepFields
  <2>2. IsContext(y2)
    BY DEF IsContext, MkContext
  <2>3. Visit(n, x) = push(n, y2, l.source, l.signal)
    BY <1>2, <1>5, <2>1
  <2>4. /\ y2.stack = Advanced(x.stack) /\ y2.components = x.components /\ y2.belongsTo = x.belongsTo
        /\ y2.merging = x.merging /\ y2.componentCells = x.componentCells
        /\ y2.component = MkComponent(x.component.inputs, x.component.inners, outs)
    BY DEF MkContext
  <2> HIDE DEF y2
  <2>5. IsNew(n, x) <=> l.source \notin DOMAIN x.belongsTo \cup x.componentCells
    BY <1>5 DEF IsNew
  <2>7. CASE l.source \in DOMAIN x.belongsTo
    <3>1. push(n, y2, l.source, l.signal) =
            MkContext(y2.stack, y2.components, y2.belongsTo, y2.merging \cup {y2.belongsTo[l.source]},
                      y2.component, y2.componentCells)
      BY <2>2, <2>4, <2>7 DEF push, IsContext, MkContext
    <3> QED
      BY <1>5, <2>3, <2>4, <2>5, <2>7, <3>1 DEF outs
  <2>8. CASE l.source \notin DOMAIN x.belongsTo /\ l.source \in x.componentCells
    <3>1. push(n, y2, l.source, l.signal) = y2
      BY <2>2, <2>4, <2>8 DEF push, IsContext, MkContext
    <3>2. y2 = MkContext(y2.stack, y2.components, y2.belongsTo, y2.merging, y2.component, y2.componentCells)
      BY <2>2 DEF IsContext
    <3> QED
      BY <1>5, <2>3, <2>4, <2>5, <2>8, <3>1, <3>2 DEF outs
  <2>9. CASE l.source \notin DOMAIN x.belongsTo \cup x.componentCells
    <3>1. push(n, y2, l.source, l.signal) =
            MkContext(Append(y2.stack, Entry(l.source, fillLinks(n, l.source, {l.signal}))), y2.components,
                      y2.belongsTo, y2.merging, y2.component, y2.componentCells \cup {l.source})
      BY <2>2, <2>4, <2>9 DEF push, IsContext, MkContext
    <3> QED
      BY <1>5, <2>3, <2>4, <2>5, <2>9, <3>1 DEF outs
  <2> QED
    BY <2>7, <2>8, <2>9
<1> QED
  BY <1>4, <1>5

-----------------------------------------------------------------------------
(* Cones and components.                                                   *)

GatesIn(n) == GateIDs \cap Cells(n)

Cone(n, s) == Abstract!ConeOf(GraphOf(n), s)

Fanin(n, g) == GraphOf(n).fanin[g]

\* The cone of s contains s, if s is a gate, and what its gates link to; it is
\* contained in every set of which this is true.
LEMMA ConeFacts ==
  ASSUME NEW n, NEW s
  PROVE  /\ Cone(n, s) \subseteq GateIDs
         /\ s \in GateIDs => s \in Cone(n, s)
         /\ \A g \in Cone(n, s) : Fanin(n, g) \cap GateIDs \subseteq Cone(n, s)
         /\ \A S \in SUBSET GateIDs :
              /\ s \in GateIDs => s \in S
              /\ \A g \in S : Fanin(n, g) \cap GateIDs \subseteq S
              => Cone(n, s) \subseteq S
<1> DEFINE G == GraphOf(n)
<1>1. \A g : Fanin(n, g) = G.fanin[g]
  BY DEF Fanin
<1>2. Cone(n, s) = Abstract!ConeOf(G, s)
  BY DEF Cone
<1> HIDE DEF G
<1> QED
  BY <1>1, <1>2 DEF Abstract!ConeOf, Abstract!IsClosed

\* What the gates of a net link to.
LEMMA FaninLinks ==
  ASSUME NEW n \in Nets, NEW g \in GatesIn(n)
  PROVE  Fanin(n, g) = ToSet(n.links[g])
<1>1. DOMAIN n.links = Cells(n)
  BY NetsAssumption DEF IsNet, Cells
<1> QED
  BY <1>1 DEF Fanin, GraphOf, GatesIn

\* A link leads to an input or to a gate, and never to both.
LEMMA Sources ==
  ASSUME NEW n \in Nets, NEW c \in Cells(n), NEW s \in ToSet(n.links[c])
  PROVE  s \in Cells(n) /\ (isInputLink(n, s) <=> s \notin GateIDs)
<1>1. n.links[c] \in Seq(Cells(n))
  BY NetsAssumption DEF IsNet, Cells
<1>2. s \in Cells(n)
  BY <1>1 DEF ToSet
<1> QED
  BY <1>2, NetsAssumption DEF IsNet, Cells

\* o is the key of an output of the net; its component depends on s.
IsOutputKey(n, o) == \E k \in DOMAIN Outs(n) : o = OutputKey(Outs(n)[k])

Uses(n, o, s) == s = o.source \/ \E g \in Cone(n, o.source) : s \in Fanin(n, g)

\* A component: gates and outputs of the net, the outputs with their signal types,
\* and inputs with the signal type of an output that depends on them.
IsPart(n, c) ==
  /\ IsComponent(c)
  /\ c.inners \in Seq(GatesIn(n))
  /\ \A o \in DOMAIN c.outputs : IsOutputKey(n, o) /\ c.outputs[o] = getSignalType(n, o.target, o.port)
  /\ \A s \in DOMAIN c.inputs : \E o \in DOMAIN c.outputs : c.outputs[o] = c.inputs[s] /\ Uses(n, o, s)

\* The gate g of c links to inputs of c and to gates in S.
IsCovered(n, c, g, S) ==
  \A s \in ToSet(n.links[g]) : IF isInputLink(n, s) THEN s \in DOMAIN c.inputs ELSE s \in S

\* A component with everything that its gates depend on.
IsFinished(n, c) == \A g \in ToSet(c.inners) : IsCovered(n, c, g, ToSet(c.inners))

\* The component e is made of c and d.
IsUnion(c, d, e) ==
  /\ ToSet(e.inners) = ToSet(c.inners) \cup ToSet(d.inners)
  /\ DOMAIN e.outputs = DOMAIN c.outputs \cup DOMAIN d.outputs
  /\ DOMAIN e.inputs = DOMAIN c.inputs \cup DOMAIN d.inputs
  /\ e.inners = c.inners \o d.inners

\* Two components merged (MergeComponent) are a component: an input known to both keeps the
\* signal type of the first, and the output that justifies it is there.
LEMMA MergePart ==
  ASSUME NEW n, NEW c, NEW d, IsPart(n, c), IsPart(n, d), NEW e, e = MergeComponent(c, d)
  PROVE  IsPart(n, e) /\ IsUnion(c, d, e)
<1> DEFINE G == GatesIn(n)
<1>1. /\ e.inputs = Insert(c.inputs, d.inputs) /\ e.inners = c.inners \o d.inners
      /\ e.outputs = Insert(c.outputs, d.outputs) /\ IsComponent(e)
  BY DEF MergeComponent, IsComponent, MkComponent
<1>2. /\ DOMAIN e.outputs = DOMAIN c.outputs \cup DOMAIN d.outputs
      /\ DOMAIN e.inputs = DOMAIN c.inputs \cup DOMAIN d.inputs
      /\ \A o \in DOMAIN e.outputs : e.outputs[o] = IF o \in DOMAIN c.outputs THEN c.outputs[o] ELSE d.outputs[o]
      /\ \A s \in DOMAIN e.inputs : e.inputs[s] = IF s \in DOMAIN c.inputs THEN c.inputs[s] ELSE d.inputs[s]
  BY <1>1 DEF Insert
<1>3. e.inners \in Seq(G) /\ ToSet(e.inners) = ToSet(c.inners) \cup ToSet(d.inners)
  <2>1. c.inners \in Seq(G) /\ d.inners \in Seq(G)
    BY DEF IsPart
  <2> QED
    BY <1>1, <2>1, ToSetConcat
<1>4. \A o \in DOMAIN e.outputs : IsOutputKey(n, o) /\ e.outputs[o] = getSignalType(n, o.target, o.port)
  BY <1>2 DEF IsPart
<1>5. ASSUME NEW s \in DOMAIN e.inputs
      PROVE  \E o \in DOMAIN e.outputs : e.outputs[o] = e.inputs[s] /\ Uses(n, o, s)
  <2>1. CASE s \in DOMAIN c.inputs
    <3>1. PICK o \in DOMAIN c.outputs : c.outputs[o] = c.inputs[s] /\ Uses(n, o, s)
      BY <2>1 DEF IsPart
    <3> QED
      BY <1>2, <2>1, <3>1
  <2>2. CASE s \notin DOMAIN c.inputs
    <3>1. PICK o \in DOMAIN d.outputs : d.outputs[o] = d.inputs[s] /\ Uses(n, o, s)
      BY <1>2, <2>2 DEF IsPart
    <3>2. d.outputs[o] = getSignalType(n, o.target, o.port)
      BY <3>1 DEF IsPart
    <3> QED
      BY <1>2, <1>4, <2>2, <3>1, <3>2
  <2> QED
    BY <2>1, <2>2
<1>6. IsPart(n, e)
  BY <1>1, <1>3, <1>4, <1>5 DEF IsPart
<1> QED
  BY <1>1, <1>2, <1>3, <1>6 DEF IsUnion

\* The component without cells.
LEMMA EmptyPart ==
  ASSUME NEW n
  PROVE  /\ IsPart(n, NoComponent) /\ IsFinished(n, NoComponent)
         /\ ToSet(NoComponent.inners) = {} /\ DOMAIN NoComponent.outputs = {}
<1>1. NoComponent.inners = << >> /\ DOMAIN NoComponent.outputs = {} /\ DOMAIN NoComponent.inputs = {} /\ IsComponent(NoComponent)
  BY DEF NoComponent, IsComponent, MkComponent
<1>2. ToSet(<< >>) = {} /\ << >> \in Seq(GatesIn(n))
  BY DEF ToSet
<1> QED
  BY <1>1, <1>2 DEF IsPart, IsFinished

-----------------------------------------------------------------------------
(* The inductive invariant.                                                *)

\* The gates of the i-th component.
GatesAt(x, i) == ToSet(x.components[i].inners)

IsList(s) == Len(s) \in Nat /\ DOMAIN s = 1 .. Len(s)

\* The components completed: each has what its gates depend on, and belongsTo names
\* the only component of a gate.
StoreInv(n, x) ==
  /\ IsList(x.components)
  /\ \A i \in DOMAIN x.components :
       /\ IsPart(n, x.components[i]) /\ IsFinished(n, x.components[i])
       /\ GatesAt(x, i) # {} => DOMAIN x.components[i].outputs # {}
       /\ \A g \in GatesAt(x, i) : g \in DOMAIN x.belongsTo /\ x.belongsTo[g] = i
  /\ \A g \in DOMAIN x.belongsTo : x.belongsTo[g] \in DOMAIN x.components /\ g \in GatesAt(x, x.belongsTo[g])

\* No component is under construction.
IsFresh(x) == x.component = NoComponent /\ x.merging = {} /\ x.componentCells = {}

\* The traversal has met s: an input is noted, a gate is in the component under
\* construction (or on the stack) or in one that will be merged with it.
IsSeen(n, x, s) ==
  IF isInputLink(n, s) THEN s \in DOMAIN x.component.inputs
  ELSE s \in x.componentCells \/ (s \in DOMAIN x.belongsTo /\ x.belongsTo[s] \in x.merging)

\* An entry of the stack for a gate met on the way from output o: the links passed lead
\* to what has been met.
IsGateEntry(n, x, o, e) ==
  /\ e.cell \in GatesIn(n) /\ e.cell \in x.componentCells
  /\ e.links = GateLinks(n, e.cell, o.signal)
  /\ e.index \in 1 .. Len(e.links) + 1
  /\ \A j \in 1 .. e.index - 1 : IsSeen(n, x, n.links[e.cell][j])

\* The gates met on the way from output o: those of other components make these join,
\* the others are listed or on the stack.
CellInv(n, x, o) ==
  /\ x.merging \subseteq DOMAIN x.components
  /\ \A i \in x.merging : GatesAt(x, i) \cap Cone(n, o.source) # {}
  /\ x.componentCells \subseteq Cone(n, o.source) \ DOMAIN x.belongsTo
  /\ ToSet(x.component.inners) \subseteq x.componentCells
  /\ \A g \in x.componentCells : g \in ToSet(x.component.inners) \/ \E k \in 2 .. Len(x.stack) : x.stack[k].cell = g
  /\ \A g \in ToSet(x.component.inners) : \A s \in ToSet(n.links[g]) : IsSeen(n, x, s)
  /\ \A k \in 2 .. Len(x.stack) : IsGateEntry(n, x, o, x.stack[k])

\* The component of output o is under construction.
WorkInv(n, x, o) ==
  /\ IsPart(n, x.component) /\ DOMAIN x.component.outputs = {OutputKey(o)}
  /\ CellInv(n, x, o)
  /\ IsSeen(n, x, o.source)

\* The first entry of the stack lists the outputs.
StackInv(n, x) ==
  /\ x.stack \in Seq(EntrySet(n))
  /\ x.stack # << >> => /\ x.stack[1].cell = NoCell /\ x.stack[1].links = Outs(n)
                        /\ x.stack[1].index \in 1 .. Len(Outs(n)) + 1
                        /\ Outs(n) # << >>

\* The number of the output whose component is under construction.
Current(x) == x.stack[1].index - 1

DecomposerInv(n, x) ==
  /\ IsContext(x) /\ IsComponent(x.component)
  /\ StackInv(n, x)
  /\ StoreInv(n, x)
  /\ x.stack = << >> => IsFresh(x)
  /\ x.stack # << >> /\ Current(x) = 0 => IsFresh(x) /\ Len(x.stack) = 1
  /\ x.stack # << >> /\ Current(x) # 0 => WorkInv(n, x, Outs(n)[Current(x)])

\* The inductive invariant of the traversal.
Inv == net \in Nets /\ DecomposerInv(net, context)

-----------------------------------------------------------------------------
(* An iteration at a link.                                                 *)

\* The fields of the context after the iteration.
LEMMA VisitResult ==
  ASSUME NEW n, NEW x, IsContext(x), IsComponent(x.component), NEW l, l = Here(x), NEW y, y = Visit(n, x)
  PROVE  /\ IsContext(y) /\ IsComponent(y.component)
         /\ y.components = x.components /\ y.belongsTo = x.belongsTo
         /\ IsNew(n, x) => /\ y.stack = Append(Advanced(x.stack), Entry(l.source, GateLinks(n, l.source, l.signal)))
                           /\ y.componentCells = x.componentCells \cup {l.source}
         /\ ~IsNew(n, x) => y.stack = Advanced(x.stack) /\ y.componentCells = x.componentCells
         /\ IF ~isInputLink(n, l.source) /\ l.source \in DOMAIN x.belongsTo
            THEN y.merging = x.merging \cup {x.belongsTo[l.source]} ELSE y.merging = x.merging
         /\ IF isInputLink(n, l.source)
            THEN y.component.inputs = Put(x.component.inputs, l.source, l.signal)
            ELSE y.component.inputs = x.component.inputs
         /\ y.component.inners = x.component.inners
         /\ IF isOutput(Top(x))
            THEN y.component.outputs = Put(x.component.outputs, OutputKey(l), l.signal)
            ELSE y.component.outputs = x.component.outputs
<1> DEFINE s == IF IsNew(n, x) THEN Append(Advanced(x.stack), Entry(l.source, GateLinks(n, l.source, l.signal)))
                ELSE Advanced(x.stack)
           m == IF ~isInputLink(n, l.source) /\ l.source \in DOMAIN x.belongsTo
                THEN x.merging \cup {x.belongsTo[l.source]} ELSE x.merging
           i == IF isInputLink(n, l.source) THEN Put(x.component.inputs, l.source, l.signal) ELSE x.component.inputs
           o == IF isOutput(Top(x)) THEN Put(x.component.outputs, OutputKey(l), l.signal) ELSE x.component.outputs
           cc == IF IsNew(n, x) THEN x.componentCells \cup {l.source} ELSE x.componentCells
<1>1. y = MkContext(s, x.components, x.belongsTo, m, MkComponent(i, x.component.inners, o), cc)
  BY VisitFields DEF GateLinks
<1> HIDE DEF s, m, i, o, cc
<1>2. /\ IsContext(y) /\ IsComponent(y.component) /\ y.stack = s /\ y.components = x.components
      /\ y.belongsTo = x.belongsTo /\ y.merging = m /\ y.componentCells = cc
      /\ y.component.inputs = i /\ y.component.inners = x.component.inners /\ y.component.outputs = o
  BY <1>1 DEF IsContext, IsComponent, MkContext, MkComponent
<1>3. /\ IsNew(n, x) => /\ s = Append(Advanced(x.stack), Entry(l.source, GateLinks(n, l.source, l.signal)))
                        /\ cc = x.componentCells \cup {l.source}
      /\ ~IsNew(n, x) => s = Advanced(x.stack) /\ cc = x.componentCells
  BY Zenon DEF s, cc
<1>4. /\ IF ~isInputLink(n, l.source) /\ l.source \in DOMAIN x.belongsTo
         THEN m = x.merging \cup {x.belongsTo[l.source]} ELSE m = x.merging
      /\ IF isInputLink(n, l.source) THEN i = Put(x.component.inputs, l.source, l.signal)
         ELSE i = x.component.inputs
      /\ IF isOutput(Top(x)) THEN o = Put(x.component.outputs, OutputKey(l), l.signal)
         ELSE o = x.component.outputs
  BY DEF m, i, o
<1> QED
  BY <1>2, <1>3, <1>4

\* y has the stack that the iteration leaves.
StackAfter(n, x, y) ==
  /\ StackInv(n, y) /\ y.stack # << >>
  /\ Here(x) \in LinkSet(n)
  /\ Top(x).index \in 1 .. Len(Top(x).links)
  /\ \A k \in 1 .. Len(x.stack) - 1 : y.stack[k] = x.stack[k]
  /\ y.stack[Len(x.stack)] = [cell |-> Top(x).cell, links |-> Top(x).links, index |-> Top(x).index + 1]
  /\ ~IsNew(n, x) => Len(y.stack) = Len(x.stack)
  /\ IsNew(n, x) => /\ Len(y.stack) = Len(x.stack) + 1
                    /\ y.stack[Len(y.stack)] =
                         Entry(Here(x).source, GateLinks(n, Here(x).source, Here(x).signal))

\* An iteration at a link leaves this stack: the link is passed, and a new gate is on top.
LEMMA VisitStack ==
  ASSUME NEW n \in Nets, NEW x, IsContext(x), IsComponent(x.component), StackInv(n, x),
         x.stack # << >>, ~isPassed(Top(x)), NEW y, y = Visit(n, x)
  PROVE  StackAfter(n, x, y)
<1> DEFINE E == EntrySet(n)
           s == x.stack
           e == Top(x)
           a == Advanced(s)
           l == Here(x)
           new == Entry(l.source, GateLinks(n, l.source, l.signal))
<1>1. s \in Seq(E) /\ Len(s) \in Nat \ {0} /\ e = s[Len(s)] /\ e \in E
  BY DEF StackInv, Top, Last
<1>2. e.links \in Seq(LinkSet(n)) /\ e.index \in Nat \ {0} /\ e.cell \in Cells(n) \cup {NoCell}
  BY <1>1 DEF EntrySet
<1>3. e.index \in 1 .. Len(e.links)
  BY <1>2 DEF isPassed
<1>4. l \in LinkSet(n)
  BY <1>2, <1>3 DEF Here
<1>5. /\ a \in Seq(E) /\ Len(a) = Len(s)
      /\ \A k \in 1 .. Len(s) - 1 : a[k] = s[k]
      /\ a[Len(s)] = [cell |-> e.cell, links |-> e.links, index |-> e.index + 1]
  BY <1>1, AdvancedStack
<1>6. new \in E
  <2>1. l.source \in Cells(n) /\ l.signal \in Signals
    BY <1>4 DEF LinkSet
  <2>2. GateLinks(n, l.source, l.signal) \in Seq(LinkSet(n))
    BY <2>1, GateLinksFacts
  <2> QED
    BY <2>1, <2>2 DEF Entry, EntrySet
<1>7. /\ IsNew(n, x) => y.stack = Append(a, new)
      /\ ~IsNew(n, x) => y.stack = a
  BY VisitResult
<1> HIDE DEF E, e, a, l, new
<1>8. /\ y.stack \in Seq(E) /\ y.stack # << >>
      /\ \A k \in 1 .. Len(s) - 1 : y.stack[k] = s[k]
      /\ y.stack[Len(s)] = [cell |-> e.cell, links |-> e.links, index |-> e.index + 1]
      /\ ~IsNew(n, x) => Len(y.stack) = Len(s)
      /\ IsNew(n, x) => Len(y.stack) = Len(s) + 1 /\ y.stack[Len(y.stack)] = new
  <2>1. CASE IsNew(n, x)
    <3>1. y.stack = Append(a, new)
      BY <1>7, <2>1
    <3>2. Append(a, new) \in Seq(E) /\ Len(Append(a, new)) = Len(a) + 1
      BY <1>5, <1>6
    <3>3. \A k \in 1 .. Len(a) : Append(a, new)[k] = a[k]
      BY <1>5
    <3>4. Append(a, new)[Len(a) + 1] = new
      BY <1>5
    <3>5. Append(a, new) # << >>
      OBVIOUS
    <3> HIDE DEF s
    <3>6. Len(s) \in Nat \ {0} /\ Len(a) = Len(s)
      BY <1>1, <1>5
    <3> QED
      BY <1>5, <2>1, <3>1, <3>2, <3>3, <3>4, <3>5, <3>6
  <2>2. CASE ~IsNew(n, x)
    <3>1. y.stack = a /\ a # << >>
      BY <1>1, <1>5, <1>7, <2>2
    <3> HIDE DEF s
    <3> QED
      BY <1>5, <2>2, <3>1
  <2> QED
    BY <2>1, <2>2
<1>9. /\ y.stack[1].cell = NoCell /\ y.stack[1].links = Outs(n)
      /\ y.stack[1].index \in 1 .. Len(Outs(n)) + 1
  <2>1. /\ s[1].cell = NoCell /\ s[1].links = Outs(n) /\ s[1].index \in 1 .. Len(Outs(n)) + 1
    BY DEF StackInv
  <2>2. CASE Len(s) = 1
    <3>1. y.stack[1] = [cell |-> e.cell, links |-> e.links, index |-> e.index + 1] /\ e = s[1]
      BY <1>1, <1>8, <2>2
    <3> QED
      BY <1>3, <2>1, <3>1, <1>2
  <2>3. CASE Len(s) # 1
    <3>1. 1 \in 1 .. Len(s) - 1
      <4> DEFINE m == Len(s)
      <4>1. m \in Nat \ {0} /\ m # 1
        BY <1>1, <2>3
      <4> HIDE DEF m
      <4>2. 1 \in 1 .. m - 1
        BY <4>1
      <4> QED
        BY <4>2 DEF m
    <3> QED
      BY <1>8, <2>1, <3>1
  <2> QED
    BY <2>2, <2>3
<1>10. Outs(n) # << >>
  BY DEF StackInv
<1> QED
  BY <1>3, <1>4, <1>8, <1>9, <1>10 DEF StackAfter, StackInv, E, e, l, new

\* What has been met stays met, and the source of the link is met.
LEMMA VisitSeen ==
  ASSUME NEW n, NEW x, IsContext(x), IsComponent(x.component), NEW y, y = Visit(n, x)
  PROVE  /\ \A s : IsSeen(n, x, s) => IsSeen(n, y, s)
         /\ IsSeen(n, y, Here(x).source)
         /\ x.componentCells \subseteq y.componentCells
<1> DEFINE l == Here(x)
<1>1. /\ y.belongsTo = x.belongsTo
      /\ IsNew(n, x) => y.componentCells = x.componentCells \cup {l.source}
      /\ ~IsNew(n, x) => y.componentCells = x.componentCells
      /\ IF ~isInputLink(n, l.source) /\ l.source \in DOMAIN x.belongsTo
         THEN y.merging = x.merging \cup {x.belongsTo[l.source]} ELSE y.merging = x.merging
      /\ IF isInputLink(n, l.source)
         THEN y.component.inputs = Put(x.component.inputs, l.source, l.signal)
         ELSE y.component.inputs = x.component.inputs
  BY VisitResult
<1>2. isInputLink(n, l.source) => DOMAIN y.component.inputs = DOMAIN x.component.inputs \cup {l.source}
  BY <1>1 DEF Put
<1>3. x.componentCells \subseteq y.componentCells /\ x.merging \subseteq y.merging
      /\ DOMAIN x.component.inputs \subseteq DOMAIN y.component.inputs
  BY <1>1, <1>2
<1>4. IsSeen(n, y, l.source)
  BY <1>1, <1>2 DEF IsSeen, IsNew
<1> HIDE DEF l
<1>5. \A s : IsSeen(n, x, s) => IsSeen(n, y, s)
  BY <1>1, <1>3 DEF IsSeen
<1> QED
  BY <1>3, <1>4, <1>5 DEF l

\* An iteration at a link keeps what is known of the gates met.
LEMMA VisitCells ==
  ASSUME NEW n \in Nets, NEW x, IsContext(x), IsComponent(x.component), StackInv(n, x), StoreInv(n, x),
         x.stack # << >>, ~isPassed(Top(x)), NEW o, CellInv(n, x, o), NEW y, y = Visit(n, x),
         Here(x).signal = o.signal, isInputLink(n, Here(x).source) \/ Here(x).source \in Cone(n, o.source)
  PROVE  CellInv(n, y, o)
<1> DEFINE l == Here(x)
           s == l.source
           h == Len(x.stack)
           e == Top(x)
<1>1. /\ y.components = x.components /\ y.belongsTo = x.belongsTo
      /\ y.component.inners = x.component.inners
      /\ IsNew(n, x) => y.componentCells = x.componentCells \cup {s}
      /\ ~IsNew(n, x) => y.componentCells = x.componentCells
      /\ IF ~isInputLink(n, s) /\ s \in DOMAIN x.belongsTo
         THEN y.merging = x.merging \cup {x.belongsTo[s]} ELSE y.merging = x.merging
  BY VisitResult
<1>2. /\ y.stack \in Seq(EntrySet(n))
      /\ l \in LinkSet(n) /\ e.index \in 1 .. Len(e.links)
      /\ \A k \in 1 .. h - 1 : y.stack[k] = x.stack[k]
      /\ y.stack[h] = [cell |-> e.cell, links |-> e.links, index |-> e.index + 1]
      /\ ~IsNew(n, x) => Len(y.stack) = h
      /\ IsNew(n, x) => Len(y.stack) = h + 1 /\ y.stack[h + 1] = Entry(s, GateLinks(n, s, l.signal))
  <2>1. StackAfter(n, x, y)
    BY VisitStack
  <2> QED
    BY <2>1 DEF StackAfter, StackInv
<1>3. /\ \A z : IsSeen(n, x, z) => IsSeen(n, y, z)
      /\ IsSeen(n, y, s) /\ x.componentCells \subseteq y.componentCells
  BY VisitSeen
<1>4. h \in Nat \ {0} /\ e = x.stack[h]
  BY DEF StackInv, Top, Last
<1>5. s \in Cells(n) /\ l.signal \in Signals
  BY <1>2 DEF LinkSet
<1>6. \A i : GatesAt(y, i) = GatesAt(x, i)
  BY <1>1 DEF GatesAt
<1>7. s \notin GateIDs => isInputLink(n, s)
  BY ConeFacts
<1> HIDE DEF l, s, h, e
<1>8. y.merging \subseteq DOMAIN y.components
  BY <1>1 DEF CellInv, StoreInv
<1>9. \A i \in y.merging : GatesAt(y, i) \cap Cone(n, o.source) # {}
  <2>1. ~isInputLink(n, s) => s \in Cone(n, o.source)
    BY DEF s, l
  <2>2. \A g \in DOMAIN x.belongsTo : g \in GatesAt(x, x.belongsTo[g])
    BY DEF StoreInv
  <2>3. \A i \in x.merging : GatesAt(x, i) \cap Cone(n, o.source) # {}
    BY DEF CellInv
  <2> QED
    BY <1>1, <1>6, <2>1, <2>2, <2>3
<1>10. y.componentCells \subseteq Cone(n, o.source) \ DOMAIN y.belongsTo
  <2>1. IsNew(n, x) => s \in Cone(n, o.source) \ DOMAIN x.belongsTo
    BY DEF IsNew, s, l
  <2> QED
    BY <1>1, <2>1 DEF CellInv
<1>11. ToSet(y.component.inners) \subseteq y.componentCells
  BY <1>1, <1>3 DEF CellInv
<1>12. ASSUME NEW g \in y.componentCells
       PROVE  g \in ToSet(y.component.inners) \/ \E k \in 2 .. Len(y.stack) : y.stack[k].cell = g
  <2>1. CASE g \in x.componentCells /\ g \notin ToSet(x.component.inners)
    <3>1. PICK k \in 2 .. h : x.stack[k].cell = g
      BY <2>1 DEF CellInv, h
    <3>2. y.stack[k].cell = g
      <4>1. CASE k = h
        BY <1>2, <1>4, <3>1, <4>1
      <4>2. CASE k # h
        <5>1. k \in 1 .. h - 1
          BY <1>4, <4>2
        <5> QED
          BY <1>2, <3>1, <5>1
      <4> QED
        BY <4>1, <4>2
    <3>3. k \in 2 .. Len(y.stack)
      BY <1>2, <1>4
    <3> QED
      BY <3>2, <3>3
  <2>2. CASE g \notin x.componentCells
    <3>1. IsNew(n, x) /\ g = s
      BY <1>1, <1>12, <2>2
    <3>2. y.stack[h + 1].cell = s
      BY <1>2, <3>1 DEF Entry
    <3>3. h + 1 \in 2 .. Len(y.stack)
      BY <1>2, <1>4, <3>1
    <3> QED
      BY <3>1, <3>2, <3>3
  <2> QED
    BY <1>1, <2>1, <2>2
<1>13. \A g \in ToSet(y.component.inners) : \A z \in ToSet(n.links[g]) : IsSeen(n, y, z)
  BY <1>1, <1>3 DEF CellInv
<1>14. ASSUME NEW k \in 2 .. Len(y.stack)
       PROVE  IsGateEntry(n, y, o, y.stack[k])
  <2>1. CASE k \in 1 .. h - 1
    <3>1. IsGateEntry(n, x, o, x.stack[k]) /\ y.stack[k] = x.stack[k]
      <4>1. k \in 2 .. h
        BY <1>4, <2>1
      <4> QED
        BY <1>2, <2>1, <4>1 DEF CellInv, h
    <3> QED
      BY <1>3, <3>1 DEF IsGateEntry
  <2>2. CASE k = h
    <3>1. IsGateEntry(n, x, o, e)
      <4>1. h \in 2 .. h
        BY <1>4, <2>2
      <4> QED
        BY <1>4, <4>1 DEF CellInv, h
    <3> DEFINE f == y.stack[k]
    <3>2. f.cell = e.cell /\ f.links = e.links /\ f.index = e.index + 1
      BY <1>2, <2>2
    <3> HIDE DEF f
    <3>3. n.links[e.cell][e.index] = s
      <4>1. e.cell \in Cells(n) /\ e.links = GateLinks(n, e.cell, l.signal)
        BY <3>1 DEF IsGateEntry, GatesIn, l
      <4>2. DOMAIN e.links = DOMAIN n.links[e.cell] /\ e.links \in Seq(LinkSet(n))
        BY <1>5, <4>1, GateLinksFacts
      <4>3. e.index \in DOMAIN n.links[e.cell]
        BY <1>2, <4>2
      <4>4. IsPin(n, e.cell, e.index, e.links[e.index])
        BY <1>5, <4>1, <4>3, GateLinksFacts
      <4>5. l = e.links[e.index]
        BY DEF l, Here, e
      <4> QED
        BY <4>4, <4>5 DEF IsPin, s
    <3>4. f.cell \in GatesIn(n) /\ f.cell \in y.componentCells /\ f.links = GateLinks(n, f.cell, o.signal)
      BY <1>3, <3>1, <3>2 DEF IsGateEntry
    <3>5. f.index \in 1 .. Len(f.links) + 1
      BY <1>2, <3>2
    <3>6. ASSUME NEW j \in 1 .. f.index - 1 PROVE IsSeen(n, y, n.links[f.cell][j])
      <4>1. e.index \in Nat
        BY <1>2
      <4>2. CASE j = e.index
        BY <1>3, <3>2, <3>3, <4>2
      <4>3. CASE j # e.index
        <5>1. j \in 1 .. e.index - 1
          BY <3>2, <4>1, <4>3
        <5> QED
          BY <1>3, <3>1, <3>2, <5>1 DEF IsGateEntry
      <4> QED
        BY <4>2, <4>3
    <3>7. IsGateEntry(n, y, o, f)
      BY <3>4, <3>5, <3>6 DEF IsGateEntry
    <3> QED
      BY <3>7 DEF f
  <2>3. CASE k = h + 1 /\ IsNew(n, x)
    <3> DEFINE f == y.stack[k]
    <3>1. f.cell = s /\ f.links = GateLinks(n, s, o.signal) /\ f.index = 1
      <4>1. l.signal = o.signal
        BY DEF l
      <4> QED
        BY <1>2, <2>3, <4>1 DEF Entry
    <3>2. s \in GatesIn(n) /\ s \in y.componentCells
      BY <1>1, <1>5, <1>7, <2>3 DEF IsNew, GatesIn, s, l
    <3>3. f.links \in Seq(LinkSet(n))
      <4>1. o.signal \in Signals
        BY <1>5 DEF l
      <4> QED
        BY <1>5, <3>1, <4>1, GateLinksFacts
    <3> HIDE DEF f
    <3>4. f.index \in 1 .. Len(f.links) + 1
      BY <3>1, <3>3
    <3>5. IsGateEntry(n, y, o, f)
      BY <3>1, <3>2, <3>4 DEF IsGateEntry
    <3> QED
      BY <3>5 DEF f
  <2>4. k \in 1 .. h - 1 \/ k = h \/ (k = h + 1 /\ IsNew(n, x))
    BY <1>2, <1>4
  <2> QED
    BY <2>1, <2>2, <2>3, <2>4
<1> QED
  BY <1>8, <1>9, <1>10, <1>11, <1>12, <1>13, <1>14 DEF CellInv

\* An input is noted with the signal type of the output from which it has been met.
LEMMA VisitPart ==
  ASSUME NEW n \in Nets, NEW p \in DOMAIN Outs(n), NEW o, o = Outs(n)[p],
         NEW x, IsContext(x), IsPart(n, x.component), NEW y, y = Visit(n, x),
         \/ isOutput(Top(x)) /\ Here(x) = o /\ DOMAIN x.component.outputs = {}
         \/ ~isOutput(Top(x)) /\ DOMAIN x.component.outputs = {OutputKey(o)} /\ Here(x).signal = o.signal,
         Uses(n, OutputKey(o), Here(x).source)
  PROVE  IsPart(n, y.component) /\ DOMAIN y.component.outputs = {OutputKey(o)}
<1> DEFINE l == Here(x)
           c == x.component
           d == y.component
           key == OutputKey(o)
<1>1. /\ IsComponent(d) /\ d.inners = c.inners
      /\ IF isInputLink(n, l.source) THEN d.inputs = Put(c.inputs, l.source, l.signal) ELSE d.inputs = c.inputs
      /\ IF isOutput(Top(x)) THEN d.outputs = Put(c.outputs, OutputKey(l), l.signal) ELSE d.outputs = c.outputs
  BY VisitResult DEF IsPart
<1>2. key.source = o.source /\ key.target = o.target /\ key.port = o.port
  BY DEF OutputKey
<1>3. IsOutputKey(n, key) /\ o.signal = getSignalType(n, key.target, key.port)
  BY <1>2, Outputs DEF IsOutputKey
<1>4. l.signal = o.signal
  OBVIOUS
<1> HIDE DEF key, l, d, c
<1>5. DOMAIN d.outputs = {key} /\ d.outputs[key] = o.signal
  <2>1. CASE isOutput(Top(x))
    <3>1. d.outputs = Put(c.outputs, key, o.signal) /\ DOMAIN c.outputs = {}
      BY <1>1, <2>1 DEF key, c, l
    <3> QED
      BY <3>1 DEF Put
  <2>2. CASE ~isOutput(Top(x))
    <3>1. d.outputs = c.outputs /\ DOMAIN c.outputs = {key}
      BY <1>1, <2>2 DEF key, c
    <3>2. c.outputs[key] = o.signal
      BY <1>3, <3>1 DEF IsPart, c
    <3> QED
      BY <3>1, <3>2
  <2> QED
    BY <2>1, <2>2
<1>6. ASSUME NEW s \in DOMAIN d.inputs
      PROVE  d.outputs[key] = d.inputs[s] /\ Uses(n, key, s)
  <2>1. CASE isInputLink(n, l.source) /\ s = l.source
    <3>1. d.inputs[s] = l.signal
      BY <1>1, <2>1 DEF Put
    <3>2. Uses(n, key, s)
      BY <2>1 DEF key, l
    <3> QED
      BY <1>4, <1>5, <3>1, <3>2
  <2>2. CASE ~(isInputLink(n, l.source) /\ s = l.source)
    <3>1. s \in DOMAIN c.inputs /\ d.inputs[s] = c.inputs[s]
      BY <1>1, <1>6, <2>2 DEF Put
    <3>2. PICK k \in DOMAIN c.outputs : c.outputs[k] = c.inputs[s] /\ Uses(n, k, s)
      BY <3>1 DEF IsPart, c
    <3>3. DOMAIN c.outputs = {key} /\ d.outputs = c.outputs
      BY <1>1, <3>2 DEF c, key
    <3> QED
      BY <3>1, <3>2, <3>3
  <2> QED
    BY <2>1, <2>2
<1>7. IsPart(n, d)
  <2>1. d.inners \in Seq(GatesIn(n))
    BY <1>1 DEF IsPart, c
  <2> QED
    BY <1>1, <1>3, <1>5, <1>6, <2>1 DEF IsPart
<1> QED
  BY <1>5, <1>7 DEF d, key

\* The components that have been completed do not change.
LEMMA VisitStore ==
  ASSUME NEW n, NEW x, NEW y, StoreInv(n, x), y.components = x.components, y.belongsTo = x.belongsTo
  PROVE  StoreInv(n, y)
  BY DEF StoreInv, GatesAt

\* The first iteration for an output.
LEMMA StartOutputInv ==
  ASSUME NEW n \in Nets, NEW x, IsContext(x), StackInv(n, x), StoreInv(n, x), IsFresh(x),
         Len(x.stack) = 1, ~isPassed(Top(x)), NEW y, y = Visit(n, x)
  PROVE  /\ DecomposerInv(n, y) /\ y.components = x.components /\ y.belongsTo = x.belongsTo
         /\ y.stack # << >> /\ y.stack[1].index = x.stack[1].index + 1
<1> DEFINE e == x.stack[1]
           p == e.index
           o == Outs(n)[p]
<1>1. /\ x.stack \in Seq(EntrySet(n)) /\ x.stack # << >> /\ Top(x) = e
      /\ e.cell = NoCell /\ e.links = Outs(n) /\ p \in 1 .. Len(Outs(n)) + 1 /\ isOutput(Top(x))
  BY DEF StackInv, Top, Last, isOutput
<1>2. /\ IsPart(n, x.component) /\ DOMAIN x.component.outputs = {} /\ ToSet(x.component.inners) = {}
      /\ IsComponent(x.component) /\ x.merging = {} /\ x.componentCells = {}
  BY EmptyPart DEF IsFresh, IsPart
<1>3. Here(x) = o
  BY <1>1 DEF Here
<1>4. /\ StackInv(n, y) /\ y.stack # << >> /\ o \in LinkSet(n) /\ p \in 1 .. Len(Outs(n))
      /\ y.stack[1].index = p + 1
  <2>1. StackAfter(n, x, y)
    BY <1>1, <1>2, VisitStack
  <2> QED
    BY <1>1, <1>3, <2>1 DEF StackAfter
<1>5. p \in DOMAIN Outs(n)
  BY <1>4, Outputs
<1> HIDE DEF e, p, o
<1>6. /\ IsContext(y) /\ IsComponent(y.component) /\ y.components = x.components /\ y.belongsTo = x.belongsTo
  BY <1>2, VisitResult
<1>7. CellInv(n, x, o)
  <2>1. \A k : k \notin 2 .. Len(x.stack)
    OBVIOUS
  <2> QED
    BY <1>2, <2>1 DEF CellInv
<1>8. isInputLink(n, o.source) \/ o.source \in Cone(n, o.source)
  <2>1. o.target \in Cells(n) /\ o.source \in ToSet(n.links[o.target])
    BY <1>4, <1>5, Outputs DEF LinkSet, o
  <2>2. isInputLink(n, o.source) <=> o.source \notin GateIDs
    BY <2>1, Sources
  <2> QED
    BY <2>2, ConeFacts
<1>9. CellInv(n, y, o)
  BY <1>1, <1>2, <1>3, <1>7, <1>8, VisitCells
<1>10. IsPart(n, y.component) /\ DOMAIN y.component.outputs = {OutputKey(o)}
  <2>1. Uses(n, OutputKey(o), Here(x).source)
    BY <1>3 DEF Uses, OutputKey
  <2>2. o = Outs(n)[p]
    BY DEF o
  <2> QED
    BY <1>1, <1>2, <1>3, <1>5, <2>1, <2>2, VisitPart
<1>11. IsSeen(n, y, o.source)
  BY <1>2, <1>3, VisitSeen
<1>12. Current(y) = p /\ p # 0
  BY <1>4 DEF Current
<1>13. WorkInv(n, y, Outs(n)[Current(y)])
  BY <1>9, <1>10, <1>11, <1>12 DEF WorkInv, o
<1>14. StoreInv(n, y)
  BY <1>6, VisitStore
<1> QED
  BY <1>4, <1>6, <1>12, <1>13, <1>14 DEF DecomposerInv, p, e

\* The link at which the traversal stands, if this is at a gate.
LEMMA HereLink ==
  ASSUME NEW n \in Nets, NEW x, NEW o, o.signal \in Signals, IsGateEntry(n, x, o, Top(x)),
         Top(x).index \in 1 .. Len(Top(x).links)
  PROVE  Here(x).signal = o.signal /\ Here(x).source \in ToSet(n.links[Top(x).cell])
<1> DEFINE e == Top(x)
<1>1. e.cell \in Cells(n) /\ e.links = GateLinks(n, e.cell, o.signal)
  BY DEF IsGateEntry, GatesIn
<1>2. DOMAIN e.links = DOMAIN n.links[e.cell] /\ e.links \in Seq(LinkSet(n))
  BY <1>1, GateLinksFacts
<1>3. e.index \in DOMAIN n.links[e.cell]
  BY <1>2
<1>4. IsPin(n, e.cell, e.index, e.links[e.index]) /\ e.links[e.index].signal = o.signal
  BY <1>1, <1>3, GateLinksFacts
<1>5. Here(x) = e.links[e.index]
  BY DEF Here
<1> QED
  BY <1>3, <1>4, <1>5 DEF IsPin, ToSet

\* An iteration at a link of a gate.
LEMMA VisitLinkInv ==
  ASSUME NEW n \in Nets, NEW x, DecomposerInv(n, x), x.stack # << >>, ~isOutput(Top(x)), ~isPassed(Top(x)),
         NEW y, y = Visit(n, x)
  PROVE  /\ DecomposerInv(n, y) /\ y.components = x.components
         /\ y.stack # << >> /\ y.stack[1].index = x.stack[1].index
<1> DEFINE e == Top(x)
           h == Len(x.stack)
           l == Here(x)
           p == Current(x)
           o == Outs(n)[p]
<1>1. IsContext(x) /\ IsComponent(x.component) /\ StackInv(n, x) /\ StoreInv(n, x)
  BY DEF DecomposerInv
<1>2. x.stack \in Seq(EntrySet(n)) /\ h \in Nat \ {0} /\ e = x.stack[h] /\ x.stack[1].cell = NoCell /\ e.cell # NoCell
      /\ x.stack[1].index \in 1 .. Len(Outs(n)) + 1
  BY <1>1 DEF StackInv, Top, Last, isOutput
<1>3. h # 1
  BY <1>2
<1>4. p # 0 /\ WorkInv(n, x, o)
  BY <1>3 DEF DecomposerInv
<1>5. p \in DOMAIN Outs(n)
  <2>1. p \in 1 .. Len(Outs(n))
    <3>1. p = x.stack[1].index - 1 /\ Len(Outs(n)) \in Nat
      BY Outputs DEF Current
    <3> QED
      BY <1>2, <1>4, <3>1
  <2> QED
    BY <2>1, Outputs
<1>6. /\ StackInv(n, y) /\ y.stack # << >> /\ l \in LinkSet(n)
      /\ e.index \in 1 .. Len(e.links)
      /\ \A k \in 1 .. h - 1 : y.stack[k] = x.stack[k]
  <2>1. StackAfter(n, x, y)
    BY <1>1, VisitStack
  <2> QED
    BY <2>1 DEF StackAfter
<1> HIDE DEF e, h, l, p, o
<1>7. y.stack[1] = x.stack[1]
  <2>1. 1 \in 1 .. h - 1
    BY <1>2, <1>3
  <2> QED
    BY <1>6, <2>1
<1>8. IsGateEntry(n, x, o, e)
  <2>1. h \in 2 .. h
    BY <1>2, <1>3
  <2> QED
    BY <1>2, <1>4, <2>1 DEF WorkInv, CellInv, h
<1>9. o \in LinkSet(n) /\ o.signal \in Signals
  BY <1>5, Outputs DEF o, LinkSet
<1>10. l.signal = o.signal /\ l.source \in ToSet(n.links[e.cell])
  BY <1>6, <1>8, <1>9, HereLink DEF l, e
<1>11. e.cell \in Cone(n, o.source) /\ e.cell \in GatesIn(n)
  BY <1>4, <1>8 DEF WorkInv, CellInv, IsGateEntry
<1>12. l.source \in Fanin(n, e.cell)
  BY <1>10, <1>11, FaninLinks
<1>13. isInputLink(n, l.source) \/ l.source \in Cone(n, o.source)
  <2>1. isInputLink(n, l.source) <=> l.source \notin GateIDs
    <3>1. e.cell \in Cells(n)
      BY <1>11 DEF GatesIn
    <3> QED
      BY <1>10, <3>1, Sources
  <2> QED
    BY <1>11, <1>12, <2>1, ConeFacts
<1>14. CellInv(n, y, o)
  BY <1>1, <1>4, <1>10, <1>13, VisitCells DEF WorkInv, l
<1>15. IsPart(n, y.component) /\ DOMAIN y.component.outputs = {OutputKey(o)}
  <2>1. Uses(n, OutputKey(o), Here(x).source)
    BY <1>11, <1>12 DEF Uses, OutputKey, l
  <2>2. o = Outs(n)[p] /\ Here(x).signal = o.signal
    BY <1>10 DEF o, l
  <2> QED
    BY <1>1, <1>4, <1>5, <2>1, <2>2, VisitPart DEF WorkInv
<1>16. IsSeen(n, y, o.source)
  BY <1>1, <1>4, VisitSeen DEF WorkInv
<1>17. Current(y) = p
  BY <1>7 DEF Current, p
<1>18. WorkInv(n, y, Outs(n)[Current(y)])
  BY <1>14, <1>15, <1>16, <1>17 DEF WorkInv, o
<1>19. IsContext(y) /\ IsComponent(y.component) /\ y.components = x.components /\ y.belongsTo = x.belongsTo
  BY <1>1, VisitResult
<1>20. StoreInv(n, y)
  BY <1>1, <1>19, VisitStore
<1> QED
  BY <1>4, <1>6, <1>7, <1>17, <1>18, <1>19, <1>20 DEF DecomposerInv

-----------------------------------------------------------------------------
(* A gate is left.                                                         *)

Left(x) == [addInner(x, Top(x).cell) EXCEPT !.stack = Front(@)]

\* What leaving a gate changes.
LEMMA LeftFields ==
  ASSUME NEW x, IsContext(x), IsComponent(x.component), NEW y, y = Left(x)
  PROVE  /\ IsContext(y) /\ IsComponent(y.component)
         /\ y.stack = Front(x.stack) /\ y.components = x.components /\ y.belongsTo = x.belongsTo
         /\ y.merging = x.merging /\ y.componentCells = x.componentCells
         /\ y.component.inputs = x.component.inputs /\ y.component.outputs = x.component.outputs
         /\ y.component.inners = Append(x.component.inners, Top(x).cell)
<1> DEFINE z == addInner(x, Top(x).cell)
           a == Append(x.component.inners, Top(x).cell)
           d == MkComponent(x.component.inputs, a, x.component.outputs)
<1>1. z = MkContext(x.stack, x.components, x.belongsTo, x.merging, d, x.componentCells)
  BY StepFields
<1>2. y = [z EXCEPT !.stack = Front(z.stack)]
  BY DEF Left
<1> HIDE DEF z, a, d
<1>3. y = MkContext(Front(x.stack), x.components, x.belongsTo, x.merging, d, x.componentCells)
  BY <1>1, <1>2 DEF MkContext
<1>4. /\ IsContext(y) /\ y.stack = Front(x.stack) /\ y.components = x.components /\ y.belongsTo = x.belongsTo
      /\ y.merging = x.merging /\ y.componentCells = x.componentCells /\ y.component = d
  BY <1>3 DEF MkContext, IsContext
<1>5. IsComponent(d) /\ d.inputs = x.component.inputs /\ d.outputs = x.component.outputs /\ d.inners = a
  BY DEF IsComponent, MkComponent, d
<1> QED
  BY <1>4, <1>5 DEF a

\* Leaving a gate keeps the invariant: all it links to has been met.
LEMMA LeaveGateInv ==
  ASSUME NEW n \in Nets, NEW x, DecomposerInv(n, x), x.stack # << >>, ~isOutput(Top(x)), isPassed(Top(x)),
         NEW y, y = Left(x)
  PROVE  /\ DecomposerInv(n, y) /\ y.components = x.components
         /\ y.stack # << >> /\ y.stack[1].index = x.stack[1].index
<1> DEFINE e == Top(x)
           h == Len(x.stack)
           p == Current(x)
           o == Outs(n)[p]
<1>1. IsContext(x) /\ IsComponent(x.component) /\ StackInv(n, x) /\ StoreInv(n, x)
  BY DEF DecomposerInv
<1>2. x.stack \in Seq(EntrySet(n)) /\ h \in Nat \ {0} /\ e = x.stack[h] /\ x.stack[1].cell = NoCell /\ e.cell # NoCell
  BY <1>1 DEF StackInv, Top, Last, isOutput
<1>3. h # 1
  BY <1>2
<1>4. p # 0 /\ WorkInv(n, x, o)
  BY <1>3 DEF DecomposerInv
<1>5. /\ IsContext(y) /\ IsComponent(y.component)
      /\ y.stack = Front(x.stack) /\ y.components = x.components /\ y.belongsTo = x.belongsTo
      /\ y.merging = x.merging /\ y.componentCells = x.componentCells
      /\ y.component.inputs = x.component.inputs /\ y.component.outputs = x.component.outputs
      /\ y.component.inners = Append(x.component.inners, e.cell)
  BY <1>1, LeftFields
<1> HIDE DEF e, p, o
<1>6. /\ y.stack \in Seq(EntrySet(n)) /\ Len(y.stack) = h - 1
      /\ \A k \in 1 .. h - 1 : y.stack[k] = x.stack[k]
  BY <1>2, <1>5 DEF Front
<1> HIDE DEF h
<1>7. y.stack # << >> /\ y.stack[1] = x.stack[1]
  <2>1. 1 \in 1 .. h - 1 /\ h - 1 # 0
    BY <1>2, <1>3
  <2> QED
    BY <1>6, <2>1
<1>8. IsGateEntry(n, x, o, e)
  <2>1. h \in 2 .. h
    BY <1>2, <1>3
  <2> QED
    BY <1>2, <1>4, <2>1 DEF WorkInv, CellInv, h
<1>9. e.cell \in GatesIn(n) /\ e.cell \in x.componentCells
  BY <1>8 DEF IsGateEntry
<1>10. y.component.inners \in Seq(GatesIn(n)) /\ ToSet(y.component.inners) = ToSet(x.component.inners) \cup {e.cell}
  <2>1. x.component.inners \in Seq(GatesIn(n))
    BY <1>4 DEF WorkInv, IsPart
  <2> QED
    BY <1>5, <1>9, <2>1, ToSetAppend
<1>11. \A s : IsSeen(n, y, s) <=> IsSeen(n, x, s)
  BY <1>5 DEF IsSeen
<1>12. ASSUME NEW s \in ToSet(n.links[e.cell]) PROVE IsSeen(n, x, s)
  <2>1. e.cell \in Cells(n)
    BY <1>9 DEF GatesIn
  <2>2. n.links[e.cell] \in Seq(Cells(n))
    BY <2>1, NetsAssumption DEF IsNet, Cells
  <2>3. PICK j \in 1 .. Len(n.links[e.cell]) : s = n.links[e.cell][j]
    BY <2>2 DEF ToSet
  <2>4. j \in 1 .. e.index - 1
    <3>1. e.index \in 1 .. Len(e.links) + 1 /\ e.index > Len(e.links) /\ e.links = GateLinks(n, e.cell, o.signal)
      BY <1>8 DEF IsGateEntry, isPassed, e
    <3>2. DOMAIN e.links = DOMAIN n.links[e.cell]
      BY <3>1 DEF GateLinks, fillLinks
    <3>3. e.links \in Seq(LinkSet(n))
      <4>1. e \in EntrySet(n)
        BY <1>2 DEF h
      <4> QED
        BY <4>1 DEF EntrySet
    <3>4. DOMAIN e.links = 1 .. Len(e.links) /\ DOMAIN n.links[e.cell] = 1 .. Len(n.links[e.cell])
          /\ Len(e.links) \in Nat /\ Len(n.links[e.cell]) \in Nat
      BY <2>2, <3>3
    <3>5. j \in 1 .. Len(e.links)
      BY <3>2, <3>4
    <3> QED
      BY <3>1, <3>4, <3>5
  <2> QED
    BY <1>8, <2>3, <2>4 DEF IsGateEntry
<1>13. CellInv(n, y, o)
  <2> USE DEF CellInv
  <2>1. CellInv(n, x, o)
    BY <1>4 DEF WorkInv
  <2>2. \A i : GatesAt(y, i) = GatesAt(x, i)
    BY <1>5 DEF GatesAt
  <2>3. /\ y.merging \subseteq DOMAIN y.components
        /\ \A i \in y.merging : GatesAt(y, i) \cap Cone(n, o.source) # {}
        /\ y.componentCells \subseteq Cone(n, o.source) \ DOMAIN y.belongsTo
        /\ ToSet(y.component.inners) \subseteq y.componentCells
    BY <1>5, <1>9, <1>10, <2>1, <2>2
  <2>4. ASSUME NEW g \in y.componentCells, g \notin ToSet(y.component.inners)
        PROVE  \E k \in 2 .. Len(y.stack) : y.stack[k].cell = g
    <3>1. PICK k \in 2 .. h : x.stack[k].cell = g
      BY <1>5, <1>10, <2>1, <2>4 DEF h
    <3>2. k # h
      BY <1>2, <1>10, <2>4, <3>1
    <3>3. k \in 1 .. h - 1 /\ k \in 2 .. h - 1
      BY <1>2, <3>2
    <3> QED
      BY <1>6, <3>1, <3>3
  <2>5. \A g \in ToSet(y.component.inners) : \A s \in ToSet(n.links[g]) : IsSeen(n, y, s)
    BY <1>10, <1>11, <1>12, <2>1
  <2>6. ASSUME NEW k \in 2 .. Len(y.stack) PROVE IsGateEntry(n, y, o, y.stack[k])
    <3>1. k \in 1 .. h - 1 /\ k \in 2 .. h
      BY <1>2, <1>6
    <3>2. IsGateEntry(n, x, o, x.stack[k])
      BY <2>1, <3>1 DEF h
    <3> QED
      BY <1>5, <1>6, <1>11, <3>1, <3>2 DEF IsGateEntry
  <2> QED
    BY <2>3, <2>4, <2>5, <2>6
<1>14. IsPart(n, y.component)
  BY <1>4, <1>5, <1>10 DEF WorkInv, IsPart
<1>15. StackInv(n, y) /\ Current(y) = p
  BY <1>1, <1>6, <1>7 DEF StackInv, Current, p
<1>16. WorkInv(n, y, Outs(n)[Current(y)])
  BY <1>4, <1>5, <1>11, <1>13, <1>14, <1>15 DEF WorkInv, o
<1>17. StoreInv(n, y)
  BY <1>1, <1>5, VisitStore
<1> QED
  BY <1>4, <1>5, <1>7, <1>15, <1>16, <1>17 DEF DecomposerInv

-----------------------------------------------------------------------------
(* Components are merged.                                                  *)

\* Every gate of c is listed after the gates it links to, or these are in S.
IsOrderedAfter(n, c, S) ==
  \A k \in DOMAIN c.inners : \A s \in ToSet(n.links[c.inners[k]]) :
    isInputLink(n, s) \/ s \in S \/ \E m \in 1 .. k - 1 : c.inners[m] = s

IsOrdered(n, c) == IsOrderedAfter(n, c, {})

\* Merged in this order, the gates are in order if the second component depends on gates
\* of its own that come earlier and on those of the first.
LEMMA MergeOrdered ==
  ASSUME NEW n, NEW c, NEW d, IsPart(n, c), IsPart(n, d),
         IsOrdered(n, c), IsOrderedAfter(n, d, ToSet(c.inners)), NEW e, e = MergeComponent(c, d)
  PROVE  IsOrdered(n, e)
<1> DEFINE a == c.inners
           b == d.inners
           G == GatesIn(n)
<1>1. a \in Seq(G) /\ b \in Seq(G) /\ e.inners = a \o b
  <2>1. IsUnion(c, d, e)
    BY MergePart
  <2> QED
    BY <2>1 DEF IsPart, IsUnion
<1>2. /\ \A k \in DOMAIN a : \A s \in ToSet(n.links[a[k]]) : isInputLink(n, s) \/ \E m \in 1 .. k - 1 : a[m] = s
      /\ \A k \in DOMAIN b : \A s \in ToSet(n.links[b[k]]) :
           isInputLink(n, s) \/ s \in ToSet(a) \/ \E m \in 1 .. k - 1 : b[m] = s
  BY DEF IsOrdered, IsOrderedAfter
<1> HIDE DEF a, b, G
<1>3. /\ a \o b \in Seq(G) /\ Len(a \o b) = Len(a) + Len(b) /\ Len(a) \in Nat /\ Len(b) \in Nat
      /\ \A i \in 1 .. Len(a) : (a \o b)[i] = a[i]
      /\ \A i \in 1 .. Len(b) : (a \o b)[Len(a) + i] = b[i]
      /\ DOMAIN a = 1 .. Len(a) /\ DOMAIN b = 1 .. Len(b) /\ DOMAIN (a \o b) = 1 .. Len(a) + Len(b)
  BY <1>1
<1> DEFINE q == a \o b
<1> HIDE DEF q
<1>4. ASSUME NEW k \in DOMAIN q, NEW s \in ToSet(n.links[q[k]]), ~isInputLink(n, s)
      PROVE  \E m \in 1 .. k - 1 : q[m] = s
  <2>1. CASE k \in 1 .. Len(a)
    <3>1. q[k] = a[k] /\ k \in DOMAIN a
      BY <1>3, <2>1 DEF q
    <3>2. PICK m \in 1 .. k - 1 : a[m] = s
      BY <1>2, <1>4, <3>1
    <3>3. m \in 1 .. Len(a)
      BY <1>3, <2>1
    <3> QED
      BY <1>3, <3>2, <3>3 DEF q
  <2>2. CASE k \notin 1 .. Len(a)
    <3> DEFINE j == k - Len(a)
    <3>1. j \in 1 .. Len(b) /\ k = Len(a) + j /\ k \in Nat
      BY <1>3, <2>2 DEF q
    <3> HIDE DEF j
    <3>2. q[k] = b[j] /\ j \in DOMAIN b
      BY <1>3, <3>1 DEF q
    <3>3. CASE s \in ToSet(a)
      <4>1. PICK m \in 1 .. Len(a) : s = a[m]
        BY <1>3, <3>3 DEF ToSet
      <4>2. m \in 1 .. k - 1
        BY <1>3, <3>1
      <4> QED
        BY <1>3, <4>1, <4>2 DEF q
    <3>4. CASE \E m \in 1 .. j - 1 : b[m] = s
      <4>1. PICK m \in 1 .. j - 1 : b[m] = s
        BY <3>4
      <4>2. m \in 1 .. Len(b) /\ Len(a) + m \in 1 .. k - 1
        BY <1>3, <3>1
      <4> QED
        BY <1>3, <4>1, <4>2 DEF q
    <3> QED
      BY <1>2, <1>4, <3>2, <3>3, <3>4
  <2> QED
    BY <2>1, <2>2
<1>5. e.inners = q
  BY <1>1 DEF q
<1> QED
  BY <1>4, <1>5 DEF IsOrdered, IsOrderedAfter

\* The gates of d link to inputs of d, to gates of d and to gates in S.
IsFinishedWith(n, d, S) == \A g \in ToSet(d.inners) : IsCovered(n, d, g, S \cup ToSet(d.inners))

\* The merged component has all that its gates depend on, if those of the second depend on
\* nothing but the two.
LEMMA MergeFinished ==
  ASSUME NEW n, NEW c, NEW d, IsPart(n, c), IsPart(n, d),
         IsFinished(n, c), IsFinishedWith(n, d, ToSet(c.inners)), NEW e, e = MergeComponent(c, d)
  PROVE  IsFinished(n, e)
<1>1. IsUnion(c, d, e)
  BY MergePart
<1> QED
  BY <1>1 DEF IsUnion, IsFinished, IsFinishedWith, IsCovered

\* The recursion of mergeComponents.
MergeStep(x, c, i) == IF i \in x.merging THEN MergeComponent(c, x.components[i]) ELSE c

IsMerging(x, f, N) == f = [i \in 0 .. N |-> IF i = 0 THEN NoComponent ELSE MergeStep(x, f[i - 1], i)]

\* The recursive function exists for every number of components.
LEMMA MergingExists ==
  ASSUME NEW x, NEW N \in Nat
  PROVE  \E f : IsMerging(x, f, N)
<1> DEFINE T == {m \in Nat : ~\E f : IsMerging(x, f, m)}
<1>1. CASE T = {}
  BY <1>1
<1>2. ASSUME T # {} PROVE FALSE
  <2>1. T \in SUBSET Nat
    OBVIOUS
  <2>2. PICK m \in T : \A j \in T : m <= j
    <3> HIDE DEF T
    <3> QED
      BY <1>2, <2>1, LeastNumber
  <2>3. m \in Nat /\ ~\E f : IsMerging(x, f, m)
    OBVIOUS
  <2>4. CASE m = 0
    <3>1. IsMerging(x, [i \in 0 .. 0 |-> NoComponent], 0)
      BY DEF IsMerging
    <3> QED
      BY <2>3, <2>4, <3>1
  <2>5. CASE m # 0
    <3>1. m - 1 \in Nat /\ m - 1 \notin T
      <4>1. m - 1 \in Nat /\ ~(m <= m - 1)
        BY <2>3, <2>5
      <4> HIDE DEF T
      <4> QED
        BY <2>2, <4>1
    <3>2. PICK f : IsMerging(x, f, m - 1)
      BY <3>1
    <3> DEFINE g == [i \in 0 .. m |-> IF i = m THEN MergeStep(x, f[m - 1], m) ELSE f[i]]
    <3>3. f = [i \in 0 .. m - 1 |-> IF i = 0 THEN NoComponent ELSE MergeStep(x, f[i - 1], i)]
      BY <3>2 DEF IsMerging
    <3>4. \A i \in 0 .. m : g[i] = IF i = 0 THEN NoComponent ELSE MergeStep(x, g[i - 1], i)
      <4> TAKE i \in 0 .. m
      <4>1. CASE i = m
        <5>1. m - 1 \in 0 .. m /\ m - 1 # m /\ i # 0
          BY <2>3, <2>5, <4>1
        <5> QED
          BY <4>1, <5>1
      <4>2. CASE i # m
        <5>1. i \in 0 .. m - 1
          BY <2>3, <4>2
        <5>2. g[i] = f[i]
          BY <4>2
        <5>3. f[i] = IF i = 0 THEN NoComponent ELSE MergeStep(x, f[i - 1], i)
          BY <3>3, <5>1
        <5>4. i # 0 => g[i - 1] = f[i - 1]
          BY <2>3, <4>2, <5>1
        <5> QED
          BY <5>2, <5>3, <5>4
      <4> QED
        BY <4>1, <4>2
    <3>5. g = [i \in 0 .. m |-> g[i]]
      OBVIOUS
    <3> HIDE DEF g
    <3>6. IsMerging(x, g, m)
      BY <3>4, <3>5 DEF IsMerging
    <3> QED
      BY <2>3, <3>6
  <2> QED
    BY <2>4, <2>5
<1> QED
  BY <1>1, <1>2

\* mergeComponents is the last value of a function that satisfies the recursion.
LEMMA MergedDef ==
  ASSUME NEW x, NEW N \in Nat, N = Len(x.components)
  PROVE  \E f : /\ mergeComponents(x) = f[N] /\ f[0] = NoComponent
                /\ \A i \in 1 .. N : f[i] = MergeStep(x, f[i - 1], i)
<1> DEFINE f == CHOOSE g : IsMerging(x, g, Len(x.components))
<1>1. mergeComponents(x) = f[Len(x.components)]
  BY DEF mergeComponents, IsMerging, MergeStep
<1>2. IsMerging(x, f, N)
  <2>1. f = CHOOSE g : IsMerging(x, g, N)
    OBVIOUS
  <2> HIDE DEF f
  <2> QED
    BY <2>1, MergingExists
<1> HIDE DEF f
<1>3. f = [i \in 0 .. N |-> IF i = 0 THEN NoComponent ELSE MergeStep(x, f[i - 1], i)]
  BY <1>2 DEF IsMerging
<1>4. f[0] = NoComponent
  BY <1>3
<1>5. \A i \in 1 .. N : f[i] = MergeStep(x, f[i - 1], i)
  BY <1>3
<1> QED
  BY <1>1, <1>4, <1>5

\* c is made of the components in merging up to the i-th.
IsMergedUpto(n, x, c, i) ==
  /\ IsPart(n, c) /\ IsFinished(n, c)
  /\ \A g : g \in ToSet(c.inners) <=> \E j \in x.merging : j <= i /\ g \in GatesAt(x, j)
  /\ \A o : o \in DOMAIN c.outputs <=> \E j \in x.merging : j <= i /\ o \in DOMAIN x.components[j].outputs
  /\ (\A j \in x.merging : IsOrdered(n, x.components[j])) => IsOrdered(n, c)

\* One step of the recursion.
LEMMA MergeOne ==
  ASSUME NEW n, NEW x, StoreInv(n, x), x.merging \subseteq DOMAIN x.components,
         NEW c, NEW d, NEW i \in 1 .. Len(x.components), IsMergedUpto(n, x, c, i - 1), d = MergeStep(x, c, i)
  PROVE  IsMergedUpto(n, x, d, i)
<1>1. DOMAIN x.components = 1 .. Len(x.components) /\ Len(x.components) \in Nat
  BY DEF StoreInv, IsList
<1>2. x.merging \subseteq Nat /\ i \in Nat
  BY <1>1
<1>3. CASE i \in x.merging
  <2> DEFINE b == x.components[i]
  <2>1. d = MergeComponent(c, b) /\ IsPart(n, b) /\ IsFinished(n, b) /\ IsPart(n, c) /\ IsFinished(n, c)
    BY <1>1, <1>3 DEF MergeStep, StoreInv, IsMergedUpto
  <2>2. GatesAt(x, i) = ToSet(b.inners)
    BY DEF GatesAt
  <2>3. \A j \in x.merging : j <= i <=> (j <= i - 1 \/ j = i)
    BY <1>2
  <2>4. /\ \A g : g \in ToSet(c.inners) <=> \E j \in x.merging : j <= i - 1 /\ g \in GatesAt(x, j)
        /\ \A o : o \in DOMAIN c.outputs <=> \E j \in x.merging : j <= i - 1 /\ o \in DOMAIN x.components[j].outputs
        /\ (\A j \in x.merging : IsOrdered(n, x.components[j])) => IsOrdered(n, c)
    BY DEF IsMergedUpto
  <2> HIDE DEF b
  <2>5. IsPart(n, d) /\ IsUnion(c, b, d)
    BY <2>1, MergePart
  <2>6. IsFinished(n, d)
    <3>1. IsFinishedWith(n, b, ToSet(c.inners))
      BY <2>1 DEF IsFinished, IsFinishedWith, IsCovered
    <3> QED
      BY <2>1, <3>1, MergeFinished
  <2>7. ASSUME \A j \in x.merging : IsOrdered(n, x.components[j]) PROVE IsOrdered(n, d)
    <3>1. IsOrdered(n, c) /\ IsOrdered(n, b)
      BY <1>3, <2>4, <2>7 DEF b
    <3>2. IsOrderedAfter(n, b, ToSet(c.inners))
      BY <3>1 DEF IsOrdered, IsOrderedAfter
    <3> QED
      BY <2>1, <3>1, <3>2, MergeOrdered
  <2>8. \A g : g \in ToSet(d.inners) <=> \E j \in x.merging : j <= i /\ g \in GatesAt(x, j)
    <3>1. ToSet(d.inners) = ToSet(c.inners) \cup GatesAt(x, i)
      BY <2>2, <2>5 DEF IsUnion
    <3> QED
      BY <1>3, <2>3, <2>4, <3>1
  <2>9. \A o : o \in DOMAIN d.outputs <=> \E j \in x.merging : j <= i /\ o \in DOMAIN x.components[j].outputs
    <3>1. DOMAIN d.outputs = DOMAIN c.outputs \cup DOMAIN x.components[i].outputs
      BY <2>5 DEF IsUnion, b
    <3> QED
      BY <1>3, <2>3, <2>4, <3>1
  <2> QED
    BY <2>5, <2>6, <2>7, <2>8, <2>9 DEF IsMergedUpto
<1>4. CASE i \notin x.merging
  <2>1. d = c
    BY <1>4 DEF MergeStep
  <2>2. \A j \in x.merging : j <= i <=> j <= i - 1
    BY <1>2, <1>4
  <2> QED
    BY <2>1, <2>2 DEF IsMergedUpto
<1> QED
  BY <1>3, <1>4

\* mergeComponents merges the components in merging, and these only.
LEMMA MergedAll ==
  ASSUME NEW n, NEW x, StoreInv(n, x), x.merging \subseteq DOMAIN x.components
  PROVE  IsMergedUpto(n, x, mergeComponents(x), Len(x.components))
<1> DEFINE N == Len(x.components)
<1>1. N \in Nat /\ DOMAIN x.components = 1 .. N
  BY DEF StoreInv, IsList
<1>2. PICK f : /\ mergeComponents(x) = f[N] /\ f[0] = NoComponent
               /\ \A i \in 1 .. N : f[i] = MergeStep(x, f[i - 1], i)
  BY <1>1, MergedDef
<1> DEFINE P(i) == IsMergedUpto(n, x, f[i], i)
           T == {i \in 0 .. N : ~P(i)}
<1>3. P(0)
  <2>1. \A j \in x.merging : ~(j <= 0)
    BY <1>1
  <2>2. IsOrdered(n, NoComponent)
    <3>1. DOMAIN NoComponent.inners = {}
      BY DEF NoComponent
    <3> QED
      BY <3>1 DEF IsOrdered, IsOrderedAfter
  <2> QED
    BY <1>2, <2>1, <2>2, EmptyPart DEF IsMergedUpto
<1> HIDE DEF N
<1>4. \A i \in 1 .. N : P(i - 1) => P(i)
  BY <1>2, MergeOne DEF N
<1> HIDE DEF P
<1>5. ASSUME T # {} PROVE FALSE
  <2>1. T \in SUBSET Nat
    BY <1>1
  <2>2. PICK i \in T : \A j \in T : i <= j
    <3> HIDE DEF T
    <3> QED
      BY <1>5, <2>1, LeastNumber
  <2>3. i \in 1 .. N /\ i - 1 \in 0 .. N /\ i - 1 \notin T
    BY <1>1, <1>3, <2>2
  <2> QED
    BY <1>4, <2>2, <2>3
<1>6. P(N)
  BY <1>1, <1>5
<1> QED
  BY <1>2, <1>6 DEF P, N

-----------------------------------------------------------------------------
(* A component is completed.                                               *)

IndexOf(x) == IF x.merging = {} THEN Len(x.components) + 1 ELSE Min(x.merging)

Moved(x) == (UNION {ToSet(x.components[i].inners) : i \in x.merging}) \cup ToSet(x.component.inners)

\* The component with those that it shares gates with.
Whole(x) == MergeComponent(mergeComponents(x), x.component)

NewComponents(x) ==
  [i \in 1 .. (IF x.merging = {} THEN IndexOf(x) ELSE Len(x.components)) |->
     IF i = IndexOf(x) THEN Whole(x) ELSE IF i \in x.merging THEN NoComponent ELSE x.components[i]]

\* makeComponent, field by field.
LEMMA MakeFields ==
  ASSUME NEW x
  PROVE  makeComponent(x) =
           MkContext(x.stack, NewComponents(x), Insert([c \in Moved(x) |-> IndexOf(x)], x.belongsTo), {},
                     NoComponent, {})
  BY DEF makeComponent, NewComponents, IndexOf, Moved, Whole, MkContext

\* The components after the one of the last output has been completed: the whole is at
\* index idx, those that it shares gates with are empty, and the others are the same.
IsCompleted(x, y, idx) ==
  /\ IsList(y.components) /\ DOMAIN y.components = DOMAIN x.components \cup {idx}
  /\ idx \in DOMAIN x.components => idx \in x.merging
  /\ y.components[idx] = Whole(x)
  /\ \A i \in DOMAIN x.components \ {idx} :
       y.components[i] = IF i \in x.merging THEN NoComponent ELSE x.components[i]
  /\ DOMAIN y.belongsTo = Moved(x) \cup DOMAIN x.belongsTo
  /\ \A g \in DOMAIN y.belongsTo : y.belongsTo[g] = IF g \in Moved(x) THEN idx ELSE x.belongsTo[g]

\* makeComponent completes the component and starts a new one.
LEMMA MakeResult ==
  ASSUME NEW x, IsContext(x), IsList(x.components), x.merging \subseteq DOMAIN x.components,
         NEW y, y = makeComponent(x)
  PROVE  /\ IsContext(y) /\ IsFresh(y) /\ y.stack = x.stack
         /\ IsCompleted(x, y, IndexOf(x))
<1> DEFINE N == Len(x.components)
           idx == IndexOf(x)
           cs == NewComponents(x)
           b == Insert([c \in Moved(x) |-> idx], x.belongsTo)
           M == IF x.merging = {} THEN idx ELSE N
           whole == Whole(x)
           e(i) == IF i = idx THEN whole ELSE IF i \in x.merging THEN NoComponent ELSE x.components[i]
<1>1. y = MkContext(x.stack, cs, b, {}, NoComponent, {})
  BY MakeFields
<1>2. cs = [i \in 1 .. M |-> e(i)]
  BY DEF NewComponents
<1>3. N \in Nat /\ DOMAIN x.components = 1 .. N
  BY DEF IsList
<1>4. x.merging # {} => idx \in x.merging
  <2> SUFFICES ASSUME x.merging # {} PROVE Min(x.merging) \in x.merging
    BY DEF IndexOf
  <2>1. x.merging \in SUBSET Nat
    BY <1>3
  <2>2. \E i \in x.merging : \A j \in x.merging : i <= j
    BY <2>1, LeastNumber
  <2> QED
    BY <2>2 DEF Min
<1>5. x.merging = {} => idx = N + 1
  BY DEF IndexOf
<1> HIDE DEF N, idx, cs, b, whole
<1>6. M \in Nat /\ idx \in 1 .. M /\ 1 .. M = (1 .. N) \cup {idx}
  <2>1. CASE x.merging = {}
    BY <1>3, <1>5, <2>1
  <2>2. CASE x.merging # {}
    BY <1>3, <1>4, <2>2
  <2> QED
    BY <2>1, <2>2
<1>7. /\ e(idx) = whole
      /\ \A i : i # idx => e(i) = IF i \in x.merging THEN NoComponent ELSE x.components[i]
  OBVIOUS
<1> HIDE DEF M, e
<1>8. DOMAIN cs = 1 .. M /\ Len(cs) = M /\ \A i \in 1 .. M : cs[i] = e(i)
  <2>1. cs \in [1 .. M -> {e(i) : i \in 1 .. M}]
    BY <1>2
  <2> DEFINE S == {e(i) : i \in 1 .. M}
  <2>2. cs \in [1 .. M -> S] /\ M \in Nat
    BY <1>6, <2>1
  <2> HIDE DEF S
  <2>3. cs \in Seq(S) /\ Len(cs) = M
    BY <2>2
  <2> QED
    BY <1>2, <2>3
<1>9. /\ y.components = cs /\ y.belongsTo = b /\ IsContext(y) /\ y.stack = x.stack
      /\ y.component = NoComponent /\ y.merging = {} /\ y.componentCells = {}
  BY <1>1 DEF MkContext, IsContext
<1>10. IsList(cs) /\ DOMAIN cs = DOMAIN x.components \cup {idx}
  BY <1>3, <1>6, <1>8 DEF IsList
<1>11. idx \in DOMAIN x.components => idx \in x.merging
  BY <1>3, <1>4, <1>5
<1>12. /\ cs[idx] = whole
       /\ \A i \in DOMAIN x.components \ {idx} : cs[i] = IF i \in x.merging THEN NoComponent ELSE x.components[i]
  BY <1>3, <1>6, <1>7, <1>8
<1>13. /\ DOMAIN b = Moved(x) \cup DOMAIN x.belongsTo
       /\ \A g \in DOMAIN b : b[g] = IF g \in Moved(x) THEN idx ELSE x.belongsTo[g]
  BY DEF b, Insert
<1> QED
  BY <1>9, <1>10, <1>11, <1>12, <1>13 DEF IsCompleted, IsFresh, idx, whole

\* The state in which the traversal from output o is back at the outputs.
IsReady(n, x, o) == StoreInv(n, x) /\ WorkInv(n, x, o) /\ Len(x.stack) = 1

\* The gates whose owner changes.
LEMMA MovedGates ==
  ASSUME NEW x, NEW g
  PROVE  g \in Moved(x) <=> g \in ToSet(x.component.inners) \/ \E j \in x.merging : g \in GatesAt(x, j)
  BY DEF Moved, GatesAt

\* All gates met are listed.
LEMMA ReadyCells ==
  ASSUME NEW n, NEW x, NEW o, IsReady(n, x, o)
  PROVE  /\ x.componentCells = ToSet(x.component.inners)
         /\ \A s : IsSeen(n, x, s) => IF isInputLink(n, s) THEN s \in DOMAIN x.component.inputs ELSE s \in Moved(x)
<1>1. \A k : k \notin 2 .. Len(x.stack)
  BY DEF IsReady
<1>2. x.componentCells = ToSet(x.component.inners)
  BY <1>1 DEF IsReady, WorkInv, CellInv
<1>3. \A g \in DOMAIN x.belongsTo : g \in GatesAt(x, x.belongsTo[g])
  BY DEF IsReady, StoreInv
<1> QED
  BY <1>2, <1>3, MovedGates DEF IsSeen

\* The whole is a component that has all its gates depend on, with the outputs of its
\* parts; it is in order if the parts are.
LEMMA WholePart ==
  ASSUME NEW n \in Nets, NEW x, NEW o, IsReady(n, x, o), NEW w, w = Whole(x)
  PROVE  /\ IsPart(n, w) /\ IsFinished(n, w)
         /\ ToSet(w.inners) = Moved(x)
         /\ \A k : k \in DOMAIN w.outputs <=> k = OutputKey(o) \/ \E j \in x.merging : k \in DOMAIN x.components[j].outputs
         /\ (/\ \A j \in x.merging : IsOrdered(n, x.components[j])
             /\ \A S : (\A j \in x.merging : GatesAt(x, j) \subseteq S) => IsOrderedAfter(n, x.component, S))
            => IsOrdered(n, w)
<1> DEFINE m == mergeComponents(x)
           d == x.component
           N == Len(x.components)
<1>1. StoreInv(n, x) /\ x.merging \subseteq DOMAIN x.components /\ IsPart(n, d) /\ DOMAIN d.outputs = {OutputKey(o)}
  BY DEF IsReady, WorkInv, CellInv
<1>2. \A j \in x.merging : j <= N
  BY <1>1 DEF StoreInv, IsList
<1>3. IsMergedUpto(n, x, m, N)
  BY <1>1, MergedAll
<1> HIDE DEF m, N
<1>4. /\ IsPart(n, m) /\ IsFinished(n, m)
      /\ \A g : g \in ToSet(m.inners) <=> \E j \in x.merging : g \in GatesAt(x, j)
      /\ \A k : k \in DOMAIN m.outputs <=> \E j \in x.merging : k \in DOMAIN x.components[j].outputs
      /\ (\A j \in x.merging : IsOrdered(n, x.components[j])) => IsOrdered(n, m)
  BY <1>2, <1>3 DEF IsMergedUpto
<1>5. w = MergeComponent(m, d)
  BY DEF Whole, m
<1>6. IsPart(n, w) /\ IsUnion(m, d, w)
  BY <1>1, <1>4, <1>5, MergePart
<1>7. IsFinished(n, w)
  <2>1. ASSUME NEW g \in ToSet(d.inners), NEW s \in ToSet(n.links[g])
        PROVE  IF isInputLink(n, s) THEN s \in DOMAIN d.inputs ELSE s \in ToSet(m.inners) \cup ToSet(d.inners)
    <3>1. IsSeen(n, x, s)
      BY <2>1 DEF IsReady, WorkInv, CellInv
    <3>2. IF isInputLink(n, s) THEN s \in DOMAIN d.inputs ELSE s \in Moved(x)
      BY <3>1, ReadyCells
    <3>3. s \in Moved(x) => s \in ToSet(m.inners) \cup ToSet(d.inners)
      BY <1>4, MovedGates
    <3> QED
      BY <3>2, <3>3
  <2>2. IsFinishedWith(n, d, ToSet(m.inners))
    BY <2>1 DEF IsFinishedWith, IsCovered
  <2> QED
    BY <1>1, <1>4, <1>5, <2>2, MergeFinished
<1>8. ToSet(w.inners) = Moved(x)
  <2>1. \A g : g \in ToSet(w.inners) <=> g \in ToSet(m.inners) \/ g \in ToSet(d.inners)
    BY <1>6 DEF IsUnion
  <2>2. \A g : g \in ToSet(w.inners) <=> g \in Moved(x)
    BY <1>4, <2>1, MovedGates
  <2> QED
    BY <2>2
<1>9. ASSUME NEW k
      PROVE  k \in DOMAIN w.outputs <=> k = OutputKey(o) \/ \E j \in x.merging : k \in DOMAIN x.components[j].outputs
  BY <1>1, <1>4, <1>6 DEF IsUnion
<1>10. ASSUME \A j \in x.merging : IsOrdered(n, x.components[j]),
              \A S : (\A j \in x.merging : GatesAt(x, j) \subseteq S) => IsOrderedAfter(n, d, S)
       PROVE  IsOrdered(n, w)
  <2>1. IsOrdered(n, m)
    BY <1>4, <1>10
  <2>2. IsOrderedAfter(n, d, ToSet(m.inners))
    BY <1>4, <1>10
  <2> QED
    BY <1>1, <1>4, <1>5, <2>1, <2>2, MergeOrdered
<1> QED
  BY <1>6, <1>7, <1>8, <1>9, <1>10

\* The completed components are as they should be.
LEMMA MakeStore ==
  ASSUME NEW n \in Nets, NEW x, NEW o, IsReady(n, x, o), NEW y, NEW idx, IsCompleted(x, y, idx)
  PROVE  StoreInv(n, y)
<1> DEFINE w == Whole(x)
<1>1. /\ IsPart(n, w) /\ IsFinished(n, w) /\ ToSet(w.inners) = Moved(x) /\ OutputKey(o) \in DOMAIN w.outputs
  BY WholePart
<1>2. /\ IsList(y.components) /\ DOMAIN y.components = DOMAIN x.components \cup {idx}
      /\ idx \in DOMAIN x.components => idx \in x.merging
      /\ y.components[idx] = w
      /\ \A i \in DOMAIN x.components \ {idx} :
           y.components[i] = IF i \in x.merging THEN NoComponent ELSE x.components[i]
      /\ DOMAIN y.belongsTo = Moved(x) \cup DOMAIN x.belongsTo
      /\ \A g \in DOMAIN y.belongsTo : y.belongsTo[g] = IF g \in Moved(x) THEN idx ELSE x.belongsTo[g]
  BY DEF IsCompleted
<1> HIDE DEF w
<1>3. /\ \A i \in DOMAIN x.components :
           /\ IsPart(n, x.components[i]) /\ IsFinished(n, x.components[i])
           /\ GatesAt(x, i) # {} => DOMAIN x.components[i].outputs # {}
           /\ \A g \in GatesAt(x, i) : g \in DOMAIN x.belongsTo /\ x.belongsTo[g] = i
      /\ \A g \in DOMAIN x.belongsTo : x.belongsTo[g] \in DOMAIN x.components /\ g \in GatesAt(x, x.belongsTo[g])
      /\ x.merging \subseteq DOMAIN x.components
      /\ ToSet(x.component.inners) \cap DOMAIN x.belongsTo = {}
  BY DEF IsReady, StoreInv, WorkInv, CellInv
<1>4. GatesAt(y, idx) = Moved(x)
  BY <1>1, <1>2 DEF GatesAt
<1>5. \A i \in DOMAIN x.components \ {idx} : GatesAt(y, i) = IF i \in x.merging THEN {} ELSE GatesAt(x, i)
  BY <1>2, EmptyPart DEF GatesAt
<1>6. ASSUME NEW i \in DOMAIN y.components
      PROVE  /\ IsPart(n, y.components[i]) /\ IsFinished(n, y.components[i])
             /\ GatesAt(y, i) # {} => DOMAIN y.components[i].outputs # {}
             /\ \A g \in GatesAt(y, i) : g \in DOMAIN y.belongsTo /\ y.belongsTo[g] = i
  <2>1. CASE i = idx
    BY <1>1, <1>2, <1>4, <2>1
  <2>2. CASE i # idx /\ i \in x.merging
    <3>1. y.components[i] = NoComponent /\ GatesAt(y, i) = {}
      BY <1>2, <1>5, <2>2
    <3> QED
      BY <3>1, EmptyPart
  <2>3. CASE i # idx /\ i \notin x.merging
    <3>1. y.components[i] = x.components[i] /\ GatesAt(y, i) = GatesAt(x, i) /\ i \in DOMAIN x.components
      BY <1>2, <1>5, <2>3
    <3>2. ASSUME NEW g \in GatesAt(x, i) PROVE g \in DOMAIN y.belongsTo /\ y.belongsTo[g] = i
      <4>1. g \in DOMAIN x.belongsTo /\ x.belongsTo[g] = i
        BY <1>3, <3>1
      <4>2. g \notin Moved(x)
        BY <1>3, <2>3, <4>1, MovedGates
      <4> QED
        BY <1>2, <4>1, <4>2
    <3> QED
      BY <1>3, <3>1, <3>2
  <2> QED
    BY <2>1, <2>2, <2>3
<1>7. ASSUME NEW g \in DOMAIN y.belongsTo
      PROVE  y.belongsTo[g] \in DOMAIN y.components /\ g \in GatesAt(y, y.belongsTo[g])
  <2>1. CASE g \in Moved(x)
    BY <1>2, <1>4, <2>1
  <2>2. CASE g \notin Moved(x)
    <3> DEFINE i == x.belongsTo[g]
    <3>1. g \in DOMAIN x.belongsTo /\ y.belongsTo[g] = i /\ i \in DOMAIN x.components /\ g \in GatesAt(x, i)
      BY <1>2, <1>3, <2>2
    <3>2. i \notin x.merging
      BY <2>2, <3>1, MovedGates
    <3> HIDE DEF i
    <3>3. i # idx
      BY <1>2, <3>1, <3>2
    <3> QED
      BY <1>2, <1>5, <3>1, <3>2, <3>3
  <2> QED
    BY <2>1, <2>2
<1> QED
  BY <1>2, <1>6, <1>7 DEF StoreInv

-----------------------------------------------------------------------------
(* The components as Components sees them.                                 *)

IndexIn(n, o) == CHOOSE k \in DOMAIN Outs(n) : OutputKey(Outs(n)[k]) = o

PartOf(n, c) == [gates |-> ToSet(c.inners), outputs |-> {IndexIn(n, o) : o \in DOMAIN c.outputs}]

PartsOf(n, cs) == {PartOf(n, c) : c \in {d \in ToSet(cs) : DOMAIN d.outputs # {}}}

\* The components seen are those with outputs.
LEMMA PartsByIndex ==
  ASSUME NEW n, NEW cs, NEW q
  PROVE  q \in PartsOf(n, cs) <=> \E i \in DOMAIN cs : DOMAIN cs[i].outputs # {} /\ q = PartOf(n, cs[i])
  BY DEF PartsOf, ToSet

\* The gates that the output depends on are in the component completed.
LEMMA ConeMoved ==
  ASSUME NEW n \in Nets, NEW p \in DOMAIN Outs(n), NEW o, o = Outs(n)[p], NEW x, IsReady(n, x, o)
  PROVE  Cone(n, o.source) \subseteq Moved(x)
<1> DEFINE w == Whole(x)
<1>1. IsPart(n, w) /\ IsFinished(n, w) /\ ToSet(w.inners) = Moved(x)
  BY WholePart
<1> HIDE DEF w
<1>2. Moved(x) \subseteq GatesIn(n)
  BY <1>1 DEF IsPart, ToSet
<1>3. ASSUME NEW g \in Moved(x), NEW s \in Fanin(n, g), s \in GateIDs PROVE s \in Moved(x)
  <2>1. s \in ToSet(n.links[g]) /\ g \in Cells(n)
    BY <1>2, FaninLinks DEF GatesIn
  <2>2. ~isInputLink(n, s)
    BY <1>3, <2>1, Sources
  <2> QED
    BY <1>1, <2>1, <2>2 DEF IsFinished, IsCovered
<1>4. ASSUME o.source \in GateIDs PROVE o.source \in Moved(x)
  <2>1. o.target \in Cells(n) /\ o.source \in ToSet(n.links[o.target])
    BY Outputs DEF LinkSet
  <2>2. ~isInputLink(n, o.source)
    BY <1>4, <2>1, Sources
  <2>3. IsSeen(n, x, o.source)
    BY DEF IsReady, WorkInv
  <2> QED
    BY <2>2, <2>3, ReadyCells
<1>5. Moved(x) \in SUBSET GateIDs
  BY <1>2 DEF GatesIn
<1> QED
  BY <1>3, <1>4, <1>5, ConeFacts

\* The components that share a gate with the cone of the output are those in merging.
LEMMA TouchedMerging ==
  ASSUME NEW n \in Nets, NEW p \in DOMAIN Outs(n), NEW o, o = Outs(n)[p], NEW x, IsReady(n, x, o),
         NEW i \in DOMAIN x.components
  PROVE  i \in x.merging <=> GatesAt(x, i) \cap Cone(n, o.source) # {}
<1>1. i \in x.merging => GatesAt(x, i) \cap Cone(n, o.source) # {}
  BY DEF IsReady, WorkInv, CellInv
<1>2. ASSUME NEW g \in GatesAt(x, i), g \in Cone(n, o.source) PROVE i \in x.merging
  <2>1. g \in Moved(x)
    BY <1>2, ConeMoved
  <2>2. g \in DOMAIN x.belongsTo /\ x.belongsTo[g] = i
    BY DEF IsReady, StoreInv
  <2>3. g \notin ToSet(x.component.inners)
    BY <2>2 DEF IsReady, WorkInv, CellInv
  <2>4. PICK j \in x.merging : g \in GatesAt(x, j)
    BY <2>1, <2>3, MovedGates
  <2>5. x.belongsTo[g] = j
    BY <2>4 DEF IsReady, StoreInv, WorkInv, CellInv
  <2> QED
    BY <2>2, <2>4, <2>5
<1> QED
  BY <1>1, <1>2

\* The components after output p has been added.
TouchedBy(n, cs, p) == {q \in PartsOf(n, cs) : q.gates \cap Cone(n, Outs(n)[p].source) # {}}

PartsWith(n, cs, p) ==
  (PartsOf(n, cs) \ TouchedBy(n, cs, p)) \cup
    {[gates |-> Cone(n, Outs(n)[p].source) \cup UNION {q.gates : q \in TouchedBy(n, cs, p)},
      outputs |-> {p} \cup UNION {q.outputs : q \in TouchedBy(n, cs, p)}]}

\* Completing a component is AddOutput.
LEMMA MakeParts ==
  ASSUME NEW n \in Nets, NEW p \in DOMAIN Outs(n), NEW o, o = Outs(n)[p], NEW x, IsReady(n, x, o),
         NEW y, NEW idx, IsCompleted(x, y, idx)
  PROVE  PartsOf(n, y.components) = PartsWith(n, x.components, p)
<1> DEFINE w == Whole(x)
           cone == Cone(n, o.source)
           P == PartsOf(n, x.components)
           old == TouchedBy(n, x.components, p)
           at(i) == PartOf(n, x.components[i])
           has(i) == DOMAIN x.components[i].outputs # {}
           new == [gates |-> cone \cup UNION {q.gates : q \in old}, outputs |-> {p} \cup UNION {q.outputs : q \in old}]
<1>1. /\ ToSet(w.inners) = Moved(x)
      /\ \A k : k \in DOMAIN w.outputs <=> k = OutputKey(o) \/ \E j \in x.merging : k \in DOMAIN x.components[j].outputs
  BY WholePart
<1>2. /\ DOMAIN y.components = DOMAIN x.components \cup {idx}
      /\ idx \in DOMAIN x.components => idx \in x.merging
      /\ y.components[idx] = w
      /\ \A i \in DOMAIN x.components \ {idx} :
           y.components[i] = IF i \in x.merging THEN NoComponent ELSE x.components[i]
  BY DEF IsCompleted
<1>3. /\ \A i \in DOMAIN x.components : GatesAt(x, i) # {} => has(i)
      /\ x.merging \subseteq DOMAIN x.components
      /\ ToSet(x.component.inners) \subseteq cone
  BY DEF IsReady, StoreInv, WorkInv, CellInv
<1>4. \A i \in DOMAIN x.components : i \in x.merging <=> GatesAt(x, i) \cap cone # {}
  BY TouchedMerging
<1>5. \A i : at(i).gates = GatesAt(x, i) /\ at(i).outputs = {IndexIn(n, k) : k \in DOMAIN x.components[i].outputs}
  BY DEF PartOf, GatesAt
<1>6. cone \subseteq Moved(x)
  BY ConeMoved
<1>7. \A q : q \in P <=> \E i \in DOMAIN x.components : has(i) /\ q = at(i)
  BY PartsByIndex
<1>8. \A q : q \in PartsOf(n, y.components) <=>
        \E i \in DOMAIN y.components : DOMAIN y.components[i].outputs # {} /\ q = PartOf(n, y.components[i])
  BY PartsByIndex
<1>9. old = {q \in P : q.gates \cap cone # {}}
  BY DEF TouchedBy
<1> HIDE DEF w, cone, P, at, has, old
<1>10. \A q : q \in old <=> \E i \in x.merging : q = at(i)
  BY <1>3, <1>4, <1>5, <1>7, <1>9
<1>11. \A q : q \in P \ old <=> \E i \in DOMAIN x.components \ x.merging : has(i) /\ q = at(i)
  <2>1. \A i \in DOMAIN x.components \ x.merging : at(i) \notin old
    BY <1>4, <1>5, <1>9
  <2> QED
    BY <1>7, <1>10, <2>1
<1>12. DOMAIN w.outputs # {}
  BY <1>1
<1>13. \A q : q \in PartsOf(n, y.components) <=> q = PartOf(n, w) \/ q \in P \ old
  <2>1. ASSUME NEW q \in PartsOf(n, y.components) PROVE q = PartOf(n, w) \/ q \in P \ old
    <3>1. PICK i \in DOMAIN y.components : DOMAIN y.components[i].outputs # {} /\ q = PartOf(n, y.components[i])
      BY <1>8
    <3>2. CASE i = idx
      BY <1>2, <3>1, <3>2
    <3>3. CASE i # idx
      <4>1. i \in DOMAIN x.components \ {idx}
        BY <1>2, <3>3
      <4>2. i \notin x.merging
        BY <1>2, <3>1, <4>1, EmptyPart
      <4>3. y.components[i] = x.components[i]
        BY <1>2, <4>1, <4>2
      <4> QED
        BY <1>11, <3>1, <4>1, <4>2, <4>3 DEF has, at
    <3> QED
      BY <3>2, <3>3
  <2>2. PartOf(n, w) \in PartsOf(n, y.components)
    BY <1>2, <1>8, <1>12
  <2>3. ASSUME NEW q \in P \ old PROVE q \in PartsOf(n, y.components)
    <3>1. PICK i \in DOMAIN x.components \ x.merging : has(i) /\ q = at(i)
      BY <1>11, <2>3
    <3>2. i # idx /\ i \in DOMAIN y.components
      BY <1>2
    <3>3. y.components[i] = x.components[i]
      BY <1>2, <3>2
    <3> QED
      BY <1>8, <3>1, <3>2, <3>3 DEF has, at
  <2> QED
    BY <2>1, <2>2, <2>3
<1>14. ToSet(w.inners) = cone \cup UNION {q.gates : q \in old}
  <2>1. ASSUME NEW g PROVE g \in UNION {q.gates : q \in old} <=> \E j \in x.merging : g \in GatesAt(x, j)
    BY <1>5, <1>10
  <2> QED
    BY <1>1, <1>3, <1>6, <2>1, MovedGates
<1>15. IndexIn(n, OutputKey(o)) = p
  BY Outputs DEF IndexIn
<1>16. {IndexIn(n, k) : k \in DOMAIN w.outputs} = {p} \cup UNION {q.outputs : q \in old}
  <2>1. ASSUME NEW v
        PROVE  v \in UNION {q.outputs : q \in old} <=>
                 \E j \in x.merging : \E k \in DOMAIN x.components[j].outputs : v = IndexIn(n, k)
    BY <1>5, <1>10
  <2>2. ASSUME NEW v
        PROVE  v \in {IndexIn(n, k) : k \in DOMAIN w.outputs} <=>
                 v = p \/ \E j \in x.merging : \E k \in DOMAIN x.components[j].outputs : v = IndexIn(n, k)
    BY <1>1, <1>15
  <2> QED
    BY <2>1, <2>2
<1>17. PartOf(n, w) = new
  BY <1>14, <1>16 DEF PartOf
<1> QED
  BY <1>13, <1>17 DEF P, cone, old, PartsWith

\* At the outputs the stack has one entry.
LEMMA AtOutputs ==
  ASSUME NEW n \in Nets, NEW x, DecomposerInv(n, x), x.stack # << >>, isOutput(Top(x))
  PROVE  /\ Len(x.stack) = 1 /\ Top(x) = x.stack[1]
         /\ Top(x).links = Outs(n) /\ Top(x).index \in 1 .. Len(Outs(n)) + 1 /\ Len(Outs(n)) \in Nat \ {0}
         /\ Current(x) = Top(x).index - 1
         /\ Current(x) = 0 => IsFresh(x)
         /\ Current(x) # 0 => Current(x) \in DOMAIN Outs(n) /\ WorkInv(n, x, Outs(n)[Current(x)])
<1> DEFINE h == Len(x.stack)
           p == Current(x)
<1>1. StackInv(n, x)
  BY DEF DecomposerInv
<1>2. /\ x.stack \in Seq(EntrySet(n)) /\ h \in Nat \ {0} /\ Top(x) = x.stack[h] /\ x.stack[h].cell = NoCell
      /\ x.stack[1].links = Outs(n) /\ x.stack[1].index \in 1 .. Len(Outs(n)) + 1 /\ Outs(n) # << >>
  BY <1>1 DEF StackInv, Top, Last, isOutput
<1>3. Outs(n) \in Seq(LinkSet(n)) /\ Len(Outs(n)) \in Nat \ {0} /\ DOMAIN Outs(n) = 1 .. Len(Outs(n))
  BY <1>2, Outputs
<1>4. p # 0 => p \in DOMAIN Outs(n) /\ WorkInv(n, x, Outs(n)[p])
  <2>1. p # 0 => p \in 1 .. Len(Outs(n))
    BY <1>2, <1>3 DEF Current
  <2> QED
    BY <1>3, <2>1 DEF DecomposerInv
<1>5. ASSUME h # 1 PROVE FALSE
  <2>1. p # 0
    BY <1>5 DEF DecomposerInv
  <2>2. h \in 2 .. h
    <3>1. h \in Nat \ {0} /\ h # 1
      BY <1>2, <1>5
    <3> HIDE DEF h
    <3> QED
      BY <3>1
  <2>3. IsGateEntry(n, x, Outs(n)[p], x.stack[h])
    BY <1>4, <2>1, <2>2 DEF WorkInv, CellInv
  <2>4. x.stack[h].cell \in Cells(n)
    BY <2>3 DEF IsGateEntry, GatesIn
  <2> QED
    BY <1>2, <2>4, NetsAssumption DEF IsNet, Cells
<1>6. p = x.stack[1].index - 1 /\ (p = 0 => IsFresh(x))
  BY DEF Current, DecomposerInv
<1> QED
  BY <1>2, <1>3, <1>4, <1>5, <1>6

\* Completing a component at the outputs: the store stays well formed and has one output
\* more.
LEMMA MakeStep ==
  ASSUME NEW n \in Nets, NEW x, DecomposerInv(n, x), x.stack # << >>, isOutput(Top(x)), Current(x) # 0,
         NEW z, z = makeComponent(x)
  PROVE  /\ IsContext(z) /\ IsFresh(z) /\ z.stack = x.stack /\ StackInv(n, z) /\ StoreInv(n, z)
         /\ PartsOf(n, z.components) = PartsWith(n, x.components, Current(x))
<1> DEFINE p == Current(x)
           o == Outs(n)[p]
           idx == IndexOf(x)
<1>1. IsReady(n, x, o) /\ p \in DOMAIN Outs(n)
  BY AtOutputs DEF DecomposerInv, IsReady
<1>2. IsContext(z) /\ IsFresh(z) /\ z.stack = x.stack /\ IsCompleted(x, z, idx)
  <2>1. IsContext(x) /\ IsList(x.components) /\ x.merging \subseteq DOMAIN x.components
    BY <1>1 DEF IsReady, StoreInv, WorkInv, CellInv, DecomposerInv
  <2> QED
    BY <2>1, MakeResult
<1>3. StackInv(n, z)
  BY <1>2 DEF DecomposerInv, StackInv
<1>4. StoreInv(n, z)
  BY <1>1, <1>2, MakeStore
<1>5. PartsOf(n, z.components) = PartsWith(n, x.components, p)
  BY <1>1, <1>2, MakeParts
<1> QED
  BY <1>2, <1>3, <1>4, <1>5

\* The number of outputs whose components have been completed.
CompletedOf(n, x) ==
  IF x.stack = << >> THEN Len(Outs(n)) ELSE IF x.stack[1].index = 1 THEN 0 ELSE x.stack[1].index - 2

\* A step of the traversal that adds an output, and one that is none of Components'.
IsAddition(n, x, y) ==
  /\ CompletedOf(n, x) < Len(Outs(n)) /\ CompletedOf(n, y) = CompletedOf(n, x) + 1
  /\ PartsOf(n, y.components) = PartsWith(n, x.components, CompletedOf(n, x) + 1)

IsStutter(n, x, y) == CompletedOf(n, y) = CompletedOf(n, x) /\ y.components = x.components

\* An iteration at the outputs, not the last one, keeps the invariant; it adds the previous
\* output if there is one.
LEMMA NextOutputInv ==
  ASSUME NEW n \in Nets, NEW x, DecomposerInv(n, x), x.stack # << >>, isOutput(Top(x)), ~isPassed(Top(x)),
         NEW y, y = Visit(n, IF Top(x).index > 1 THEN makeComponent(x) ELSE x)
  PROVE  DecomposerInv(n, y) /\ (IsAddition(n, x, y) \/ IsStutter(n, x, y))
<1>1. /\ Len(x.stack) = 1 /\ Top(x) = x.stack[1] /\ Top(x).links = Outs(n)
      /\ Top(x).index \in 1 .. Len(Outs(n)) + 1 /\ Len(Outs(n)) \in Nat \ {0}
      /\ Current(x) = Top(x).index - 1 /\ (Current(x) = 0 => IsFresh(x))
  BY AtOutputs
<1>2. CASE Top(x).index = 1
  <2>1. y = Visit(n, x) /\ IsFresh(x)
    BY <1>1, <1>2
  <2>2. /\ DecomposerInv(n, y) /\ y.components = x.components
        /\ y.stack # << >> /\ y.stack[1].index = x.stack[1].index + 1
    BY <1>1, <2>1, StartOutputInv DEF DecomposerInv
  <2>3. IsStutter(n, x, y)
    BY <1>1, <1>2, <2>2 DEF IsStutter, CompletedOf
  <2> QED
    BY <2>2, <2>3
<1>3. CASE Top(x).index # 1
  <2> DEFINE z == makeComponent(x)
  <2>1. y = Visit(n, z) /\ Current(x) # 0
    BY <1>1, <1>3
  <2>2. /\ IsContext(z) /\ IsFresh(z) /\ z.stack = x.stack /\ StackInv(n, z) /\ StoreInv(n, z)
        /\ PartsOf(n, z.components) = PartsWith(n, x.components, Current(x))
    BY <2>1, MakeStep
  <2> HIDE DEF z
  <2>3. Top(z) = Top(x) /\ Len(z.stack) = 1
    BY <1>1, <2>2 DEF Top
  <2>4. /\ DecomposerInv(n, y) /\ y.components = z.components
        /\ y.stack # << >> /\ y.stack[1].index = z.stack[1].index + 1
    BY <2>1, <2>2, <2>3, StartOutputInv
  <2> DEFINE i == x.stack[1].index
  <2>5. i \in 2 .. Len(Outs(n)) /\ Current(x) = i - 1
    BY <1>1, <1>3 DEF isPassed
  <2>6. CompletedOf(n, x) = i - 2 /\ CompletedOf(n, y) = i - 1
    BY <2>2, <2>4, <2>5 DEF CompletedOf
  <2> HIDE DEF i
  <2>7. IsAddition(n, x, y)
    <3>1. CompletedOf(n, x) < Len(Outs(n)) /\ CompletedOf(n, y) = CompletedOf(n, x) + 1 /\ Current(x) = CompletedOf(n, x) + 1
      BY <1>1, <2>5, <2>6
    <3> QED
      BY <2>2, <2>4, <3>1 DEF IsAddition
  <2> QED
    BY <2>4, <2>7
<1> QED
  BY <1>2, <1>3

\* The entry of the outputs is removed.
Popped(z) == [z EXCEPT !.stack = Front(@)]

\* Only the stack has changed.
LEMMA PopFields ==
  ASSUME NEW z, IsContext(z), NEW y, y = Popped(z)
  PROVE  /\ IsContext(y) /\ y.stack = Front(z.stack) /\ y.components = z.components /\ y.belongsTo = z.belongsTo
         /\ y.merging = z.merging /\ y.component = z.component /\ y.componentCells = z.componentCells
<1> DEFINE s == Front(z.stack)
<1>1. y = [z EXCEPT !.stack = s]
  BY DEF Popped
<1> HIDE DEF s
<1>2. y = MkContext(s, z.components, z.belongsTo, z.merging, z.component, z.componentCells)
  BY <1>1 DEF IsContext, MkContext
<1> QED
  BY <1>2 DEF IsContext, MkContext, s

\* The last iteration keeps the invariant and adds the last output.
LEMMA LastOutputInv ==
  ASSUME NEW n \in Nets, NEW x, DecomposerInv(n, x), x.stack # << >>, isOutput(Top(x)), isPassed(Top(x)),
         NEW y, y = Popped(makeComponent(x))
  PROVE  DecomposerInv(n, y) /\ IsAddition(n, x, y)
<1>1. /\ Len(x.stack) = 1 /\ Top(x) = x.stack[1] /\ Top(x).links = Outs(n)
      /\ Top(x).index \in 1 .. Len(Outs(n)) + 1 /\ Len(Outs(n)) \in Nat \ {0}
      /\ Current(x) = Top(x).index - 1
  BY AtOutputs
<1>2. Top(x).index = Len(Outs(n)) + 1 /\ Current(x) = Len(Outs(n)) /\ Current(x) # 0
  BY <1>1 DEF isPassed
<1> DEFINE z == makeComponent(x)
<1>3. /\ IsContext(z) /\ IsFresh(z) /\ z.stack = x.stack /\ StackInv(n, z) /\ StoreInv(n, z)
      /\ PartsOf(n, z.components) = PartsWith(n, x.components, Current(x))
  BY <1>2, MakeStep
<1>4. y = Popped(z)
  OBVIOUS
<1> HIDE DEF z
<1>6. /\ IsContext(y) /\ y.stack = Front(z.stack) /\ y.components = z.components /\ y.belongsTo = z.belongsTo
      /\ y.merging = z.merging /\ y.component = z.component /\ y.componentCells = z.componentCells
  BY <1>3, <1>4, PopFields
<1>7. y.stack = << >>
  <2> DEFINE s == x.stack
             E == EntrySet(n)
  <2>1. s \in Seq(E) /\ Len(s) = 1 /\ y.stack = Front(s)
    BY <1>1, <1>3, <1>6 DEF DecomposerInv, StackInv
  <2> HIDE DEF s, E
  <2> QED
    BY <2>1 DEF Front
<1>8. StoreInv(n, y)
  BY <1>3, <1>6, VisitStore
<1>9. IsFresh(y) /\ IsComponent(y.component)
  BY <1>3, <1>6, EmptyPart DEF IsFresh, IsPart
<1>10. StackInv(n, y)
  <2>1. << >> \in Seq(EntrySet(n))
    OBVIOUS
  <2> QED
    BY <1>7, <2>1 DEF StackInv
<1>11. DecomposerInv(n, y)
  BY <1>6, <1>7, <1>8, <1>9, <1>10 DEF DecomposerInv
<1>12. CompletedOf(n, x) = Len(Outs(n)) - 1 /\ CompletedOf(n, y) = Len(Outs(n))
  BY <1>1, <1>2, <1>7 DEF CompletedOf
<1>13. IsAddition(n, x, y)
  <2>1. CompletedOf(n, x) < Len(Outs(n)) /\ CompletedOf(n, y) = CompletedOf(n, x) + 1 /\ Current(x) = CompletedOf(n, x) + 1
    BY <1>1, <1>2, <1>12
  <2> QED
    BY <1>3, <1>6, <2>1 DEF IsAddition
<1> QED
  BY <1>11, <1>13

-----------------------------------------------------------------------------
(* The theorems.                                                           *)

\* The context constructed satisfies the invariant; no output has been added.
LEMMA NewContextInv ==
  ASSUME NEW n \in Nets, NEW x, x = NewContext(n)
  PROVE  DecomposerInv(n, x) /\ x.components = << >> /\ CompletedOf(n, x) = 0
<1> DEFINE s == IF Outs(n) = << >> THEN << >> ELSE <<Entry(NoCell, Outs(n))>>
<1>1. x = MkContext(s, << >>, << >>, {}, NoComponent, {})
  BY DEF NewContext, MkContext, Outs
<1> HIDE DEF s
<1>2. /\ IsContext(x) /\ x.stack = s /\ x.components = << >> /\ x.belongsTo = << >> /\ x.merging = {}
      /\ x.component = NoComponent /\ x.componentCells = {}
  BY <1>1 DEF MkContext, IsContext
<1>3. Outs(n) \in Seq(LinkSet(n)) /\ Len(Outs(n)) \in Nat
  BY Outputs
<1>4. CASE Outs(n) = << >>
  <2>1. s = << >> /\ Len(Outs(n)) = 0
    BY <1>4 DEF s
  <2>2. StackInv(n, x) /\ CompletedOf(n, x) = 0
    BY <1>2, <2>1 DEF StackInv, CompletedOf
  <2>3. IsFresh(x) /\ IsComponent(x.component)
    BY <1>2, EmptyPart DEF IsFresh, IsPart
  <2>4. StoreInv(n, x)
    BY <1>2 DEF StoreInv, IsList
  <2> QED
    BY <1>2, <2>1, <2>2, <2>3, <2>4 DEF DecomposerInv
<1>5. CASE Outs(n) # << >>
  <2> DEFINE e == Entry(NoCell, Outs(n))
  <2>1. s = <<e>>
    BY <1>5 DEF s
  <2>2. e.cell = NoCell /\ e.links = Outs(n) /\ e.index = 1 /\ e \in EntrySet(n)
    BY <1>3 DEF Entry, EntrySet
  <2> HIDE DEF e
  <2>3. x.stack \in Seq(EntrySet(n)) /\ x.stack # << >> /\ Len(x.stack) = 1 /\ x.stack[1] = e
    BY <1>2, <2>1, <2>2
  <2>4. StackInv(n, x) /\ CompletedOf(n, x) = 0 /\ Current(x) = 0
    BY <1>3, <1>5, <2>2, <2>3 DEF StackInv, CompletedOf, Current
  <2>5. IsFresh(x) /\ IsComponent(x.component)
    BY <1>2, EmptyPart DEF IsFresh, IsPart
  <2>6. StoreInv(n, x)
    BY <1>2 DEF StoreInv, IsList
  <2> QED
    BY <1>2, <2>3, <2>4, <2>5, <2>6 DEF DecomposerInv
<1> QED
  BY <1>4, <1>5

\* One step of the traversal.
LEMMA TraverseInv ==
  ASSUME Inv, Traverse
  PROVE  /\ net' = net /\ Inv'
         /\ IsAddition(net, context, context') \/ IsStutter(net, context, context')
<1>1. net \in Nets /\ DecomposerInv(net, context)
  BY DEF Inv
<1>2. net' = net /\ context.stack # << >>
  BY DEF Traverse, NextOutput, LastOutput, VisitLink, LeaveGate, Traversing
<1>3. CASE NextOutput
  <2>1. isOutput(Top(context)) /\ ~isPassed(Top(context))
        /\ context' = Visit(net, IF Top(context).index > 1 THEN makeComponent(context) ELSE context)
    BY <1>3 DEF NextOutput
  <2>2. DecomposerInv(net, context') /\ (IsAddition(net, context, context') \/ IsStutter(net, context, context'))
    BY <1>1, <1>2, <2>1, NextOutputInv
  <2> QED
    BY <1>1, <1>2, <2>2 DEF Inv
<1>4. CASE LastOutput
  <2>1. isOutput(Top(context)) /\ isPassed(Top(context)) /\ context' = Popped(makeComponent(context))
    BY <1>4 DEF LastOutput, Popped
  <2>2. DecomposerInv(net, context') /\ IsAddition(net, context, context')
    BY <1>1, <1>2, <2>1, LastOutputInv
  <2> QED
    BY <1>1, <1>2, <2>2 DEF Inv
<1>5. CASE VisitLink
  <2>1. ~isOutput(Top(context)) /\ ~isPassed(Top(context)) /\ context' = Visit(net, context)
    BY <1>5 DEF VisitLink
  <2>2. /\ DecomposerInv(net, context') /\ context'.components = context.components
        /\ context'.stack # << >> /\ context'.stack[1].index = context.stack[1].index
    BY <1>1, <1>2, <2>1, VisitLinkInv
  <2>3. IsStutter(net, context, context')
    BY <1>2, <2>2 DEF IsStutter, CompletedOf
  <2> QED
    BY <1>1, <1>2, <2>2, <2>3 DEF Inv
<1>6. CASE LeaveGate
  <2>1. ~isOutput(Top(context)) /\ isPassed(Top(context)) /\ context' = Left(context)
    BY <1>6 DEF LeaveGate, Left
  <2>2. /\ DecomposerInv(net, context') /\ context'.components = context.components
        /\ context'.stack # << >> /\ context'.stack[1].index = context.stack[1].index
    BY <1>1, <1>2, <2>1, LeaveGateInv
  <2>3. IsStutter(net, context, context')
    BY <1>2, <2>2 DEF IsStutter, CompletedOf
  <2> QED
    BY <1>1, <1>2, <2>2, <2>3 DEF Inv
<1> QED
  BY <1>3, <1>4, <1>5, <1>6 DEF Traverse

\* The invariant holds in every reachable state.
THEOREM Invariance == DecomposerSpec => []Inv
<1>1. DecomposerInit => Inv
  BY NewContextInv DEF DecomposerInit, Inv
<1>2. Inv /\ [Traverse]_decomposerVars => Inv'
  <2>1. Inv /\ Traverse => Inv'
    BY TraverseInv
  <2>2. Inv /\ UNCHANGED decomposerVars => Inv'
    BY DEF Inv, decomposerVars
  <2> QED
    BY <2>1, <2>2
<1> QED
  BY <1>1, <1>2, PTL DEF DecomposerSpec

\* For every net: the signal type noted for an input of a component is that of one of
\* its outputs which depends on the input.
THEOREM SignalsSoundness == DecomposerSpec => []SignalsSound
<1>1. Inv => SignalsSound
  <2> SUFFICES ASSUME Inv, NEW c \in ToSet(context.components), NEW s \in DOMAIN c.inputs
               PROVE  \E o \in DOMAIN c.outputs :
                        /\ c.outputs[o] = c.inputs[s]
                        /\ s = o.source \/ \E g \in Abstract!ConeOf(Graph, o.source) : s \in Graph.fanin[g]
    BY DEF SignalsSound
  <2>1. IsPart(net, c)
    BY DEF Inv, DecomposerInv, StoreInv, ToSet
  <2>2. PICK o \in DOMAIN c.outputs : c.outputs[o] = c.inputs[s] /\ Uses(net, o, s)
    BY <2>1 DEF IsPart
  <2> QED
    BY <2>2 DEF Uses, Cone, Fanin, Graph
<1> QED
  BY <1>1, Invariance, PTL

\* The state function of the refinement mapping, in terms of the net and the context.
LEMMA Mapping ==
  /\ Completed = CompletedOf(net, context) /\ Parts = PartsOf(net, context.components)
  /\ Completed' = CompletedOf(net', context') /\ Parts' = PartsOf(net', context'.components)
  /\ Graph = GraphOf(net) /\ Graph' = GraphOf(net')
  BY DEF Completed, CompletedOf, Parts, PartsOf, PartOf, OutputIndex, IndexIn, Outs, Traversing, Graph

\* The sources of the outputs as Components sees them.
LEMMA GraphSources ==
  ASSUME NEW n \in Nets
  PROVE  /\ Len(GraphOf(n).sources) = Len(Outs(n))
         /\ \A k \in 1 .. Len(Outs(n)) : GraphOf(n).sources[k] = Outs(n)[k].source
<1> DEFINE f == [k \in DOMAIN Outs(n) |-> Outs(n)[k].source]
<1>1. GraphOf(n).sources = f
  BY DEF GraphOf, Outs
<1>2. DOMAIN Outs(n) = 1 .. Len(Outs(n)) /\ Len(Outs(n)) \in Nat
  BY Outputs
<1>3. DOMAIN f = 1 .. Len(Outs(n))
  BY <1>2
<1>4. f \in Seq({f[k] : k \in DOMAIN f}) /\ Len(f) = Len(Outs(n))
  BY <1>2, <1>3
<1> QED
  BY <1>1, <1>2, <1>4

\* The traversal starts in a state in which no output has been passed.
LEMMA RefinesInit == DecomposerInit => Abstract!Init
<1> SUFFICES ASSUME DecomposerInit PROVE Abstract!Init
  OBVIOUS
<1>1. context.components = << >> /\ CompletedOf(net, context) = 0
  BY NewContextInv DEF DecomposerInit
<1>2. PartsOf(net, << >>) = {}
  BY PartsByIndex
<1> QED
  BY <1>1, <1>2, Mapping DEF Abstract!Init

\* Every iteration adds an output or changes nothing that Components sees.
LEMMA RefinesNext == Inv /\ [Traverse]_decomposerVars => [Abstract!Next]_(Abstract!vars)
<1>1. ASSUME Inv, UNCHANGED decomposerVars
      PROVE  UNCHANGED <<Graph, Completed, Parts>>
  <2>1. net' = net /\ context' = context
    BY <1>1 DEF decomposerVars
  <2> QED
    BY <2>1, Mapping
<1>2. ASSUME Inv, Traverse, IsStutter(net, context, context')
      PROVE  UNCHANGED <<Graph, Completed, Parts>>
  <2>1. net' = net
    BY <1>2, TraverseInv
  <2> QED
    BY <1>2, <2>1, Mapping DEF IsStutter
<1>3. ASSUME Inv, Traverse, IsAddition(net, context, context')
      PROVE  Abstract!AddOutput
  <2>1. net' = net /\ net \in Nets
    BY <1>3, TraverseInv DEF Inv
  <2> DEFINE k == Completed
             s == Outs(net)[k + 1].source
  <2>2. k < Len(Outs(net)) /\ Completed' = k + 1 /\ Parts' = PartsWith(net, context.components, k + 1)
    BY <1>3, <2>1, Mapping DEF IsAddition
  <2>3. k + 1 \in 1 .. Len(Outs(net))
    <3>1. Len(Outs(net)) \in Nat /\ StackInv(net, context)
      BY <1>3, <2>1, Outputs DEF Inv, DecomposerInv
    <3>2. k \in Nat
      BY <2>1, <3>1, Mapping DEF CompletedOf, StackInv
    <3> QED
      BY <2>2, <3>1, <3>2
  <2>4. Len(Graph.sources) = Len(Outs(net)) /\ Graph.sources[k + 1] = s
    BY <2>1, <2>3, GraphSources, Mapping
  <2>5. Abstract!ConeOf(Graph, s) = Cone(net, s)
    BY DEF Cone, Graph
  <2>6. TouchedBy(net, context.components, k + 1) = Abstract!Touched(Cone(net, s))
    BY Mapping DEF TouchedBy, Abstract!Touched
  <2>7. Parts' = (Parts \ Abstract!Touched(Cone(net, s))) \cup
                   {[gates |-> Cone(net, s) \cup UNION {p.gates : p \in Abstract!Touched(Cone(net, s))},
                     outputs |-> {k + 1} \cup UNION {p.outputs : p \in Abstract!Touched(Cone(net, s))}]}
    BY <2>2, <2>6, Mapping DEF PartsWith
  <2>8. Graph' = Graph
    BY <2>1, Mapping
  <2> QED
    BY <2>2, <2>4, <2>5, <2>7, <2>8 DEF Abstract!AddOutput
<1> QED
  BY <1>1, <1>2, <1>3, TraverseInv DEF Abstract!Next, Abstract!vars

\* For every net: the traversal implements Components.
THEOREM Refinement == DecomposerSpec => ImplementsComponents
<1> QED
  BY RefinesInit, RefinesNext, Invariance, PTL DEF DecomposerSpec, ImplementsComponents, Abstract!Spec

\* The theorems about Components, for the components of the traversal.
CP == INSTANCE ComponentsProofs WITH
  Gates <- GateIDs,
  graph <- Graph, passed <- Completed, parts <- Parts

\* For every net and after every output: the components found share no gates and no
\* outputs, contain all that their outputs depend on and nothing else, and cannot be
\* divided.
THEOREM ComponentsFound ==
  DecomposerSpec => [](Abstract!Disjoint /\ Abstract!SelfContained /\ Abstract!Finest /\ Abstract!NoDeadGates)
<1>1. Abstract!Init => CP!Init
  BY DEF Abstract!Init, CP!Init
<1>2. \A m, x : Abstract!ConeOf(m, x) = CP!ConeOf(m, x)
  BY DEF Abstract!ConeOf, CP!ConeOf, Abstract!IsClosed, CP!IsClosed
<1>3. \A S : Abstract!Touched(S) = CP!Touched(S)
  BY DEF Abstract!Touched, CP!Touched
<1>4. [Abstract!Next]_(Abstract!vars) => [CP!Next]_(CP!vars)
  BY <1>2, <1>3 DEF Abstract!Next, CP!Next, Abstract!AddOutput, CP!AddOutput, Abstract!vars, CP!vars
<1>5. CP!Disjoint /\ CP!SelfContained /\ CP!Finest /\ CP!NoDeadGates
        => Abstract!Disjoint /\ Abstract!SelfContained /\ Abstract!Finest /\ Abstract!NoDeadGates
  <2>1. \A m, S : Abstract!IsClosed(m, S) <=> CP!IsClosed(m, S)
    BY DEF Abstract!IsClosed, CP!IsClosed
  <2>2. CP!Disjoint => Abstract!Disjoint
    BY DEF Abstract!Disjoint, CP!Disjoint
  <2>3. CP!SelfContained => Abstract!SelfContained
    BY <1>2, <2>1 DEF Abstract!SelfContained, CP!SelfContained
  <2>4. CP!Finest => Abstract!Finest
    BY <2>1 DEF Abstract!Finest, CP!Finest
  <2>5. CP!NoDeadGates => Abstract!NoDeadGates
    BY <1>2 DEF Abstract!NoDeadGates, CP!NoDeadGates
  <2> QED
    BY <2>2, <2>3, <2>4, <2>5
<1>6. DecomposerSpec => CP!Spec
  BY <1>1, <1>4, Refinement, PTL DEF ImplementsComponents, Abstract!Spec, CP!Spec
<1> QED
  BY <1>5, <1>6, CP!ComponentsSound, PTL

-----------------------------------------------------------------------------
(* The gates of every component of a net without loops are listed after    *)
(* the gates they depend on.  The stack of the traversal is a path of      *)
(* links, so a gate left could only depend on one that is still on the     *)
(* stack if the net had a loop; everything else it depends on is listed    *)
(* already, or in a component that will be put in front.                   *)

\* A net without loops: in every set of gates there is one that depends on none of
\* the others.
IsAcyclic(n) ==
  \A S \in SUBSET GateIDs : (\A g \in S : Fanin(n, g) \cap S # {}) => S = {}

\* The completed components are in order, the one under construction depends on gates
\* listed earlier and on gates of others, and the gates on the stack are a path.
OrderInv(n, x) ==
  /\ \A i \in DOMAIN x.components : IsOrdered(n, x.components[i])
  /\ IsOrderedAfter(n, x.component, DOMAIN x.belongsTo)
  /\ \A k \in 2 .. Len(x.stack) - 1 : x.stack[k + 1].cell \in ToSet(n.links[x.stack[k].cell])

\* The inductive invariant: Inv, and the order in a net without loops.
GatesOrdered == Inv /\ (IsAcyclic(net) => OrderInv(net, context))

\* An iteration at a link.
LEMMA VisitOrder ==
  ASSUME NEW n \in Nets, NEW x, IsContext(x), IsComponent(x.component), StackInv(n, x), OrderInv(n, x),
         x.stack # << >>, ~isPassed(Top(x)),
         Len(x.stack) # 1 => Here(x).source \in ToSet(n.links[Top(x).cell]),
         NEW y, y = Visit(n, x)
  PROVE  OrderInv(n, y)
<1> DEFINE h == Len(x.stack)
<1>1. y.components = x.components /\ y.belongsTo = x.belongsTo /\ y.component.inners = x.component.inners
  BY VisitResult
<1>2. StackAfter(n, x, y)
  BY VisitStack
<1>3. h \in Nat \ {0} /\ Top(x) = x.stack[h]
  BY DEF StackInv, Top, Last
<1>4. /\ \A k \in 1 .. h - 1 : y.stack[k] = x.stack[k]
      /\ y.stack[h].cell = x.stack[h].cell
      /\ Len(y.stack) = h \/ (Len(y.stack) = h + 1 /\ y.stack[h + 1].cell = Here(x).source)
  BY <1>2, <1>3 DEF StackAfter, Entry
<1>5. ASSUME NEW k \in 2 .. Len(y.stack) - 1
      PROVE  y.stack[k + 1].cell \in ToSet(n.links[y.stack[k].cell])
  <2>1. \A j \in 2 .. h - 1 : x.stack[j + 1].cell \in ToSet(n.links[x.stack[j].cell])
    BY DEF OrderInv
  <2>2. h # 1 => Here(x).source \in ToSet(n.links[x.stack[h].cell])
    BY <1>3
  <2> HIDE DEF h
  <2>3. \A j \in 1 .. h : y.stack[j].cell = x.stack[j].cell
    BY <1>3, <1>4
  <2>4. CASE k \in 2 .. h - 1
    BY <1>3, <2>1, <2>3, <2>4
  <2>5. CASE k \notin 2 .. h - 1
    <3>1. k = h /\ h # 1 /\ y.stack[h + 1].cell = Here(x).source
      BY <1>3, <1>4, <2>5
    <3> QED
      BY <1>4, <2>2, <3>1
  <2> QED
    BY <2>4, <2>5
<1> QED
  BY <1>1, <1>5 DEF OrderInv, IsOrderedAfter

\* No gate that the top of the stack depends on is on the stack: it would close a loop.
LEMMA NoLoop ==
  ASSUME NEW n \in Nets, NEW x, IsAcyclic(n), OrderInv(n, x), NEW h \in Nat, h = Len(x.stack),
         \A j \in 2 .. h : x.stack[j].cell \in GatesIn(n),
         NEW k \in 2 .. h, x.stack[k].cell \in ToSet(n.links[x.stack[h].cell])
  PROVE  FALSE
<1> DEFINE c(j) == x.stack[j].cell
           S == {c(j) : j \in k .. h}
<1>1. \A j \in k .. h : c(j) \in GatesIn(n)
  OBVIOUS
<1>2. \A j \in k .. h - 1 : c(j + 1) \in ToSet(n.links[c(j)])
  BY DEF OrderInv
<1>3. c(k) \in ToSet(n.links[c(h)])
  OBVIOUS
<1> HIDE DEF c
<1>4. S \in SUBSET GateIDs /\ c(k) \in S
  BY <1>1 DEF GatesIn
<1>5. ASSUME NEW g \in S PROVE Fanin(n, g) \cap S # {}
  <2>1. PICK j \in k .. h : g = c(j)
    OBVIOUS
  <2>2. Fanin(n, g) = ToSet(n.links[g])
    BY <1>1, <2>1, FaninLinks
  <2>3. CASE j = h
    BY <1>3, <1>4, <2>1, <2>2, <2>3
  <2>4. CASE j # h
    <3>1. j \in k .. h - 1 /\ j + 1 \in k .. h
      BY <2>4
    <3>2. c(j + 1) \in Fanin(n, g) /\ c(j + 1) \in S
      BY <1>2, <2>1, <2>2, <3>1
    <3> QED
      BY <3>2
  <2> QED
    BY <2>3, <2>4
<1> HIDE DEF S
<1> QED
  BY <1>4, <1>5 DEF IsAcyclic

\* The signal type of the output whose component is under construction.
LEMMA CurrentSignal ==
  ASSUME NEW n \in Nets, NEW x, StackInv(n, x), x.stack # << >>, Current(x) # 0
  PROVE  Outs(n)[Current(x)].signal \in Signals
<1>1. x.stack[1].index \in 1 .. Len(Outs(n)) + 1 /\ Len(Outs(n)) \in Nat
  BY Outputs DEF StackInv
<1>2. Current(x) \in 1 .. Len(Outs(n))
  BY <1>1 DEF Current
<1>3. Current(x) \in DOMAIN Outs(n)
  BY <1>2, Outputs
<1> QED
  BY <1>3, Outputs DEF LinkSet

\* At the end of the links of a gate, all it links to has been met.
LEMMA PassedLinks ==
  ASSUME NEW n \in Nets, NEW x, NEW o, o.signal \in Signals, NEW e, IsGateEntry(n, x, o, e), e.index > Len(e.links),
         NEW s \in ToSet(n.links[e.cell])
  PROVE  IsSeen(n, x, s)
<1>1. e.cell \in Cells(n) /\ e.links = GateLinks(n, e.cell, o.signal) /\ e.index \in 1 .. Len(e.links) + 1
  BY DEF IsGateEntry, GatesIn
<1>2. DOMAIN e.links = DOMAIN n.links[e.cell] /\ e.links \in Seq(LinkSet(n))
  BY <1>1, GateLinksFacts
<1>3. DOMAIN e.links = 1 .. Len(e.links) /\ Len(e.links) \in Nat
  BY <1>2
<1>4. PICK j \in DOMAIN n.links[e.cell] : s = n.links[e.cell][j]
  BY DEF ToSet
<1>5. j \in 1 .. e.index - 1
  BY <1>1, <1>2, <1>3, <1>4
<1> QED
  BY <1>4, <1>5 DEF IsGateEntry

\* A gate is left.
LEMMA LeaveOrder ==
  ASSUME NEW n \in Nets, NEW x, DecomposerInv(n, x), IsAcyclic(n), OrderInv(n, x),
         x.stack # << >>, ~isOutput(Top(x)), isPassed(Top(x)), NEW y, y = Left(x)
  PROVE  OrderInv(n, y)
<1> DEFINE e == Top(x)
           h == Len(x.stack)
           o == Outs(n)[Current(x)]
           g == x.component.inners
<1>1. IsContext(x) /\ IsComponent(x.component) /\ StackInv(n, x) /\ StoreInv(n, x)
  BY DEF DecomposerInv
<1>2. x.stack \in Seq(EntrySet(n)) /\ h \in Nat \ {0} /\ e = x.stack[h] /\ x.stack[1].cell = NoCell /\ e.cell # NoCell
  BY <1>1 DEF StackInv, Top, Last, isOutput
<1>3. h # 1
  BY <1>2
<1>4. CellInv(n, x, o) /\ IsPart(n, x.component) /\ Current(x) # 0
  BY <1>3 DEF DecomposerInv, WorkInv
<1>5. /\ y.stack = Front(x.stack) /\ y.components = x.components /\ y.belongsTo = x.belongsTo
      /\ y.component.inners = Append(g, e.cell)
  BY <1>1, LeftFields
<1> HIDE DEF o
<1>6. \A j \in 2 .. h : IsGateEntry(n, x, o, x.stack[j])
  BY <1>4 DEF CellInv
<1>7. h \in 2 .. h
  BY <1>2, <1>3
<1>8. o.signal \in Signals
  BY <1>1, <1>4, CurrentSignal DEF o
<1>9. ASSUME NEW s \in ToSet(n.links[e.cell])
      PROVE  isInputLink(n, s) \/ s \in DOMAIN x.belongsTo \/ s \in ToSet(g)
  <2>1. IsSeen(n, x, s)
    <3>1. IsGateEntry(n, x, o, e)
      BY <1>2, <1>6, <1>7
    <3>2. e.index > Len(e.links)
      BY DEF isPassed
    <3> QED
      BY <1>8, <3>1, <3>2, PassedLinks
  <2>2. ~isInputLink(n, s) /\ s \notin DOMAIN x.belongsTo => s \in x.componentCells
    BY <2>1 DEF IsSeen
  <2>3. s \in x.componentCells => s \in ToSet(g) \/ \E k \in 2 .. h : x.stack[k].cell = s
    BY <1>4 DEF CellInv
  <2>4. \A j \in 2 .. h : x.stack[j].cell \in GatesIn(n)
    BY <1>6 DEF IsGateEntry
  <2>5. \A k \in 2 .. h : x.stack[k].cell # s
    BY <1>2, <2>4, NoLoop
  <2> QED
    BY <2>2, <2>3, <2>5
<1>10. IsOrderedAfter(n, y.component, DOMAIN y.belongsTo)
  <2> DEFINE S == DOMAIN x.belongsTo
             a == Append(g, e.cell)
  <2>1. g \in Seq(GatesIn(n)) /\ e.cell \in GatesIn(n)
    BY <1>2, <1>4, <1>6, <1>7 DEF IsPart, IsGateEntry
  <2>2. \A k \in DOMAIN g : \A s \in ToSet(n.links[g[k]]) :
          isInputLink(n, s) \/ s \in S \/ \E m \in 1 .. k - 1 : g[m] = s
    BY DEF OrderInv, IsOrderedAfter
  <2> HIDE DEF g, e
  <2>3. DOMAIN a = 1 .. Len(g) + 1 /\ DOMAIN g = 1 .. Len(g) /\ Len(g) \in Nat
    BY <2>1
  <2>4. (\A k \in 1 .. Len(g) : a[k] = g[k]) /\ a[Len(g) + 1] = e.cell
    BY <2>1
  <2> HIDE DEF a, S
  <2>5. ASSUME NEW k \in DOMAIN a, NEW s \in ToSet(n.links[a[k]])
        PROVE  isInputLink(n, s) \/ s \in S \/ \E m \in 1 .. k - 1 : a[m] = s
    <3>1. CASE k = Len(g) + 1
      <4>1. isInputLink(n, s) \/ s \in S \/ s \in ToSet(g)
        BY <1>9, <2>4, <3>1 DEF S
      <4>2. ASSUME s \in ToSet(g) PROVE \E m \in 1 .. k - 1 : a[m] = s
        <5>1. PICK m \in DOMAIN g : g[m] = s
          BY <4>2 DEF ToSet
        <5>2. m \in 1 .. k - 1 /\ a[m] = s
          BY <2>3, <2>4, <3>1, <5>1
        <5> QED
          BY <5>2
      <4> QED
        BY <4>1, <4>2
    <3>2. CASE k # Len(g) + 1
      <4>1. k \in 1 .. Len(g) /\ a[k] = g[k]
        BY <2>3, <2>4, <3>2
      <4>2. isInputLink(n, s) \/ s \in S \/ \E m \in 1 .. k - 1 : g[m] = s
        BY <2>2, <2>3, <4>1
      <4>3. \A m \in 1 .. k - 1 : a[m] = g[m]
        BY <2>3, <2>4, <4>1
      <4> QED
        BY <4>2, <4>3
    <3> QED
      BY <3>1, <3>2
  <2> QED
    BY <1>5, <2>5 DEF IsOrderedAfter, S, a
<1>11. ASSUME NEW k \in 2 .. Len(y.stack) - 1
       PROVE  y.stack[k + 1].cell \in ToSet(n.links[y.stack[k].cell])
  <2>1. Len(y.stack) = h - 1 /\ \A j \in 1 .. h - 1 : y.stack[j] = x.stack[j]
    <3> DEFINE s == x.stack
               E == EntrySet(n)
    <3>1. s \in Seq(E) /\ h = Len(s) /\ s # << >> /\ y.stack = Front(s)
      BY <1>2, <1>5
    <3> HIDE DEF s, E, h
    <3> QED
      BY <3>1 DEF Front, s
  <2>2. \A j \in 2 .. h - 1 : x.stack[j + 1].cell \in ToSet(n.links[x.stack[j].cell])
    BY DEF OrderInv
  <2> HIDE DEF h
  <2>3. k \in 2 .. h - 1 /\ y.stack[k] = x.stack[k] /\ y.stack[k + 1] = x.stack[k + 1]
    BY <1>2, <2>1
  <2> QED
    BY <2>2, <2>3
<1> QED
  BY <1>5, <1>10, <1>11 DEF OrderInv

\* A component is completed: the components that it shares gates with come before its
\* own gates.
LEMMA MakeOrder ==
  ASSUME NEW n \in Nets, NEW x, DecomposerInv(n, x), OrderInv(n, x), x.stack # << >>, isOutput(Top(x)),
         Current(x) # 0, NEW z, z = makeComponent(x)
  PROVE  OrderInv(n, z)
<1> DEFINE o == Outs(n)[Current(x)]
           w == Whole(x)
           idx == IndexOf(x)
<1>1. IsReady(n, x, o)
  BY AtOutputs DEF DecomposerInv, IsReady
<1> HIDE DEF o
<1>2. /\ IsFresh(z) /\ z.stack = x.stack /\ IsCompleted(x, z, idx)
  <2>1. IsContext(x) /\ IsList(x.components) /\ x.merging \subseteq DOMAIN x.components
    BY <1>1 DEF IsReady, StoreInv, WorkInv, CellInv, DecomposerInv
  <2> QED
    BY <2>1, MakeResult
<1>3. /\ x.merging \subseteq DOMAIN x.components
      /\ x.componentCells \cap DOMAIN x.belongsTo = {}
      /\ \A g \in ToSet(x.component.inners) : \A s \in ToSet(n.links[g]) : IsSeen(n, x, s)
      /\ \A g \in DOMAIN x.belongsTo : g \in GatesAt(x, x.belongsTo[g])
  BY <1>1 DEF IsReady, StoreInv, WorkInv, CellInv
<1>4. \A i \in DOMAIN x.components : IsOrdered(n, x.components[i])
  BY DEF OrderInv
<1>5. ASSUME NEW S, \A j \in x.merging : GatesAt(x, j) \subseteq S
      PROVE  IsOrderedAfter(n, x.component, S)
  <2> DEFINE g == x.component.inners
  <2>1. \A k \in DOMAIN g : \A s \in ToSet(n.links[g[k]]) :
          isInputLink(n, s) \/ s \in DOMAIN x.belongsTo \/ \E m \in 1 .. k - 1 : g[m] = s
    BY DEF OrderInv, IsOrderedAfter
  <2>2. \A k \in DOMAIN g : g[k] \in ToSet(g)
    BY DEF ToSet
  <2>3. \A k \in DOMAIN g : \A s \in ToSet(n.links[g[k]]) : IsSeen(n, x, s)
    BY <1>3, <2>2
  <2> HIDE DEF g
  <2>4. \A s : IsSeen(n, x, s) /\ ~isInputLink(n, s) /\ s \in DOMAIN x.belongsTo => s \in S
    BY <1>3, <1>5 DEF IsSeen
  <2>5. \A k \in DOMAIN g : \A s \in ToSet(n.links[g[k]]) :
          isInputLink(n, s) \/ s \in S \/ \E m \in 1 .. k - 1 : g[m] = s
    BY <2>1, <2>3, <2>4
  <2> QED
    BY <2>5 DEF IsOrderedAfter, g
<1>6. IsOrdered(n, w)
  BY <1>1, <1>3, <1>4, <1>5, WholePart
<1>7. \A S : IsOrderedAfter(n, NoComponent, S)
  <2>1. DOMAIN NoComponent.inners = {}
    BY DEF NoComponent
  <2> QED
    BY <2>1 DEF IsOrderedAfter
<1>8. \A i \in DOMAIN z.components : IsOrdered(n, z.components[i])
  BY <1>2, <1>4, <1>6, <1>7 DEF IsCompleted, IsOrdered
<1>9. IsOrderedAfter(n, z.component, DOMAIN z.belongsTo)
  BY <1>2, <1>7 DEF IsFresh
<1> QED
  BY <1>2, <1>8, <1>9 DEF OrderInv

\* An iteration at the outputs, not the last one.
LEMMA NextOutputOrder ==
  ASSUME NEW n \in Nets, NEW x, DecomposerInv(n, x), OrderInv(n, x), x.stack # << >>,
         isOutput(Top(x)), ~isPassed(Top(x)),
         NEW y, y = Visit(n, IF Top(x).index > 1 THEN makeComponent(x) ELSE x)
  PROVE  OrderInv(n, y)
<1>1. /\ Len(x.stack) = 1 /\ Top(x).index \in 1 .. Len(Outs(n)) + 1 /\ Len(Outs(n)) \in Nat \ {0}
      /\ Current(x) = Top(x).index - 1
  BY AtOutputs
<1>2. IsContext(x) /\ IsComponent(x.component) /\ StackInv(n, x)
  BY DEF DecomposerInv
<1>3. CASE Top(x).index = 1
  <2>1. y = Visit(n, x)
    BY <1>3
  <2> QED
    BY <1>1, <1>2, <2>1, VisitOrder
<1>4. CASE Top(x).index # 1
  <2> DEFINE z == makeComponent(x)
  <2>1. y = Visit(n, z) /\ Current(x) # 0
    BY <1>1, <1>4
  <2>2. IsContext(z) /\ IsFresh(z) /\ z.stack = x.stack /\ StackInv(n, z)
    BY <2>1, MakeStep
  <2>3. OrderInv(n, z)
    BY <2>1, MakeOrder
  <2> HIDE DEF z
  <2>4. Top(z) = Top(x) /\ IsComponent(z.component)
    BY <2>2, EmptyPart DEF Top, IsFresh, IsPart
  <2> QED
    BY <1>1, <2>1, <2>2, <2>3, <2>4, VisitOrder
<1> QED
  BY <1>3, <1>4

\* The last iteration.
LEMMA LastOutputOrder ==
  ASSUME NEW n \in Nets, NEW x, DecomposerInv(n, x), OrderInv(n, x), x.stack # << >>,
         isOutput(Top(x)), isPassed(Top(x)), NEW y, y = Popped(makeComponent(x))
  PROVE  OrderInv(n, y)
<1>1. /\ Len(x.stack) = 1 /\ Top(x).links = Outs(n) /\ Top(x).index \in 1 .. Len(Outs(n)) + 1
      /\ Len(Outs(n)) \in Nat \ {0} /\ Current(x) = Top(x).index - 1
  BY AtOutputs
<1>2. Current(x) # 0
  BY <1>1 DEF isPassed
<1> DEFINE z == makeComponent(x)
<1>3. IsContext(z) /\ OrderInv(n, z) /\ z.stack = x.stack
  BY <1>2, MakeStep, MakeOrder
<1>4. y = Popped(z)
  OBVIOUS
<1> HIDE DEF z
<1>5. y.stack = Front(x.stack) /\ y.components = z.components /\ y.belongsTo = z.belongsTo /\ y.component = z.component
  BY <1>3, <1>4, PopFields
<1>6. DecomposerInv(n, y)
  BY LastOutputInv
<1>7. \A k : k \notin 2 .. Len(y.stack) - 1
  <2>1. Len(y.stack) = 0
    <3> DEFINE s == x.stack
               E == EntrySet(n)
    <3>1. s \in Seq(E) /\ Len(s) = 1 /\ y.stack = Front(s)
      BY <1>1, <1>5 DEF DecomposerInv, StackInv
    <3> HIDE DEF s, E
    <3> QED
      BY <3>1 DEF Front
  <2> QED
    BY <2>1
<1> QED
  BY <1>3, <1>5, <1>7 DEF OrderInv

\* An iteration at a link of a gate.
LEMMA VisitLinkOrder ==
  ASSUME NEW n \in Nets, NEW x, DecomposerInv(n, x), OrderInv(n, x), x.stack # << >>,
         ~isOutput(Top(x)), ~isPassed(Top(x)), NEW y, y = Visit(n, x)
  PROVE  OrderInv(n, y)
<1> DEFINE h == Len(x.stack)
           o == Outs(n)[Current(x)]
<1>1. IsContext(x) /\ IsComponent(x.component) /\ StackInv(n, x)
  BY DEF DecomposerInv
<1>2. h \in Nat \ {0} /\ Top(x) = x.stack[h] /\ x.stack[1].cell = NoCell /\ Top(x).cell # NoCell
  BY <1>1 DEF StackInv, Top, Last, isOutput
<1>3. h # 1
  BY <1>2
<1>4. CellInv(n, x, o) /\ Current(x) # 0
  BY <1>3 DEF DecomposerInv, WorkInv
<1>5. o.signal \in Signals
  BY <1>1, <1>4, CurrentSignal
<1>6. Top(x).index \in 1 .. Len(Top(x).links)
  BY <1>1, VisitStack DEF StackAfter
<1> HIDE DEF o
<1>7. IsGateEntry(n, x, o, Top(x))
  <2>1. h \in 2 .. h
    BY <1>2, <1>3
  <2> QED
    BY <1>2, <1>4, <2>1 DEF CellInv
<1>8. Here(x).source \in ToSet(n.links[Top(x).cell])
  BY <1>5, <1>6, <1>7, HereLink
<1> QED
  BY <1>1, <1>8, VisitOrder

-----------------------------------------------------------------------------

\* The strengthened invariant holds in every reachable state.
THEOREM Order == DecomposerSpec => []GatesOrdered
<1>1. DecomposerInit => GatesOrdered
  <2> SUFFICES ASSUME DecomposerInit PROVE GatesOrdered
    OBVIOUS
  <2>1. net \in Nets /\ context = NewContext(net)
    BY DEF DecomposerInit
  <2>2. /\ DecomposerInv(net, context) /\ context.components = << >>
        /\ context.stack # << >> => Current(context) = 0
    BY <2>1, NewContextInv DEF NewContext, Entry, Current
  <2>3. IsFresh(context) /\ Len(context.stack) \in {0, 1}
    BY <2>2 DEF DecomposerInv
  <2>4. DOMAIN context.components = {} /\ DOMAIN context.component.inners = {}
    BY <2>2, <2>3 DEF IsFresh, NoComponent
  <2>5. OrderInv(net, context)
    BY <2>3, <2>4 DEF OrderInv, IsOrderedAfter
  <2> QED
    BY <2>1, <2>2, <2>5 DEF GatesOrdered, Inv
<1>2. GatesOrdered /\ [Traverse]_decomposerVars => GatesOrdered'
  <2>1. ASSUME GatesOrdered, Traverse PROVE GatesOrdered'
    <3>1. Inv /\ net \in Nets /\ DecomposerInv(net, context) /\ net' = net /\ Inv'
      BY <2>1, TraverseInv DEF GatesOrdered, Inv
    <3>2. ASSUME IsAcyclic(net), OrderInv(net, context) PROVE OrderInv(net, context')
      <4>1. CASE NextOutput
        BY <3>1, <3>2, <4>1, NextOutputOrder DEF NextOutput, Traversing
      <4>2. CASE LastOutput
        BY <3>1, <3>2, <4>2, LastOutputOrder DEF LastOutput, Traversing, Popped
      <4>3. CASE VisitLink
        BY <3>1, <3>2, <4>3, VisitLinkOrder DEF VisitLink, Traversing
      <4>4. CASE LeaveGate
        BY <3>1, <3>2, <4>4, LeaveOrder DEF LeaveGate, Traversing, Left
      <4> QED
        BY <2>1, <4>1, <4>2, <4>3, <4>4 DEF Traverse
    <3> QED
      BY <2>1, <3>1, <3>2 DEF GatesOrdered
  <2>2. ASSUME GatesOrdered, UNCHANGED decomposerVars PROVE GatesOrdered'
    BY <2>2 DEF GatesOrdered, Inv, decomposerVars
  <2> QED
    BY <2>1, <2>2
<1> QED
  BY <1>1, <1>2, PTL DEF DecomposerSpec

\* For every net without loops: the gates of every completed component are listed after
\* the gates they depend on, and the inputs they depend on are inputs of the component.
THEOREM InnersInOrder == DecomposerSpec => [](IsAcyclic(net) => InnersTopological)
<1>1. GatesOrdered => (IsAcyclic(net) => InnersTopological)
  <2> SUFFICES ASSUME GatesOrdered, IsAcyclic(net), NEW c \in ToSet(context.components), NEW k \in DOMAIN c.inners,
                      NEW s \in ToSet(net.links[c.inners[k]])
               PROVE  IF isInputLink(net, s) THEN s \in DOMAIN c.inputs ELSE \E m \in 1 .. k - 1 : c.inners[m] = s
    BY DEF InnersTopological
  <2>1. PICK i \in DOMAIN context.components : c = context.components[i]
    BY DEF ToSet
  <2>2. IsOrdered(net, c) /\ IsFinished(net, c)
    BY <2>1 DEF GatesOrdered, Inv, DecomposerInv, StoreInv, OrderInv
  <2>3. c.inners[k] \in ToSet(c.inners)
    BY DEF ToSet
  <2> QED
    BY <2>2, <2>3 DEF IsOrdered, IsOrderedAfter, IsFinished, IsCovered
<1> QED
  BY <1>1, Order, PTL
=============================================================================
