----------------------------- MODULE ShellProofs -----------------------------
(***************************************************************************)
(* Proofs about the synthesis session, for designs of any size, any number *)
(* of designs, check points and commands.  The invariant says of every     *)
(* live design what DesignOK says; the lemmas show that the operations of  *)
(* DesignBuilder keep it, and the theorem about Inv goes through the       *)
(* commands.                                                               *)
(***************************************************************************)
EXTENDS Shell, TLAPS

\* The four invariants of one design.
DesignConsistent(d) == \A i \in Entries : (d.subnet[i] # NoNet) # (d.builder[i] # NoNet)

DesignPoints(d) == \A p \in Points : \A i \in Entries : p \in d.points <=> d.saved[p][i] # NoNet

DesignFun(d) ==
  \A i \in Entries : /\ Fun[Net(d, i)] = d.origin[i]
                     /\ \A p \in d.points : Fun[d.saved[p][i]] = d.origin[i]

DesignGuard(d) ==
  /\ Kind[Net(d, 0)] = "logic" => \A i \in Entries : Kind[Net(d, i)] # "mapped"
  /\ \A p \in d.points : Kind[d.saved[p][0]] = "logic" =>
       \A i \in Entries : Kind[d.saved[p][i]] # "mapped"

DesignOK(d) ==
  /\ d \in Designs
  /\ DesignConsistent(d)
  /\ DesignPoints(d)
  /\ DesignFun(d)
  /\ DesignGuard(d)

\* The inductive invariant.
Inv == TypeOK /\ \A d \in Live : DesignOK(heap[d])

-----------------------------------------------------------------------------

\* The first subnet exists.
LEMMA ZeroEntry == 0 \in Entries
  BY ObjectsAssumption DEF Entries

\* The network of an entry of a consistent design is a structure.
LEMMA NetType ==
  ASSUME NEW d, DesignOK(d), NEW i \in Entries
  PROVE  Net(d, i) \in Structures /\ SubnetOf(d, i) \in Structures
  BY MadeAssumption DEF DesignOK, DesignConsistent, Designs, Slots, Net, SubnetOf

\* A loaded design meets the invariant: its subnets are the file's, it has no
\* check points, and nothing in it is technological.
LEMMA NewDesignOK ==
  ASSUME NEW nets \in Files
  PROVE  DesignOK(NewDesign(nets))
<1> DEFINE d == NewDesign(nets)
<1>1. nets \in [Entries -> Structures] /\ \A i \in Entries : Kind[nets[i]] # "mapped"
  BY FilesAssumption
<1>2. /\ d = [subnet |-> nets, builder |-> NoSlots, saved |-> [p \in Points |-> NoSlots],
              points |-> {}, origin |-> [i \in Entries |-> Fun[nets[i]]]]
  BY DEF NewDesign
<1>3. d \in Designs
  BY <1>1, <1>2, StructuresAssumption DEF Designs, Slots, NoSlots
<1>4. \A i \in Entries : Net(d, i) = nets[i]
  BY <1>1, <1>2, ObjectsAssumption DEF Net
<1>5. DesignConsistent(d)
  BY <1>1, <1>2, ObjectsAssumption DEF DesignConsistent, NoSlots
<1>6. DesignPoints(d)
  BY <1>2 DEF DesignPoints, NoSlots
<1>7. DesignFun(d)
  BY <1>2, <1>4 DEF DesignFun
<1>8. DesignGuard(d)
  BY <1>1, <1>2, <1>4 DEF DesignGuard
<1> QED
  BY <1>3, <1>5, <1>6, <1>7, <1>8 DEF DesignOK

\* Making subnets keeps the invariant: make keeps the function, and deleting the
\* buffers can only turn a logical network into a gateless one.
LEMMA MakeOK ==
  ASSUME NEW d, DesignOK(d), NEW I \in SUBSET Entries
  PROVE  DesignOK(MakeSubnets(d, I))
<1> DEFINE m == MakeSubnets(d, I)
<1>1. d \in Designs /\ DesignConsistent(d) /\ DesignPoints(d) /\ DesignFun(d) /\ DesignGuard(d)
  BY DEF DesignOK
<1>2. /\ m.subnet = [i \in Entries |-> IF i \in I THEN SubnetOf(d, i) ELSE d.subnet[i]]
      /\ m.builder = [i \in Entries |-> IF i \in I /\ d.subnet[i] = NoNet THEN NoNet ELSE d.builder[i]]
      /\ m.saved = d.saved /\ m.points = d.points /\ m.origin = d.origin
      /\ m \in [subnet : {m.subnet}, builder : {m.builder}, saved : {m.saved}, points : {m.points},
                origin : {m.origin}]
  BY <1>1 DEF MakeSubnets, Designs
<1>3. \A i \in Entries : Net(d, i) \in Structures /\ SubnetOf(d, i) \in Structures
  BY NetType
<1>4. m.subnet \in Slots /\ m.builder \in Slots
  BY <1>1, <1>2, <1>3 DEF Designs, Slots
<1>5. m \in Designs
  BY <1>1, <1>2, <1>4 DEF Designs
<1>6. \A i \in Entries : Net(m, i) = IF i \in I THEN SubnetOf(d, i) ELSE Net(d, i)
  BY <1>2, <1>3, ObjectsAssumption DEF Net
<1>7. \A i \in Entries : SubnetOf(d, i) \in {Net(d, i), Made[Net(d, i)]}
  BY DEF SubnetOf, Net
<1>8. \A i \in Entries : /\ Fun[Net(m, i)] = Fun[Net(d, i)]
                         /\ \/ Kind[Net(m, i)] = Kind[Net(d, i)]
                            \/ Kind[Net(d, i)] = "logic" /\ Kind[Net(m, i)] = "gateless"
  BY <1>3, <1>6, <1>7, MadeAssumption
<1>9. DesignConsistent(m)
  BY <1>1, <1>2, <1>3, ObjectsAssumption DEF DesignConsistent
<1>10. DesignPoints(m)
  BY <1>1, <1>2 DEF DesignPoints
<1>11. DesignFun(m)
  BY <1>1, <1>2, <1>8 DEF DesignFun
<1>12. DesignGuard(m)
  BY <1>1, <1>2, <1>8, ZeroEntry DEF DesignGuard
<1> QED
  BY <1>5, <1>9, <1>10, <1>11, <1>12 DEF DesignOK

\* New builders keep the invariant if they keep the functions of the subnets and
\* leave no technological subnet beside a logical first one.
LEMMA SetBuildersOK ==
  ASSUME NEW d, DesignOK(d), NEW I \in SUBSET Entries, NEW nets \in [Entries -> Structures],
         \A i \in Entries : Fun[nets[i]] = Fun[Net(d, i)],
         \A i \in Entries \ I : nets[i] = Net(d, i),
         Kind[nets[0]] = "logic" => \A i \in Entries : Kind[nets[i]] # "mapped"
  PROVE  DesignOK(SetBuilders(d, I, nets))
<1> DEFINE m == SetBuilders(d, I, nets)
<1>1. d \in Designs /\ DesignConsistent(d) /\ DesignPoints(d) /\ DesignFun(d) /\ DesignGuard(d)
  BY DEF DesignOK
<1>2. /\ m.subnet = [i \in Entries |-> IF i \in I THEN NoNet ELSE d.subnet[i]]
      /\ m.builder = [i \in Entries |-> IF i \in I THEN nets[i] ELSE d.builder[i]]
      /\ m.saved = d.saved /\ m.points = d.points /\ m.origin = d.origin
      /\ m \in [subnet : {m.subnet}, builder : {m.builder}, saved : {m.saved}, points : {m.points},
                origin : {m.origin}]
  BY <1>1 DEF SetBuilders, Designs
<1>3. m.subnet \in Slots /\ m.builder \in Slots
  BY <1>1, <1>2 DEF Designs, Slots
<1>4. m \in Designs
  BY <1>1, <1>2, <1>3 DEF Designs
<1>5. \A i \in Entries : Net(m, i) = nets[i]
  BY <1>2 DEF Net
<1>6. DesignConsistent(m)
  BY <1>1, <1>2, ObjectsAssumption DEF DesignConsistent
<1>7. DesignPoints(m)
  BY <1>1, <1>2 DEF DesignPoints
<1>8. DesignFun(m)
  BY <1>1, <1>2, <1>5 DEF DesignFun
<1>9. DesignGuard(m)
  BY <1>1, <1>2, <1>5, ZeroEntry DEF DesignGuard
<1> QED
  BY <1>4, <1>6, <1>7, <1>8, <1>9 DEF DesignOK

\* What save does to the check points: a name in use keeps its subnets, a new one
\* gets the subnets just made.
LEMMA SaveFields ==
  ASSUME NEW d, DesignOK(d), NEW p \in Points
  PROVE  /\ save(d, p) \in Designs
         /\ save(d, p).subnet = MakeSubnets(d, Entries).subnet
         /\ save(d, p).builder = MakeSubnets(d, Entries).builder
         /\ save(d, p).origin = d.origin
         /\ save(d, p).points = d.points \cup {p}
         /\ \A q \in Points : q # p => save(d, p).saved[q] = d.saved[q]
         /\ p \in d.points => save(d, p).saved[p] = d.saved[p]
         /\ p \notin d.points => save(d, p).saved[p] = MakeSubnets(d, Entries).subnet
<1> DEFINE made == MakeSubnets(d, Entries)
           slots == [i \in Entries |-> IF made.saved[p][i] # NoNet THEN made.saved[p][i] ELSE made.subnet[i]]
<1>1. DesignOK(made)
  BY MakeOK
<1>2. made \in Designs /\ d \in Designs /\ DesignPoints(d)
  BY <1>1 DEF DesignOK
<1>2a. made.saved = d.saved /\ made.points = d.points /\ made.origin = d.origin
  BY <1>2 DEF MakeSubnets, Designs
<1>3. slots \in Slots
  BY <1>2 DEF Designs, Slots
<1>4. save(d, p) = [made EXCEPT !.saved = [made.saved EXCEPT ![p] = slots], !.points = made.points \cup {p}]
  BY DEF save
<1>5. [made.saved EXCEPT ![p] = slots] \in [Points -> Slots] /\ made.points \cup {p} \in SUBSET Points
  BY <1>2, <1>3 DEF Designs
<1>6. save(d, p) \in Designs
  BY <1>2, <1>4, <1>5 DEF Designs
<1>7. p \in d.points => slots = d.saved[p]
  BY <1>2, <1>2a DEF DesignPoints, Designs, Slots
<1>8. p \notin d.points => slots = made.subnet
  BY <1>2, <1>2a DEF DesignPoints, Designs, Slots
<1>9. /\ save(d, p).saved = [made.saved EXCEPT ![p] = slots] /\ save(d, p).points = made.points \cup {p}
      /\ save(d, p).subnet = made.subnet /\ save(d, p).builder = made.builder
      /\ save(d, p).origin = made.origin
  BY <1>2, <1>4 DEF Designs
<1>10. d.saved \in [Points -> Slots]
  BY <1>2 DEF Designs
<1> HIDE DEF made, slots
<1> QED
  BY <1>2a, <1>6, <1>7, <1>8, <1>9, <1>10 DEF made

\* A check point is made of subnets with the functions of the design.
LEMMA SaveOK ==
  ASSUME NEW d, DesignOK(d), NEW p \in Points
  PROVE  DesignOK(save(d, p))
<1> DEFINE made == MakeSubnets(d, Entries)
           s == save(d, p)
<1>1. DesignOK(made)
  BY MakeOK
<1>2. /\ s \in Designs /\ s.subnet = made.subnet /\ s.builder = made.builder
      /\ s.origin = d.origin /\ s.points = d.points \cup {p}
      /\ \A q \in Points : q # p => s.saved[q] = d.saved[q]
      /\ p \in d.points => s.saved[p] = d.saved[p]
      /\ p \notin d.points => s.saved[p] = made.subnet
  BY SaveFields
<1>3. /\ d \in Designs /\ DesignPoints(d) /\ DesignFun(d) /\ DesignGuard(d)
      /\ DesignConsistent(made) /\ DesignFun(made) /\ DesignGuard(made)
  BY <1>1 DEF DesignOK
<1>4. /\ d.points \in SUBSET Points
      /\ made.origin = d.origin
      /\ made.subnet = [i \in Entries |-> SubnetOf(d, i)]
  BY <1>3 DEF MakeSubnets, Designs
<1>5. \A i \in Entries : made.subnet[i] \in Structures
  BY <1>4, NetType
<1> HIDE DEF made, s
<1>6. \A i \in Entries : Net(s, i) = Net(made, i) /\ Net(made, i) = made.subnet[i]
  BY <1>2, <1>5, ObjectsAssumption DEF Net
<1>7. DesignConsistent(s)
  BY <1>2, <1>3 DEF DesignConsistent
<1>8. DesignPoints(s)
  BY <1>2, <1>3, <1>4, <1>5, ObjectsAssumption DEF DesignPoints
<1>9. DesignFun(s)
  <2>1. \A i \in Entries : Fun[Net(s, i)] = s.origin[i]
    BY <1>2, <1>3, <1>4, <1>6 DEF DesignFun
  <2>2. \A i \in Entries, q \in s.points : Fun[s.saved[q][i]] = s.origin[i]
    BY <1>2, <1>3, <1>4, <1>6 DEF DesignFun
  <2> QED
    BY <2>1, <2>2 DEF DesignFun
<1>10. DesignGuard(s)
  <2>1. Kind[Net(s, 0)] = "logic" => \A i \in Entries : Kind[Net(s, i)] # "mapped"
    BY <1>3, <1>6, ZeroEntry DEF DesignGuard
  <2>2. ASSUME NEW q \in s.points, Kind[s.saved[q][0]] = "logic", NEW i \in Entries
        PROVE  Kind[s.saved[q][i]] # "mapped"
    BY <2>2, <1>2, <1>3, <1>4, <1>6, ZeroEntry DEF DesignGuard
  <2> QED
    BY <2>1, <2>2 DEF DesignGuard
<1> QED
  BY <1>2, <1>7, <1>8, <1>9, <1>10 DEF DesignOK, s

\* A rollback to a check point that every subnet has.
LEMMA RollbackOK ==
  ASSUME NEW d, DesignOK(d), NEW p \in Points, \A i \in Entries : d.saved[p][i] # NoNet
  PROVE  DesignOK(rollback(d, p))
<1> DEFINE r == rollback(d, p)
<1>1. d \in Designs /\ DesignPoints(d) /\ DesignFun(d) /\ DesignGuard(d)
  BY DEF DesignOK
<1>2. /\ r.subnet = d.saved[p] /\ r.builder = NoSlots
      /\ r.saved = d.saved /\ r.points = d.points /\ r.origin = d.origin
      /\ r \in Designs
  BY <1>1 DEF rollback, Designs, NoSlots, Slots
<1>3. p \in d.points
  BY <1>1, ZeroEntry DEF DesignPoints
<1>4. \A i \in Entries : Net(r, i) = d.saved[p][i]
  BY <1>2 DEF Net
<1>5. DesignConsistent(r)
  BY <1>2 DEF DesignConsistent, NoSlots
<1>6. DesignPoints(r)
  BY <1>1, <1>2 DEF DesignPoints
<1>7. DesignFun(r)
  BY <1>1, <1>2, <1>3, <1>4 DEF DesignFun
<1>8. DesignGuard(r)
  BY <1>1, <1>2, <1>3, <1>4, ZeroEntry DEF DesignGuard
<1> QED
  BY <1>2, <1>5, <1>6, <1>7, <1>8 DEF DesignOK

-----------------------------------------------------------------------------

\* Command only counts.
LEMMA CommandType ==
  ASSUME TypeOK, Command
  PROVE  commands' \in 0 .. MaxCommands
  BY ObjectsAssumption DEF TypeOK, Command

\* A command that leaves a good design in place of the loaded one.
LEMMA OnDesignOK ==
  ASSUME Inv, Command, design # NoDesign, NEW d, DesignOK(d), OnDesign(d)
  PROVE  Inv'
<1>1. design \in DesignIDs /\ d \in Designs
  BY DEF Inv, TypeOK, DesignOK
<1>2. TypeOK'
  BY <1>1, CommandType DEF Inv, TypeOK, OnDesign
<1>3. ASSUME NEW x \in Live' PROVE DesignOK(heap'[x])
  <2>1. x \in Live /\ x \in DesignIDs
    BY DEF Live, OnDesign, Inv, TypeOK
  <2>2. heap'[x] = IF x = design THEN d ELSE heap[x]
    BY <1>1, <2>1 DEF OnDesign, Inv, TypeOK
  <2> QED
    BY <2>1, <2>2 DEF Inv
<1> QED
  BY <1>2, <1>3 DEF Inv

\* A command that leaves a good design in place of the context's one.
LEMMA OnTargetOK ==
  ASSUME Inv, Command, Target # NoDesign, NEW d, DesignOK(d), OnTarget(d)
  PROVE  Inv'
<1>1. Target \in DesignIDs /\ Target \in Live /\ d \in Designs
  BY DEF Inv, TypeOK, DesignOK, Target, Live
<1>2. TypeOK'
  BY <1>1, CommandType DEF Inv, TypeOK, OnTarget
<1>3. ASSUME NEW x \in Live' PROVE DesignOK(heap'[x])
  <2>1. x \in Live /\ x \in DesignIDs
    BY <1>1 DEF Live, OnTarget, Inv, TypeOK
  <2>2. heap'[x] = IF x = Target THEN d ELSE heap[x]
    BY <1>1, <2>1 DEF OnTarget, Inv, TypeOK
  <2> QED
    BY <2>1, <2>2 DEF Inv
<1> QED
  BY <1>2, <1>3 DEF Inv

\* A failed assert leaves the designs as they are.
LEMMA AbortOK ==
  ASSUME Inv, Command, Abort
  PROVE  Inv'
<1>1. TypeOK'
  BY CommandType DEF Abort, Inv, TypeOK
<1> QED
  BY <1>1 DEF Abort, Inv, Live

\* What isTechMapped sees is the kind of the first subnet once it has been made.
LEMMA FirstMade ==
  ASSUME NEW d, DesignOK(d)
  PROVE  LET m == MakeSubnets(d, {0})
         IN  DesignOK(m) /\ (isTechMapped(m) <=> Kind[Net(m, 0)] = "mapped")
<1> DEFINE m == MakeSubnets(d, {0})
<1>1. DesignOK(m)
  BY MakeOK, ZeroEntry
<1>2. m.subnet[0] = SubnetOf(d, 0) /\ SubnetOf(d, 0) \in Structures
  BY ZeroEntry, NetType DEF MakeSubnets, DesignOK, Designs
<1> QED
  BY <1>1, <1>2, ObjectsAssumption DEF isTechMapped, SubnetOf, Net

\* A pass on a design whose first subnet is not technological.
LEMMA OptimizedOK ==
  ASSUME NEW d, DesignOK(d), Kind[Net(d, 0)] # "mapped", NEW nets \in [Entries -> Structures],
         \A i \in Entries : Optimized(Net(d, i), nets[i])
  PROVE  DesignOK(SetBuilders(d, Entries, nets))
<1>1. \A i \in Entries : Kind[Net(d, i)] \in Kinds
  BY NetType, StructuresAssumption
<1>2. Kind[nets[0]] = "logic" => Kind[Net(d, 0)] = "logic"
  BY <1>1, ZeroEntry DEF Optimized, Kinds
<1>3. Kind[nets[0]] = "logic" => \A i \in Entries : Kind[nets[i]] # "mapped"
  BY <1>2 DEF DesignOK, DesignGuard, Optimized
<1>4. \A i \in Entries : Fun[nets[i]] = Fun[Net(d, i)]
  BY DEF Optimized
<1> QED
  BY <1>3, <1>4, SetBuildersOK

\* A mapping that has worked for the first n subnets: if n = 0, nothing has
\* changed; else the first subnet has no logical gates left.
LEMMA MappedOK ==
  ASSUME NEW d, DesignOK(d), NEW n \in 0 .. N, NEW nets \in [Entries -> Structures],
         \A i \in 0 .. n - 1 : Mapped(Net(d, i), nets[i]),
         \A i \in n .. N - 1 : nets[i] = Net(d, i)
  PROVE  DesignOK(SetBuilders(d, {i \in Entries : i <= n}, nets))
<1> DEFINE I == {i \in Entries : i <= n}
<1>1. N \in Nat \ {0}
  BY ObjectsAssumption
<1>2. \A i \in Entries : i \in 0 .. n - 1 \/ i \in n .. N - 1
  BY <1>1 DEF Entries
<1>3. \A i \in Entries : Fun[nets[i]] = Fun[Net(d, i)]
  BY <1>2 DEF Mapped
<1>4. \A i \in Entries \ I : nets[i] = Net(d, i)
  BY <1>1 DEF Entries
<1>5. CASE n = 0
  <2>1. \A i \in Entries : nets[i] = Net(d, i)
    BY <1>5, <1>2, <1>1
  <2>2. Kind[nets[0]] = "logic" => \A i \in Entries : Kind[nets[i]] # "mapped"
    BY <2>1, ZeroEntry DEF DesignOK, DesignGuard
  <2> QED
    BY <1>3, <1>4, <2>2, SetBuildersOK
<1>6. CASE n # 0
  <2>1. Kind[nets[0]] # "logic"
    BY <1>6 DEF Mapped
  <2> QED
    BY <1>3, <1>4, <2>1, SetBuildersOK
<1> QED
  BY <1>5, <1>6

\* An unmapped design has no technological subnets.
LEMMA UnmappedOK ==
  ASSUME NEW d, DesignOK(d), NEW nets \in [Entries -> Structures],
         \A i \in Entries : Unmapped(Net(d, i), nets[i])
  PROVE  DesignOK(SetBuilders(d, Entries, nets))
<1>1. \A i \in Entries : Fun[nets[i]] = Fun[Net(d, i)] /\ Kind[nets[i]] # "mapped"
  BY DEF Unmapped
<1> QED
  BY <1>1, SetBuildersOK

-----------------------------------------------------------------------------

\* No design exists in the beginning (shell.cpp's global is null).
LEMMA InitInv == Init => Inv
<1> SUFFICES ASSUME Init PROVE Inv
  OBVIOUS
<1>1. NoObject \in Designs
  BY DEF NoObject, Designs, NoSlots, Slots
<1>2. TypeOK
  <2>1. heap \in [DesignIDs -> Designs]
    BY <1>1 DEF Init
  <2>2. commands \in 0 .. MaxCommands
    BY ObjectsAssumption DEF Init
  <2> QED
    BY <2>1, <2>2 DEF Init, TypeOK
<1>3. Live = {}
  BY DEF Live, Init
<1> QED
  BY <1>2, <1>3 DEF Inv

\* Every command keeps the invariant of all live designs, also the ones that
\* fail half-way and the ones that work through the context's reference.
LEMMA NextInv == Inv /\ [Next]_vars => Inv'
<1> SUFFICES ASSUME Inv, [Next]_vars PROVE Inv'
  OBVIOUS
<1>t. TypeOK /\ \A x \in Live : DesignOK(heap[x]) /\ x \in DesignIDs
  BY DEF Inv, Live, TypeOK
<1>d. design # NoDesign => DesignOK(heap[design])
  BY <1>t DEF Live
<1>c. Target # NoDesign => DesignOK(heap[Target])
  BY <1>t DEF Live, Target
<1>1. ASSUME NEW nets \in Files, ReadDesign(nets) PROVE Inv'
  <2>1. PICK new \in DesignIDs \ {context} :
          design' = new /\ heap' = [heap EXCEPT ![new] = NewDesign(nets)]
    BY <1>1 DEF ReadDesign
  <2>2. DesignOK(NewDesign(nets))
    BY NewDesignOK
  <2>3. TypeOK'
    BY <1>1, <1>t, <2>1, <2>2, CommandType DEF ReadDesign, TypeOK, DesignOK
  <2>4. ASSUME NEW x \in Live' PROVE DesignOK(heap'[x])
    <3>1. x = new \/ (x = context /\ x # new /\ x \in Live)
      BY <1>1, <2>1 DEF Live, ReadDesign
    <3> QED
      BY <3>1, <1>t, <2>1, <2>2 DEF TypeOK
  <2> QED
    BY <2>3, <2>4 DEF Inv
<1>2. ASSUME DeleteDesign PROVE Inv'
  <2>1. NoObject \in Designs
    BY DEF NoObject, Designs, NoSlots, Slots
  <2>2. TypeOK'
    BY <1>2, <1>t, <2>1, CommandType DEF DeleteDesign, TypeOK
  <2>3. ASSUME NEW x \in Live' PROVE DesignOK(heap'[x])
    <3>1. x = context /\ x \in Live
      BY <1>2 DEF Live, DeleteDesign
    <3>2. heap'[x] = heap[x]
      BY <1>2, <1>t, <3>1 DEF DeleteDesign, TypeOK
    <3> QED
      BY <3>1, <3>2, <1>t
  <2> QED
    BY <2>2, <2>3 DEF Inv
<1>3. ASSUME NEW p \in Points, SavePoint(p) PROVE Inv'
  BY <1>3, <1>d, SaveOK, OnDesignOK DEF SavePoint
<1>4. ASSUME NEW p \in Points, GotoPoint(p) PROVE Inv'
  <2>1. CASE \A i \in Entries : heap[design].saved[p][i] # NoNet
    BY <1>4, <2>1, <1>d, RollbackOK, OnDesignOK DEF GotoPoint
  <2>2. CASE \E i \in Entries : heap[design].saved[p][i] = NoNet
    BY <1>4, <2>2, AbortOK DEF GotoPoint
  <2> QED
    BY <2>1, <2>2
<1>5. ASSUME LogOpt PROVE Inv'
  <2> DEFINE m == MakeSubnets(heap[design], {0})
  <2>1. Command /\ design # NoDesign /\ DesignOK(m) /\ (isTechMapped(m) <=> Kind[Net(m, 0)] = "mapped")
    BY <1>5, <1>d, FirstMade DEF LogOpt
  <2>2. CASE OnDesign(m)
    BY <2>1, <2>2, OnDesignOK
  <2>3. CASE ~isTechMapped(m) /\ \E nets \in [Entries -> Structures] :
               /\ \A i \in Entries : Optimized(Net(m, i), nets[i])
               /\ OnDesign(SetBuilders(m, Entries, nets))
    <3> HIDE DEF m
    <3> QED
      BY <2>1, <2>3, OptimizedOK, OnDesignOK
  <2> QED
    BY <1>5, <2>2, <2>3 DEF LogOpt
<1>6. ASSUME ReadLiberty PROVE Inv'
  <2>1. TypeOK'
    BY <1>6, <1>t, CommandType DEF ReadLiberty, TypeOK
  <2> QED
    BY <1>6, <2>1 DEF Inv, Live, ReadLiberty
<1>7. ASSUME TechMap PROVE Inv'
  <2> DEFINE m == MakeSubnets(heap[Target], {0})
  <2>1. Command /\ Target # NoDesign /\ DesignOK(m)
    BY <1>7, <1>c, FirstMade DEF TechMap
  <2>2. CASE OnTarget(heap[Target])
    BY <2>1, <2>2, <1>c, OnTargetOK
  <2>3. CASE OnTarget(m)
    BY <2>1, <2>3, OnTargetOK
  <2>4. CASE \E n \in 0 .. N, nets \in [Entries -> Structures] :
               /\ \A i \in 0 .. n - 1 : Mapped(Net(m, i), nets[i])
               /\ \A i \in n .. N - 1 : nets[i] = Net(m, i)
               /\ OnTarget(SetBuilders(m, {i \in Entries : i <= n}, nets))
    <3> HIDE DEF m
    <3>1. PICK n \in 0 .. N, nets \in [Entries -> Structures] :
               /\ \A i \in 0 .. n - 1 : Mapped(Net(m, i), nets[i])
               /\ \A i \in n .. N - 1 : nets[i] = Net(m, i)
               /\ OnTarget(SetBuilders(m, {i \in Entries : i <= n}, nets))
      BY <2>4
    <3>2. DesignOK(SetBuilders(m, {i \in Entries : i <= n}, nets))
      BY <2>1, <3>1, MappedOK
    <3> QED
      BY <2>1, <3>1, <3>2, OnTargetOK
  <2> QED
    BY <1>7, <2>2, <2>3, <2>4 DEF TechMap
<1>8. ASSUME Unmap PROVE Inv'
  <2> DEFINE m == MakeSubnets(heap[Target], {0})
  <2>1. Command /\ Target # NoDesign /\ DesignOK(m)
    BY <1>8, <1>c, FirstMade DEF Unmap
  <2>2. CASE OnTarget(m)
    BY <2>1, <2>2, OnTargetOK
  <2>3. CASE \E nets \in [Entries -> Structures] :
               /\ \A i \in Entries : Unmapped(Net(m, i), nets[i])
               /\ OnTarget(SetBuilders(m, Entries, nets))
    <3> HIDE DEF m
    <3> QED
      BY <2>1, <2>3, UnmappedOK, OnTargetOK
  <2> QED
    BY <1>8, <2>2, <2>3 DEF Unmap
<1>9. ASSUME StatDesign PROVE Inv'
  <2>1. PICK I \in SUBSET Entries : OnDesign(MakeSubnets(heap[design], I))
    BY <1>9, ZeroEntry DEF StatDesign
  <2> QED
    BY <1>9, <2>1, <1>d, MakeOK, OnDesignOK DEF StatDesign
<1>10. ASSUME WriteDesign PROVE Inv'
  <2>1. CASE \E I \in SUBSET Entries : OnDesign(MakeSubnets(heap[design], I))
    BY <1>10, <2>1, <1>d, MakeOK, OnDesignOK DEF WriteDesign
  <2>2. CASE Abort
    BY <1>10, <2>2, AbortOK DEF WriteDesign
  <2> QED
    BY <1>10, <2>1, <2>2 DEF WriteDesign
<1>11. CASE UNCHANGED vars
  BY <1>11 DEF vars, Inv, TypeOK, Live
<1> QED
  BY <1>1, <1>2, <1>3, <1>4, <1>5, <1>6, <1>7, <1>8, <1>9, <1>10, <1>11 DEF Next

\* The invariant holds in every reachable state.
THEOREM Invariance == Spec => []Inv
  BY InitInv, NextInv, PTL DEF Spec

\* The session's variables keep their types: in particular a design is always a
\* record of slots that hold networks, whatever the commands.
THEOREM TypeCorrect == Spec => []TypeOK
<1>1. Inv => TypeOK
  BY DEF Inv
<1> QED
  BY <1>1, Invariance, PTL

\* Every entry of a live design of any size holds either a subnet or a builder.
THEOREM SubnetOrBuilder == Spec => []Consistent
<1>1. Inv => Consistent
  BY DEF Inv, Consistent, DesignOK, DesignConsistent
<1> QED
  BY <1>1, Invariance, PTL

\* The list of global check points agrees with the entries, for any set of names.
THEOREM PointsAgree == Spec => []PointsComplete
<1>1. Inv => PointsComplete
  BY DEF Inv, PointsComplete, DesignOK, DesignPoints
<1> QED
  BY <1>1, Invariance, PTL

\* If every pass, the mapper, the unmapper and make keep the function of one
\* subnet, the commands keep the functions of the whole design and of all its
\* check points.
THEOREM FunctionPreserved == Spec => []FunctionKept
<1>1. Inv => FunctionKept
  BY DEF Inv, FunctionKept, DesignOK, DesignFun
<1> QED
  BY <1>1, Invariance, PTL

\* A logical first subnet means that no subnet is technological, also after a
\* mapping that has failed half-way.
THEOREM FirstSubnetDecides == Spec => []MappedGuard
<1>1. Inv => MappedGuard
  BY DEF Inv, MappedGuard, DesignOK, DesignGuard
<1> QED
  BY <1>1, Invariance, PTL

-----------------------------------------------------------------------------

\* The check points of d are check points of e with the same subnets.
PointsKept(d, e) == \A p \in d.points : p \in e.points /\ e.saved[p] = d.saved[p]

\* None of the operations of DesignBuilder touches a check point that exists.
LEMMA OperationsKeepPoints ==
  ASSUME NEW d, DesignOK(d)
  PROVE  /\ PointsKept(d, d)
         /\ \A I \in SUBSET Entries : PointsKept(d, MakeSubnets(d, I))
         /\ \A I, J \in SUBSET Entries : \A nets :
              PointsKept(d, SetBuilders(MakeSubnets(d, J), I, nets))
         /\ \A p \in Points : PointsKept(d, save(d, p)) /\ PointsKept(d, rollback(d, p))
<1>1. d \in Designs
  BY DEF DesignOK
<1>2. \A I \in SUBSET Entries : /\ MakeSubnets(d, I) \in Designs
                                /\ MakeSubnets(d, I).points = d.points
                                /\ MakeSubnets(d, I).saved = d.saved
  <2> TAKE I \in SUBSET Entries
  <2>1. MakeSubnets(d, I) \in Designs
    BY MakeOK DEF DesignOK
  <2> QED
    BY <1>1, <2>1 DEF MakeSubnets, Designs
<1>3. \A m \in Designs, I \in SUBSET Entries : \A nets :
        SetBuilders(m, I, nets).points = m.points /\ SetBuilders(m, I, nets).saved = m.saved
  BY DEF SetBuilders, Designs
<1>4. \A p \in Points : PointsKept(d, save(d, p))
  <2> TAKE p \in Points
  <2>1. /\ save(d, p).points = d.points \cup {p}
        /\ \A q \in Points : q # p => save(d, p).saved[q] = d.saved[q]
        /\ p \in d.points => save(d, p).saved[p] = d.saved[p]
    BY SaveFields
  <2>2. d.points \in SUBSET Points
    BY <1>1 DEF Designs
  <2> QED
    BY <2>1, <2>2 DEF PointsKept
<1>5. \A p \in Points : PointsKept(d, rollback(d, p))
  BY <1>1 DEF PointsKept, rollback, Designs
<1>6. PointsKept(d, d)
  BY DEF PointsKept
<1>7. \A I \in SUBSET Entries : PointsKept(d, MakeSubnets(d, I))
  BY <1>2 DEF PointsKept
<1>8. \A I, J \in SUBSET Entries : \A nets : PointsKept(d, SetBuilders(MakeSubnets(d, J), I, nets))
  BY <1>2, <1>3 DEF PointsKept
<1> QED
  BY <1>4, <1>5, <1>6, <1>7, <1>8

\* A command that replaces one design by one with the same check points.
LEMMA UpdateKeepsPoints ==
  ASSUME Inv, NEW x \in Live, NEW d, PointsKept(heap[x], d), heap' = [heap EXCEPT ![x] = d]
  PROVE  \A y \in Live : PointsKept(heap[y], heap'[y])
<1>1. \A y \in Live : y \in DesignIDs
  BY DEF Live, Inv, TypeOK
<1>2. \A y \in Live : heap'[y] = IF y = x THEN d ELSE heap[y]
  BY <1>1 DEF Inv, TypeOK
<1>3. \A y \in Live : PointsKept(heap[y], heap[y])
  BY OperationsKeepPoints DEF Inv
<1> QED
  BY <1>2, <1>3

\* A check point, once made, stays as it is while its design lives: no
\* optimization, mapping, rollback or second save of its name changes it.
THEOREM PointsStable == Spec => CheckpointsStable
<1> DEFINE Kept == \A y \in Live \cap Live' : PointsKept(heap[y], heap'[y])
<1>1. ASSUME Inv, [Next]_vars PROVE Kept
  <2>t. TypeOK /\ \A x \in Live : DesignOK(heap[x]) /\ x \in DesignIDs
    BY <1>1 DEF Inv, Live, TypeOK
  <2>d. design # NoDesign => design \in Live /\ DesignOK(heap[design])
    BY <2>t DEF Live
  <2>c. Target # NoDesign => Target \in Live /\ DesignOK(heap[Target])
    BY <2>t DEF Live, Target
  <2>0. \A y \in Live : PointsKept(heap[y], heap[y])
    BY <2>t, OperationsKeepPoints
  <2>on. ASSUME NEW d, design # NoDesign, OnDesign(d), PointsKept(heap[design], d) PROVE Kept
    BY <1>1, <2>on, <2>d, UpdateKeepsPoints DEF OnDesign
  <2>at. ASSUME NEW d, Target # NoDesign, OnTarget(d), PointsKept(heap[Target], d) PROVE Kept
    BY <1>1, <2>at, <2>c, UpdateKeepsPoints DEF OnTarget
  <2>1. ASSUME NEW nets \in Files, ReadDesign(nets) PROVE Kept
    <3>1. \A y \in Live \cap Live' : heap'[y] = heap[y]
      BY <2>1, <2>t DEF ReadDesign, Live, TypeOK
    <3> QED
      BY <3>1, <2>0
  <2>2. ASSUME DeleteDesign PROVE Kept
    <3>1. \A y \in Live \cap Live' : heap'[y] = heap[y]
      BY <2>2, <2>t DEF DeleteDesign, Live, TypeOK
    <3> QED
      BY <3>1, <2>0
  <2>3. ASSUME NEW p \in Points, SavePoint(p) PROVE Kept
    BY <2>3, <2>d, <2>on, OperationsKeepPoints DEF SavePoint
  <2>4. ASSUME NEW p \in Points, GotoPoint(p) PROVE Kept
    <3>1. CASE OnDesign(rollback(heap[design], p))
      BY <2>4, <3>1, <2>d, <2>on, OperationsKeepPoints DEF GotoPoint
    <3>2. CASE Abort
      BY <3>2, <2>0 DEF Abort
    <3> QED
      BY <2>4, <3>1, <3>2 DEF GotoPoint
  <2>5. ASSUME LogOpt PROVE Kept
    <3>1. design # NoDesign /\ DesignOK(heap[design])
      BY <2>5, <2>d DEF LogOpt
    <3>2. /\ PointsKept(heap[design], MakeSubnets(heap[design], {0}))
          /\ \A nets : PointsKept(heap[design], SetBuilders(MakeSubnets(heap[design], {0}), Entries, nets))
      BY <3>1, ZeroEntry, OperationsKeepPoints
    <3> QED
      BY <2>5, <3>1, <3>2, <2>on DEF LogOpt
  <2>6. ASSUME ReadLiberty PROVE Kept
    BY <2>6, <2>0 DEF ReadLiberty
  <2>7. ASSUME TechMap PROVE Kept
    <3>1. Target # NoDesign /\ DesignOK(heap[Target])
      BY <2>7, <2>c DEF TechMap
    <3>2. /\ PointsKept(heap[Target], heap[Target])
          /\ PointsKept(heap[Target], MakeSubnets(heap[Target], {0}))
          /\ \A n, nets : PointsKept(heap[Target],
               SetBuilders(MakeSubnets(heap[Target], {0}), {i \in Entries : i <= n}, nets))
      BY <3>1, ZeroEntry, OperationsKeepPoints
    <3> QED
      BY <2>7, <3>1, <3>2, <2>at DEF TechMap
  <2>8. ASSUME Unmap PROVE Kept
    <3>1. Target # NoDesign /\ DesignOK(heap[Target])
      BY <2>8, <2>c DEF Unmap
    <3>2. /\ PointsKept(heap[Target], MakeSubnets(heap[Target], {0}))
          /\ \A nets : PointsKept(heap[Target], SetBuilders(MakeSubnets(heap[Target], {0}), Entries, nets))
      BY <3>1, ZeroEntry, OperationsKeepPoints
    <3> QED
      BY <2>8, <3>1, <3>2, <2>at DEF Unmap
  <2>9. ASSUME StatDesign PROVE Kept
    <3>1. PICK I \in SUBSET Entries : OnDesign(MakeSubnets(heap[design], I))
      BY <2>9, ZeroEntry DEF StatDesign
    <3> QED
      BY <2>9, <3>1, <2>d, <2>on, OperationsKeepPoints DEF StatDesign
  <2>10. ASSUME WriteDesign PROVE Kept
    <3>1. CASE \E I \in SUBSET Entries : OnDesign(MakeSubnets(heap[design], I))
      BY <2>10, <3>1, <2>d, <2>on, OperationsKeepPoints DEF WriteDesign
    <3>2. CASE Abort
      BY <3>2, <2>0 DEF Abort
    <3> QED
      BY <2>10, <3>1, <3>2 DEF WriteDesign
  <2>11. CASE UNCHANGED vars
    BY <2>11, <2>0 DEF vars
  <2> HIDE DEF Kept
  <2> QED
    BY <1>1, <2>1, <2>2, <2>3, <2>4, <2>5, <2>6, <2>7, <2>8, <2>9, <2>10, <2>11 DEF Next
<1>2. Inv /\ [Next]_vars =>
        [\A d \in Live \cap Live' : \A p \in heap[d].points :
           p \in heap'[d].points /\ heap'[d].saved[p] = heap[d].saved[p]]_vars
  BY <1>1 DEF PointsKept
<1> QED
  BY <1>2, Invariance, PTL DEF Spec, CheckpointsStable

-----------------------------------------------------------------------------
(* The session implements the store of versions (DesignStore), for designs *)
(* of any size and any number of designs, check points and commands.  The  *)
(* versions are read off the live designs (Current and Named of Shell);    *)
(* Inv says that a design computes what it computed when it was loaded, so *)
(* a command that keeps the origin of a design rewrites it into an         *)
(* equivalent version.                                                     *)

\* The version of a design.
Version(d) == [i \in Entries |-> Net(d, i)]

\* The version of a good design is a version of the store; it computes the origin.
LEMMA VersionOK ==
  ASSUME NEW d, DesignOK(d)
  PROVE  /\ Version(d) \in [Entries -> Structures]
         /\ Version(d) # NoSlots
         /\ \A i \in Entries : Fun[Version(d)[i]] = d.origin[i]
<1>1. \A i \in Entries : Net(d, i) \in Structures
  BY NetType
<1>2. \A i \in Entries : Fun[Net(d, i)] = d.origin[i]
  BY DEF DesignOK, DesignFun
<1>3. Version(d)[0] \in Structures /\ NoSlots[0] = NoNet
  BY <1>1, ZeroEntry DEF Version, NoSlots
<1>4. Version(d) # NoSlots
  BY <1>3, ObjectsAssumption
<1> QED
  BY <1>1, <1>2, <1>4 DEF Version

\* d and e have the same origin and the same check points.
SameNames(d, e) == e.origin = d.origin /\ e.saved = d.saved

\* No operation but save touches the origin or the check points.
LEMMA OperationsKeepNames ==
  ASSUME NEW d, DesignOK(d)
  PROVE  /\ \A I \in SUBSET Entries : SameNames(d, MakeSubnets(d, I))
         /\ \A I, J \in SUBSET Entries : \A nets :
              SameNames(d, SetBuilders(MakeSubnets(d, J), I, nets))
         /\ \A p \in Points : SameNames(d, rollback(d, p))
<1>1. d \in Designs
  BY DEF DesignOK
<1>2. \A I \in SUBSET Entries : MakeSubnets(d, I) \in Designs
  BY MakeOK DEF DesignOK
<1>3. \A I \in SUBSET Entries : SameNames(d, MakeSubnets(d, I))
  BY <1>1 DEF MakeSubnets, Designs, SameNames
<1>4. \A m \in Designs, I \in SUBSET Entries : \A nets :
        SetBuilders(m, I, nets).origin = m.origin /\ SetBuilders(m, I, nets).saved = m.saved
  BY DEF SetBuilders, Designs
<1>5. \A p \in Points : SameNames(d, rollback(d, p))
  BY <1>1 DEF rollback, Designs, SameNames
<1>6. \A I, J \in SUBSET Entries : \A nets : SameNames(d, SetBuilders(MakeSubnets(d, J), I, nets))
  BY <1>2, <1>3, <1>4 DEF SameNames
<1> QED
  BY <1>3, <1>5, <1>6

\* What the store sees of a step that replaces one live design by a good one.
LEMMA UpdateView ==
  ASSUME Inv, NEW x \in Live, NEW e, DesignOK(e), heap' = [heap EXCEPT ![x] = e], Live' = Live
  PROVE  /\ Current' = [Current EXCEPT ![x] = Version(e)]
         /\ Named' = [Named EXCEPT ![x] = e.saved]
         /\ x \in DesignIDs
         /\ Current[x] = Version(heap[x])
         /\ Named[x] = heap[x].saved
<1>1. x \in DesignIDs /\ heap \in [DesignIDs -> Designs]
  BY DEF Live, Inv, TypeOK
<1>2. \A d \in DesignIDs : heap'[d] = IF d = x THEN e ELSE heap[d]
  BY <1>1
<1>3. Current' = [d \in DesignIDs |-> IF d \in Live THEN Version(heap'[d]) ELSE NoSlots]
  BY DEF Current, Version, Net
<1>4. Current = [d \in DesignIDs |-> IF d \in Live THEN Version(heap[d]) ELSE NoSlots]
  BY DEF Current, Version
<1>5. Named' = [d \in DesignIDs |-> IF d \in Live THEN heap'[d].saved ELSE [p \in Points |-> NoSlots]]
  BY DEF Named
<1>6. Current' = [Current EXCEPT ![x] = Version(e)]
  BY <1>1, <1>2, <1>3, <1>4
<1>7. Named' = [Named EXCEPT ![x] = e.saved]
  BY <1>1, <1>2, <1>5 DEF Named
<1> QED
  BY <1>1, <1>4, <1>6, <1>7 DEF Named

\* A step that keeps the origin and the check points of the design it replaces is
\* a rewriting.
LEMMA RewriteStep ==
  ASSUME Inv, NEW x \in Live, NEW e, DesignOK(e), heap' = [heap EXCEPT ![x] = e], Live' = Live,
         SameNames(heap[x], e)
  PROVE  Store!Next
<1>1. DesignOK(heap[x])
  BY DEF Inv
<1>2. /\ Current' = [Current EXCEPT ![x] = Version(e)]
      /\ Named' = [Named EXCEPT ![x] = e.saved]
      /\ x \in DesignIDs /\ Current[x] = Version(heap[x]) /\ Named[x] = heap[x].saved
  BY UpdateView
<1>3. Version(e) \in [Entries -> Structures] /\ Version(heap[x]) # NoSlots
  BY <1>1, VersionOK
<1>4. \A i \in Entries : Fun[Version(e)[i]] = Fun[Version(heap[x])[i]]
  BY <1>1, VersionOK DEF SameNames
<1>5. Current'[x] = Version(e)
  BY <1>2 DEF Current
<1>6. Store!Rewritten(x)
  BY <1>2, <1>3, <1>4, <1>5 DEF Store!Rewritten, Store!Versions, Store!Equivalent
<1>7. Named' = Named
  BY <1>2 DEF Named, SameNames
<1> QED
  BY <1>2, <1>6, <1>7 DEF Store!Next, Store!Rewrite

\* save gives a new name to the version it has just made, and rewrites only if the
\* name is in use.
LEMMA SaveStep ==
  ASSUME Inv, design # NoDesign, NEW p \in Points, OnDesign(save(heap[design], p))
  PROVE  Store!Next
<1> DEFINE d == heap[design]
           e == save(d, p)
<1>1. design \in Live /\ DesignOK(d) /\ DesignOK(e) /\ Live' = Live
  BY SaveOK DEF Inv, Live, OnDesign
<1>2. /\ e.origin = d.origin
      /\ e.subnet = MakeSubnets(d, Entries).subnet
      /\ \A q \in Points : q # p => e.saved[q] = d.saved[q]
      /\ p \in d.points => e.saved[p] = d.saved[p]
      /\ p \notin d.points => e.saved[p] = MakeSubnets(d, Entries).subnet
  BY <1>1, SaveFields
<1>3. d \in Designs /\ e \in Designs /\ DesignPoints(d)
  BY <1>1 DEF DesignOK
<1>4. d.saved \in [Points -> Slots] /\ e.saved \in [Points -> Slots]
  BY <1>3 DEF Designs
<1>5. heap' = [heap EXCEPT ![design] = e]
  BY DEF OnDesign
<1>6. MakeSubnets(d, Entries).subnet = [i \in Entries |-> SubnetOf(d, i)]
  BY <1>3 DEF MakeSubnets, Designs
<1>7. \A i \in Entries : SubnetOf(d, i) \in Structures
  BY <1>1, NetType
<1> HIDE DEF d, e
<1>8. CASE p \in d.points
  <2>1. e.saved = d.saved
    BY <1>2, <1>4, <1>8
  <2> QED
    BY <1>1, <1>2, <1>5, <2>1, RewriteStep DEF SameNames, d
<1>9. CASE p \notin d.points
  <2>1. /\ Current' = [Current EXCEPT ![design] = Version(e)]
        /\ Named' = [Named EXCEPT ![design] = e.saved]
        /\ design \in DesignIDs /\ Current[design] = Version(d) /\ Named[design] = d.saved
    BY <1>1, <1>5, UpdateView DEF d
  <2>2. d.saved[p] = NoSlots
    BY <1>3, <1>4, <1>9 DEF DesignPoints, Slots, NoSlots
  <2>3. Version(e) = e.subnet
    BY <1>2, <1>6, <1>7, ObjectsAssumption DEF Version, Net
  <2>4. e.saved = [d.saved EXCEPT ![p] = Version(e)]
    BY <1>2, <1>4, <1>9, <2>3
  <2>5. Version(e) \in [Entries -> Structures] /\ Version(d) # NoSlots
    BY <1>1, VersionOK
  <2>6. \A i \in Entries : Fun[Version(e)[i]] = Fun[Version(d)[i]]
    BY <1>1, <1>2, VersionOK
  <2>7. Current'[design] = Version(e)
    BY <2>1 DEF Current
  <2>8. Store!Rewritten(design)
    BY <2>1, <2>5, <2>6, <2>7 DEF Store!Rewritten, Store!Versions, Store!Equivalent
  <2>9. Named' = [Named EXCEPT ![design] = [Named[design] EXCEPT ![p] = Version(e)]]
    BY <2>1, <2>4
  <2> QED
    BY <2>1, <2>2, <2>7, <2>8, <2>9 DEF Store!Next, Store!Name
<1> QED
  BY <1>8, <1>9

\* A command that does not touch the designs and keeps the live ones is no step of
\* the store.
LEMMA StutterStep ==
  ASSUME heap' = heap, Live' = Live
  PROVE  UNCHANGED Store!vars
  BY DEF Store!vars, Current, Named, Net

\* Reading a design opens it: the object is one that nobody refers to.
LEMMA OpenStep ==
  ASSUME Inv, NEW nets \in Files, ReadDesign(nets)
  PROVE  Store!Next
<1>1. PICK new \in DesignIDs \ {context} :
        design' = new /\ heap' = [heap EXCEPT ![new] = NewDesign(nets)]
  BY DEF ReadDesign
<1>2. heap \in [DesignIDs -> Designs] /\ nets \in [Entries -> Structures]
  BY FilesAssumption DEF Inv, TypeOK
<1>3. new \notin Live /\ Live' = Live \cup {new}
  BY <1>1, ObjectsAssumption DEF Live, ReadDesign
<1>4. Version(NewDesign(nets)) = nets
  BY <1>2, ObjectsAssumption DEF Version, Net, NewDesign
<1>5. NewDesign(nets).saved = [p \in Points |-> NoSlots]
  BY DEF NewDesign
<1>6. \A d \in DesignIDs : heap'[d] = IF d = new THEN NewDesign(nets) ELSE heap[d]
  BY <1>1, <1>2
<1>7. Current' = [d \in DesignIDs |-> IF d \in Live' THEN Version(heap'[d]) ELSE NoSlots]
  BY DEF Current, Version, Net
<1>8. Current = [d \in DesignIDs |-> IF d \in Live THEN Version(heap[d]) ELSE NoSlots]
  BY DEF Current, Version
<1>9. Current' = [Current EXCEPT ![new] = nets]
  BY <1>1, <1>3, <1>4, <1>6, <1>7, <1>8
<1>10. Named' = Named
  BY <1>1, <1>3, <1>5, <1>6 DEF Named
<1>11. Current[new] = NoSlots
  BY <1>3, <1>8
<1> QED
  BY <1>1, <1>2, <1>9, <1>10, <1>11 DEF Store!Next, Store!Open, Store!Versions

\* Deleting a design closes it, unless the context refers to it: then the design
\* lives on, and nothing has happened to the store.
LEMMA CloseStep ==
  ASSUME Inv, DeleteDesign
  PROVE  Store!Next \/ UNCHANGED Store!vars
<1>1. CASE context = design
  <2>1. heap' = heap /\ Live' = Live
    BY <1>1 DEF DeleteDesign, Live
  <2> QED
    BY <2>1, StutterStep
<1>2. CASE context # design
  <2>1. design \in Live /\ design \in DesignIDs /\ Live' = Live \ {design}
    BY <1>2 DEF DeleteDesign, Live, Inv, TypeOK
  <2>2. \A d \in DesignIDs : d # design => heap'[d] = heap[d]
    BY <1>2 DEF DeleteDesign, Inv, TypeOK
  <2>3. Current' = [d \in DesignIDs |-> IF d \in Live' THEN Version(heap'[d]) ELSE NoSlots]
    BY DEF Current, Version, Net
  <2>4. Current = [d \in DesignIDs |-> IF d \in Live THEN Version(heap[d]) ELSE NoSlots]
    BY DEF Current, Version
  <2>5. Current' = [Current EXCEPT ![design] = NoSlots]
    BY <2>1, <2>2, <2>3, <2>4
  <2>6. Named' = [Named EXCEPT ![design] = [p \in Points |-> NoSlots]]
    BY <2>1, <2>2 DEF Named
  <2>7. Current[design] # NoSlots
    BY <2>1, <2>4, VersionOK DEF Inv
  <2> QED
    BY <2>1, <2>5, <2>6, <2>7 DEF Store!Next, Store!Close, Store!NoNames
<1> QED
  BY <1>1, <1>2

-----------------------------------------------------------------------------

\* No design is open in the beginning.
LEMMA InitStore == Init => Store!Init
<1> SUFFICES ASSUME Init PROVE Store!Init
  OBVIOUS
<1>1. Live = {}
  BY DEF Init, Live
<1> QED
  BY <1>1 DEF Store!Init, Store!NoNames, Current, Named

\* Every command is a step of the store or none.
LEMMA NextStore == Inv /\ [Next]_vars => [Store!Next]_(Store!vars)
<1> SUFFICES ASSUME Inv, [Next]_vars PROVE Store!Next \/ UNCHANGED Store!vars
  OBVIOUS
<1>t. TypeOK /\ \A x \in Live : DesignOK(heap[x])
  BY DEF Inv
<1>d. design # NoDesign => design \in Live /\ DesignOK(heap[design])
  BY <1>t DEF Live
<1>c. Target # NoDesign => Target \in Live /\ DesignOK(heap[Target])
  BY <1>t DEF Live, Target
<1>on. ASSUME NEW e, design # NoDesign, OnDesign(e), DesignOK(e), SameNames(heap[design], e)
       PROVE  Store!Next
  <2>1. Live' = Live /\ heap' = [heap EXCEPT ![design] = e]
    BY <1>on DEF OnDesign, Live
  <2> QED
    BY <1>on, <1>d, <2>1, RewriteStep
<1>at. ASSUME NEW e, Target # NoDesign, OnTarget(e), DesignOK(e), SameNames(heap[Target], e)
       PROVE  Store!Next
  <2>1. Live' = Live /\ heap' = [heap EXCEPT ![Target] = e]
    BY <1>at DEF OnTarget, Live, Target
  <2> QED
    BY <1>at, <1>c, <2>1, RewriteStep
<1>ab. ASSUME Abort PROVE UNCHANGED Store!vars
  <2>1. Live' = Live /\ heap' = heap
    BY <1>ab DEF Abort, Live
  <2> QED
    BY <2>1, StutterStep
<1>1. ASSUME NEW nets \in Files, ReadDesign(nets) PROVE Store!Next
  BY <1>1, OpenStep
<1>2. ASSUME DeleteDesign PROVE Store!Next \/ UNCHANGED Store!vars
  BY <1>2, CloseStep
<1>3. ASSUME NEW p \in Points, SavePoint(p) PROVE Store!Next
  BY <1>3, SaveStep DEF SavePoint
<1>4. ASSUME NEW p \in Points, GotoPoint(p) PROVE Store!Next \/ UNCHANGED Store!vars
  <2>1. CASE \A i \in Entries : heap[design].saved[p][i] # NoNet
    BY <1>4, <2>1, <1>d, <1>on, RollbackOK, OperationsKeepNames DEF GotoPoint
  <2>2. CASE \E i \in Entries : heap[design].saved[p][i] = NoNet
    BY <1>4, <2>2, <1>ab DEF GotoPoint
  <2> QED
    BY <2>1, <2>2
<1>5. ASSUME LogOpt PROVE Store!Next
  <2> DEFINE m == MakeSubnets(heap[design], {0})
  <2>1. /\ design # NoDesign /\ DesignOK(heap[design]) /\ DesignOK(m)
        /\ (isTechMapped(m) <=> Kind[Net(m, 0)] = "mapped")
    BY <1>5, <1>d, FirstMade DEF LogOpt
  <2>2. /\ SameNames(heap[design], m)
        /\ \A nets : SameNames(heap[design], SetBuilders(m, Entries, nets))
    BY <2>1, ZeroEntry, OperationsKeepNames
  <2>3. CASE OnDesign(m)
    BY <2>1, <2>2, <2>3, <1>on
  <2>4. CASE ~isTechMapped(m) /\ \E nets \in [Entries -> Structures] :
               /\ \A i \in Entries : Optimized(Net(m, i), nets[i])
               /\ OnDesign(SetBuilders(m, Entries, nets))
    <3> HIDE DEF m
    <3> QED
      BY <2>1, <2>2, <2>4, <1>on, OptimizedOK
  <2> QED
    BY <1>5, <2>3, <2>4 DEF LogOpt
<1>6. ASSUME ReadLiberty PROVE UNCHANGED Store!vars
  <2>1. Live' = Live /\ heap' = heap
    BY <1>6 DEF ReadLiberty, Live
  <2> QED
    BY <2>1, StutterStep
<1>7. ASSUME TechMap PROVE Store!Next
  <2> DEFINE m == MakeSubnets(heap[Target], {0})
  <2>1. Target # NoDesign /\ DesignOK(heap[Target]) /\ DesignOK(m)
    BY <1>7, <1>c, FirstMade DEF TechMap
  <2>2. /\ SameNames(heap[Target], m)
        /\ \A n, nets : SameNames(heap[Target], SetBuilders(m, {i \in Entries : i <= n}, nets))
    BY <2>1, ZeroEntry, OperationsKeepNames
  <2>3. CASE OnTarget(heap[Target])
    BY <2>1, <2>3, <1>at DEF SameNames
  <2>4. CASE OnTarget(m)
    BY <2>1, <2>2, <2>4, <1>at
  <2>5. CASE \E n \in 0 .. N, nets \in [Entries -> Structures] :
               /\ \A i \in 0 .. n - 1 : Mapped(Net(m, i), nets[i])
               /\ \A i \in n .. N - 1 : nets[i] = Net(m, i)
               /\ OnTarget(SetBuilders(m, {i \in Entries : i <= n}, nets))
    <3> HIDE DEF m
    <3>1. PICK n \in 0 .. N, nets \in [Entries -> Structures] :
               /\ \A i \in 0 .. n - 1 : Mapped(Net(m, i), nets[i])
               /\ \A i \in n .. N - 1 : nets[i] = Net(m, i)
               /\ OnTarget(SetBuilders(m, {i \in Entries : i <= n}, nets))
      BY <2>5
    <3>2. DesignOK(SetBuilders(m, {i \in Entries : i <= n}, nets))
      BY <2>1, <3>1, MappedOK
    <3> QED
      BY <2>1, <2>2, <3>1, <3>2, <1>at
  <2> QED
    BY <1>7, <2>3, <2>4, <2>5 DEF TechMap
<1>8. ASSUME Unmap PROVE Store!Next
  <2> DEFINE m == MakeSubnets(heap[Target], {0})
  <2>1. Target # NoDesign /\ DesignOK(heap[Target]) /\ DesignOK(m)
    BY <1>8, <1>c, FirstMade DEF Unmap
  <2>2. /\ SameNames(heap[Target], m)
        /\ \A nets : SameNames(heap[Target], SetBuilders(m, Entries, nets))
    BY <2>1, ZeroEntry, OperationsKeepNames
  <2>3. CASE OnTarget(m)
    BY <2>1, <2>2, <2>3, <1>at
  <2>4. CASE \E nets \in [Entries -> Structures] :
               /\ \A i \in Entries : Unmapped(Net(m, i), nets[i])
               /\ OnTarget(SetBuilders(m, Entries, nets))
    <3> HIDE DEF m
    <3> QED
      BY <2>1, <2>2, <2>4, <1>at, UnmappedOK
  <2> QED
    BY <1>8, <2>3, <2>4 DEF Unmap
<1>9. ASSUME StatDesign PROVE Store!Next
  <2>1. PICK I \in SUBSET Entries : OnDesign(MakeSubnets(heap[design], I))
    BY <1>9, ZeroEntry DEF StatDesign
  <2> QED
    BY <1>9, <2>1, <1>d, <1>on, MakeOK, OperationsKeepNames DEF StatDesign
<1>10. ASSUME WriteDesign PROVE Store!Next \/ UNCHANGED Store!vars
  <2>1. CASE \E I \in SUBSET Entries : OnDesign(MakeSubnets(heap[design], I))
    BY <1>10, <2>1, <1>d, <1>on, MakeOK, OperationsKeepNames DEF WriteDesign
  <2>2. CASE Abort
    BY <2>2, <1>ab
  <2> QED
    BY <1>10, <2>1, <2>2 DEF WriteDesign
<1>11. CASE UNCHANGED vars
  <2>1. Live' = Live /\ heap' = heap
    BY <1>11 DEF vars, Live
  <2> QED
    BY <2>1, StutterStep
<1> QED
  BY <1>1, <1>2, <1>3, <1>4, <1>5, <1>6, <1>7, <1>8, <1>9, <1>10, <1>11 DEF Next

\* The session implements the store of versions: behind builders, lazy makes and
\* two references to designs, every command changes one design at most, into an
\* equivalent version, and a check point is the version that was current.
THEOREM Refinement == Spec => ImplementsStore
  BY InitStore, NextStore, Invariance, PTL DEF Spec, ImplementsStore, Store!Spec
=============================================================================
