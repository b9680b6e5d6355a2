-------------------------------- MODULE Shell --------------------------------
(***************************************************************************)
(* The synthesis session: the shell's commands (shell/command) on the      *)
(* design being synthesized (gate/model/design.h).                         *)
(*                                                                         *)
(* A DesignBuilder keeps, for every subnet of the design, either a subnet  *)
(* (immutable) or a builder (mutable), and named check points.  The shell  *)
(* keeps one design in a global variable, and the context of the           *)
(* technology mapper refers to a design of its own: both share ownership,  *)
(* so a design lives while one of them refers to it.                       *)
(*                                                                         *)
(* A network is abstracted to its structure: what it computes (Fun) and    *)
(* whether its gates are logical or technological (Kind).                  *)
(*                                                                         *)
(* An operator marked "Bug:" is a faulty variant of the operator after it; *)
(* no specification uses it.                                               *)
(***************************************************************************)
EXTENDS Integers

CONSTANTS
  DesignIDs,    \* objects of class DesignBuilder
  NoDesign,     \* nullptr
  N,            \* number of subnets of a design
  Structures,   \* networks
  NoNet,        \* OBJ_NULL_ID, or no builder
  Funs,         \* functions that networks compute
  Fun,          \* the function a network computes
  Kind,         \* what SubnetBuilder::isTechMapped sees in a network
  Made,         \* the network that make(DeleteBuffers) makes of a builder's one
  Files,        \* designs that can be read
  Points,       \* names of check points
  MaxCommands   \* bound on the number of commands

Entries == 0 .. N - 1

\* A network without gates (wires and constants only) is neither logical nor
\* technological.
Kinds == {"gateless", "logic", "mapped"}

ASSUME ObjectsAssumption ==
  /\ NoDesign \notin DesignIDs
  /\ NoNet \notin Structures
  /\ N \in Nat \ {0}
  /\ MaxCommands \in Nat

ASSUME StructuresAssumption ==
  /\ Fun \in [Structures -> Funs]
  /\ Kind \in [Structures -> Kinds]

\* Buffers are logical gates; make deletes them and keeps the function.
ASSUME MadeAssumption ==
  /\ Made \in [Structures -> Structures]
  /\ \A s \in Structures :
       /\ Fun[Made[s]] = Fun[s]
       /\ Kind[Made[s]] = Kind[s] \/ (Kind[s] = "logic" /\ Kind[Made[s]] = "gateless")

\* The translators make logical networks.
ASSUME FilesAssumption ==
  /\ Files \subseteq [Entries -> Structures]
  /\ \A f \in Files : \A i \in Entries : Kind[f[i]] # "mapped"

VARIABLES
  heap,      \* the designs
  design,    \* designBuilder of shell.cpp
  context,   \* UtopiaContext::design
  library,   \* whether UtopiaContext has a library
  aborted,   \* whether an assert has failed
  commands   \* number of commands that have changed the session

vars == <<heap, design, context, library, aborted, commands>>

-----------------------------------------------------------------------------
(* DesignBuilder.                                                          *)

Slots == [Entries -> Structures \cup {NoNet}]

\* origin is what the subnets computed when the design was loaded (history).
Designs == [subnet : Slots, builder : Slots, saved : [Points -> Slots],
            points : SUBSET Points, origin : [Entries -> Funs \cup {NoNet}]]

NoSlots == [i \in Entries |-> NoNet]

\* An object before its construction and after its destruction.
NoObject == [subnet |-> NoSlots, builder |-> NoSlots, saved |-> [p \in Points |-> NoSlots],
             points |-> {}, origin |-> NoSlots]

\* DesignBuilder(net): the subnets of the decomposed net, no check points.
NewDesign(nets) ==
  [subnet |-> nets, builder |-> NoSlots, saved |-> [p \in Points |-> NoSlots],
   points |-> {}, origin |-> [i \in Entries |-> Fun[nets[i]]]]

\* The network an entry holds.
Net(d, i) == IF d.subnet[i] # NoNet THEN d.subnet[i] ELSE d.builder[i]

\* getSubnetID: makes the subnet (if required) and destroys the builder.
SubnetOf(d, i) == IF d.subnet[i] # NoNet THEN d.subnet[i] ELSE Made[d.builder[i]]

\* getSubnetID for all entries of I.
MakeSubnets(d, I) ==
  [d EXCEPT !.subnet = [i \in Entries |-> IF i \in I THEN SubnetOf(d, i) ELSE d.subnet[i]],
            !.builder = [i \in Entries |-> IF i \in I /\ d.subnet[i] = NoNet THEN NoNet ELSE d.builder[i]]]

\* Bug: the builder is made and the subnet stays valid.
SetBuilders_Keep(d, I, nets) ==
  [d EXCEPT !.builder = [i \in Entries |-> IF i \in I THEN nets[i] ELSE d.builder[i]]]

\* getSubnetBuilder for all entries of I, whose builders then hold nets[i].
SetBuilders(d, I, nets) ==
  [d EXCEPT !.subnet = [i \in Entries |-> IF i \in I THEN NoNet ELSE d.subnet[i]],
            !.builder = [i \in Entries |-> IF i \in I THEN nets[i] ELSE d.builder[i]]]

\* Bug: technological cells are not recognized.
isTechMapped_Never(d) == FALSE

\* isTechMapped looks at the first subnet, and makes it.
isTechMapped(d) == Kind[SubnetOf(d, 0)] = "mapped"

\* Bug: the loop over the subnets starts with the second one.
save_FromOne(d, p) ==
  LET made == MakeSubnets(d, Entries)
  IN  [made EXCEPT !.saved[p] = [i \in Entries \ {0} |-> made.subnet[i]], !.points = @ \cup {p}]

\* Bug: the name is not entered into the list of check points.
save_NoName(d, p) ==
  LET made == MakeSubnets(d, Entries)
  IN  [made EXCEPT !.saved[p] = [i \in Entries |-> IF @[i] # NoNet THEN @[i] ELSE made.subnet[i]]]

\* Bug: every entry saves the first subnet.
save_First(d, p) ==
  LET made == MakeSubnets(d, Entries)
  IN  [made EXCEPT !.saved[p] = [i \in Entries |-> made.subnet[0]], !.points = @ \cup {p}]

\* Bug: a name in use gets new subnets, in the middle of a script that relies on
\* the old ones.
save_Overwrite(d, p) ==
  LET made == MakeSubnets(d, Entries)
  IN  [made EXCEPT !.saved[p] = made.subnet, !.points = @ \cup {p}]

\* Bug: the check point gets the networks from before the subnets are made.
save_Unmade(d, p) ==
  LET made == MakeSubnets(d, Entries)
  IN  [made EXCEPT !.saved[p] = [i \in Entries |-> IF @[i] # NoNet THEN @[i] ELSE Net(d, i)],
                   !.points = @ \cup {p}]

\* save: a name that is in use keeps its subnets (unordered_map::emplace).
save(d, p) ==
  LET made == MakeSubnets(d, Entries)
  IN  [made EXCEPT !.saved[p] = [i \in Entries |-> IF @[i] # NoNet THEN @[i] ELSE made.subnet[i]],
                   !.points = @ \cup {p}]

rollback(d, p) == [d EXCEPT !.subnet = d.saved[p], !.builder = NoSlots]

\* What a pass may make of a network: the same function; no gates appear where
\* there were none, and no technological ones.
Optimized(s, t) ==
  /\ Fun[t] = Fun[s]
  /\ Kind[s] = "gateless" => Kind[t] = "gateless"
  /\ Kind[t] = "mapped" => Kind[s] = "mapped"

\* What the technology mapper may make of a network.
Mapped(s, t) ==
  /\ Fun[t] = Fun[s]
  /\ Kind[t] # "logic"

\* What the unmapper may make of a network.
Unmapped(s, t) ==
  /\ Fun[t] = Fun[s]
  /\ Kind[t] # "mapped"
  /\ Kind[s] = "gateless" => Kind[t] = "gateless"

-----------------------------------------------------------------------------
(* Commands.                                                               *)

Init ==
  /\ heap = [d \in DesignIDs |-> NoObject]
  /\ design = NoDesign
  /\ context = NoDesign
  /\ library = FALSE
  /\ aborted = FALSE
  /\ commands = 0

Command ==
  /\ ~aborted
  /\ commands < MaxCommands
  /\ commands' = commands + 1

\* An assert fails; the session ends.
Abort ==
  /\ aborted' = TRUE
  /\ UNCHANGED <<heap, design, context, library>>

\* A command on the loaded design; without one it is an error that changes
\* nothing.  The design becomes d.
OnDesign(d) ==
  /\ heap' = [heap EXCEPT ![design] = d]
  /\ UNCHANGED <<design, context, library, aborted>>

\* read_graphml, read_firrtl: an error if a design has been loaded.
ReadDesign(nets) ==
  /\ Command
  /\ design = NoDesign
  /\ \E new \in DesignIDs \ {context} :
       /\ design' = new
       /\ heap' = [heap EXCEPT ![new] = NewDesign(nets)]
  /\ UNCHANGED <<context, library, aborted>>

\* delete_design: the object dies unless the context refers to it.
DeleteDesign ==
  /\ Command
  /\ design # NoDesign
  /\ design' = NoDesign
  /\ heap' = IF context = design THEN heap ELSE [heap EXCEPT ![design] = NoObject]
  /\ UNCHANGED <<context, library, aborted>>

SavePoint(p) ==
  /\ Command
  /\ design # NoDesign
  /\ OnDesign(save(heap[design], p))

\* goto_point does not look the name up: an unknown one fails the assert of
\* getSubnetID(i, point).
GotoPoint(p) ==
  /\ Command
  /\ design # NoDesign
  /\ \/ /\ \A i \in Entries : heap[design].saved[p][i] # NoNet
        /\ OnDesign(rollback(heap[design], p))
     \/ /\ \E i \in Entries : heap[design].saved[p][i] = NoNet
        /\ Abort

\* logopt: one pass over all subnets (a script is a sequence of passes), or an
\* error, because the design is mapped or the arguments are wrong, after the
\* first subnet has been made.
LogOpt ==
  /\ Command
  /\ design # NoDesign
  /\ LET d == MakeSubnets(heap[design], {0})
     IN  \/ OnDesign(d)
         \/ /\ ~isTechMapped(d)
            /\ \E nets \in [Entries -> Structures] :
                 /\ \A i \in Entries : Optimized(Net(d, i), nets[i])
                 /\ OnDesign(SetBuilders(d, Entries, nets))

\* read_liberty: the library exists even if no file could be read.
ReadLiberty ==
  /\ Command
  /\ library' = TRUE
  /\ UNCHANGED <<heap, design, context, aborted>>

\* The design of techmap and unmap: the context's, or else the loaded one.
Target == IF context = NoDesign THEN design ELSE context

\* A command on that design, which the context refers to from now on.
OnTarget(d) ==
  /\ context' = Target
  /\ heap' = [heap EXCEPT ![Target] = d]
  /\ UNCHANGED <<design, library, aborted>>

\* techmap: the subnets are mapped one by one until the mapper fails on one;
\* the ones mapped by then stay mapped.  The context refers to the design even if
\* the command is an error.
TechMap ==
  /\ Command
  /\ Target # NoDesign
  /\ LET d == MakeSubnets(heap[Target], {0})
     IN  \/ ~library /\ OnTarget(heap[Target])
         \/ library /\ OnTarget(d)
         \/ /\ library /\ ~isTechMapped(d)
            /\ \E n \in 0 .. N, nets \in [Entries -> Structures] :
                 /\ \A i \in 0 .. n - 1 : Mapped(Net(d, i), nets[i])
                 /\ \A i \in n .. N - 1 : nets[i] = Net(d, i)
                 /\ OnTarget(SetBuilders(d, {i \in Entries : i <= n}, nets))

Unmap ==
  /\ Command
  /\ Target # NoDesign
  /\ LET d == MakeSubnets(heap[Target], {0})
     IN  \/ OnTarget(d)
         \/ /\ isTechMapped(d)
            /\ \E nets \in [Entries -> Structures] :
                 /\ \A i \in Entries : Unmapped(Net(d, i), nets[i])
                 /\ OnTarget(SetBuilders(d, Entries, nets))

\* stat_design: a mapped design without a library is an error after the first
\* subnet has been made.
StatDesign ==
  /\ Command
  /\ design # NoDesign
  /\ OnDesign(MakeSubnets(heap[design],
                         IF isTechMapped(heap[design]) /\ ~library THEN {0} ELSE Entries))

\* write_verilog and its like: the whole design, all its subnets, or the one with
\* the given index, which is not checked before the assert of getEntry.
WriteDesign ==
  /\ Command
  /\ design # NoDesign
  /\ \/ \E I \in {Entries} \cup {{i} : i \in Entries} : OnDesign(MakeSubnets(heap[design], I))
     \/ Abort

Next ==
  \/ \E nets \in Files : ReadDesign(nets)
  \/ DeleteDesign
  \/ \E p \in Points : SavePoint(p)
  \/ \E p \in Points : GotoPoint(p)
  \/ LogOpt
  \/ ReadLiberty
  \/ TechMap
  \/ Unmap
  \/ StatDesign
  \/ WriteDesign

Spec == Init /\ [][Next]_vars

-----------------------------------------------------------------------------
(* Properties.                                                             *)

Live == {d \in {design, context} : d # NoDesign}

\* The designs, the references of the shell and of the context, and the flags have
\* their types.
TypeOK ==
  /\ heap \in [DesignIDs -> Designs]
  /\ design \in DesignIDs \cup {NoDesign}
  /\ context \in DesignIDs \cup {NoDesign}
  /\ library \in BOOLEAN
  /\ aborted \in BOOLEAN
  /\ commands \in 0 .. MaxCommands

\* Every entry of a design holds either a subnet or a builder, never both and
\* never none (the validator's "Inconsistent subnet"), whatever sequence of
\* makes, passes, failed mappings and rollbacks led there.
Consistent ==
  \A d \in Live : \A i \in Entries :
    (heap[d].subnet[i] # NoNet) # (heap[d].builder[i] # NoNet)

\* The list of global check points agrees with the entries: what hasPoint lets
\* through (lec) is a check point of every subnet, so no assert fails, and what
\* it stops is a check point of none.
PointsComplete ==
  \A d \in Live : \A p \in Points : \A i \in Entries :
    p \in heap[d].points <=> heap[d].saved[p][i] # NoNet

\* A design computes what it computed when it was loaded, now and at all its
\* check points: lec of two check points passes, and goto_point and the technology
\* mapper working through another reference never mix up designs or subnets.
FunctionKept ==
  \A d \in Live : \A i \in Entries :
    /\ Fun[Net(heap[d], i)] = heap[d].origin[i]
    /\ \A p \in heap[d].points : Fun[heap[d].saved[p][i]] = heap[d].origin[i]

\* isTechMapped looks at one subnet only.  If that subnet has logical gates, no
\* subnet is technological, now and at all check points, even after a mapping
\* that has failed half-way: logopt is not applied to technological gates then.
MappedGuard ==
  \A d \in Live :
    /\ Kind[Net(heap[d], 0)] = "logic" =>
         \A i \in Entries : Kind[Net(heap[d], i)] # "mapped"
    /\ \A p \in heap[d].points : Kind[heap[d].saved[p][0]] = "logic" =>
         \A i \in Entries : Kind[heap[d].saved[p][i]] # "mapped"

\* No command changes the subnets of a check point or forgets it, as long as the
\* design lives.
CheckpointsStable ==
  [][\A d \in Live \cap Live' : \A p \in heap[d].points :
       p \in heap'[d].points /\ heap'[d].saved[p] = heap[d].saved[p]]_vars

\* The versions of the designs as a user sees them.
Current == [d \in DesignIDs |-> IF d \in Live THEN [i \in Entries |-> Net(heap[d], i)] ELSE NoSlots]

Named == [d \in DesignIDs |-> IF d \in Live THEN heap[d].saved ELSE [p \in Points |-> NoSlots]]

Store == INSTANCE DesignStore WITH NoVersion <- NoSlots, current <- Current, named <- Named

\* The session is a store of versions: a command, through whichever reference it
\* reaches the design, changes one design only and into an equivalent version; a
\* new check point is the version current then; nothing else opens, closes or
\* renames a version, also when delete_design is called on a design that the
\* technology mapper's context still refers to.
ImplementsStore == Store!Spec

\* delete_design "erases the design from memory": no command works on an erased
\* design afterwards.
ContextCurrent == context # NoDesign => context = design
=============================================================================
