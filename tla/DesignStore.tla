----------------------------- MODULE DesignStore -----------------------------
(***************************************************************************)
(* What a session promises its user, without builders, subnets, references *)
(* and kinds of gates: a store of designs.  A design has a current version *)
(* and named versions.  Every command rewrites at most one design, and     *)
(* only into a version that computes the same; a name is given to the      *)
(* version that is current then, once, and keeps it until the design is    *)
(* closed.  Shell implements this specification.                           *)
(***************************************************************************)
CONSTANTS
  DesignIDs,    \* designs
  Entries,      \* parts of a design
  Structures,   \* networks
  Fun,          \* the function a network computes
  Points,       \* names of versions
  NoVersion     \* not open, or not named

VARIABLES
  current,   \* the current version of every design
  named      \* the named versions of every design

vars == <<current, named>>

Versions == [Entries -> Structures]

Equivalent(v, w) == \A i \in Entries : Fun[v[i]] = Fun[w[i]]

NoNames == [p \in Points |-> NoVersion]

Init ==
  /\ current = [d \in DesignIDs |-> NoVersion]
  /\ named = [d \in DesignIDs |-> NoNames]

Open(d) ==
  /\ current[d] = NoVersion
  /\ \E v \in Versions : current' = [current EXCEPT ![d] = v]
  /\ UNCHANGED named

\* The new version of an open design.
Rewritten(d) ==
  /\ current[d] # NoVersion
  /\ \E v \in Versions : current' = [current EXCEPT ![d] = v]
  /\ Equivalent(current'[d], current[d])

Rewrite(d) == Rewritten(d) /\ UNCHANGED named

Name(d, p) ==
  /\ named[d][p] = NoVersion
  /\ Rewritten(d)
  /\ named' = [named EXCEPT ![d][p] = current'[d]]

Close(d) ==
  /\ current[d] # NoVersion
  /\ current' = [current EXCEPT ![d] = NoVersion]
  /\ named' = [named EXCEPT ![d] = NoNames]

Next ==
  \E d \in DesignIDs : \/ Open(d)
                       \/ Rewrite(d)
                       \/ \E p \in Points : Name(d, p)
                       \/ Close(d)

Spec == Init /\ [][Next]_vars
=============================================================================
