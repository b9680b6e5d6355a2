--------------------------- MODULE NetworkProofs ----------------------------
(***************************************************************************)
(* What the primitives of SubnetBuilder keep: placing and unplacing a      *)
(* cell, counting and listing a link, adding a cell, and deleting a cell   *)
(* with everything that only it has used.                                  *)
(*                                                                         *)
(* Inside a call the parts of a builder disagree: links have been counted  *)
(* that no cell has yet, or a counter runs ahead. Core says what holds all *)
(* the same. It takes the links to be counted as a set of tokens of its    *)
(* own, which only between two calls (Net) are the links of the live       *)
(* cells. The proofs go from the order and the depth bounds over the       *)
(* counters, the fanouts and the hash to addCell and deleteCell.           *)
(***************************************************************************)
EXTENDS SubnetNet, DataLemmas, FiniteSetTheorems

-----------------------------------------------------------------------------
(* The order of the cells.                                                 *)

\* b has the fields of a builder.
IsRec(b) == DOMAIN b = DOMAIN EmptyBuilder

\* The builders r and b differ at most in the fields F.
Same(r, b, F) == DOMAIN r = DOMAIN b /\ \A x \in DOMAIN b \ F : r[x] = b[x]

\* The cell that the links of the order name as the next one of x.
Nx(b, x) == IF b.next[x] = NormalOrderID THEN x + 1 ELSE b.next[x]

\* The cell that the links of the order name as the one before x.
Pv(b, x) == IF b.prev[x] = NormalOrderID THEN x - 1 ELSE b.prev[x]

\* The fields that setOrder changes.
OrderFields == {"prev", "next", "begin", "end", "isDisassembled"}

\* The links of the order string the cells of L in the order of the positions p.
Thread(b, L, p) ==
  /\ p \in [L -> 1 .. Cardinality(L)]
  /\ \A x, y \in L : p[x] = p[y] => x = y
  /\ L = {} => b.begin = InvalidID /\ b.end = InvalidID
  /\ L # {} => b.begin \in L /\ b.end \in L /\ p[b.begin] = 1 /\ p[b.end] = Cardinality(L)
  /\ \A x \in L : x # b.end => Nx(b, x) \in L /\ p[Nx(b, x)] = p[x] + 1
  /\ \A x \in L : x # b.begin => Pv(b, x) \in L /\ p[Pv(b, x)] = p[x] - 1

\* The links of the order of the slots D lead to slots.
Linking(prev, next, D) ==
  \A y \in D : prev[y] \in D \cup {NormalOrderID, LowerBoundID} /\ next[y] \in D \cup {NormalOrderID, UpperBoundID}

\* The arrays of b have the same slots.
Arrays(b) ==
  /\ IsRec(b)
  /\ DOMAIN b.entries \subseteq Nat
  /\ DOMAIN b.prev = DOMAIN b.entries /\ DOMAIN b.next = DOMAIN b.entries /\ DOMAIN b.depth = DOMAIN b.entries
  /\ Linking(b.prev, b.next, DOMAIN b.entries)

\* What setOrder(b, f, s) assigns: f and s become neighbours, and the ends follow.
LEMMA SetOrderFields ==
  ASSUME NEW b, IsRec(b), NEW f,
         NEW s, f # NormalOrderID, s # NormalOrderID, b.begin # NormalOrderID, b.end # NormalOrderID,
         ~(f = LowerBoundID /\ s = UpperBoundID)
  PROVE  LET r == setOrder(b, f, s) IN
         /\ Same(r, b, OrderFields)
         /\ r.begin = IF s = b.begin /\ f # LowerBoundID THEN f ELSE IF f = LowerBoundID THEN s ELSE b.begin
         /\ r.end = IF f = b.end /\ s # UpperBoundID THEN s ELSE IF s = UpperBoundID THEN f ELSE b.end
         /\ r.prev = IF s # UpperBoundID /\ (IF s = r.begin THEN f # LowerBoundID ELSE Pv(b, s) # f)
                     THEN SetAt(b.prev, s, f) ELSE b.prev
         /\ r.next = IF f # LowerBoundID /\ (IF f = r.end THEN s # UpperBoundID ELSE Nx(b, f) # s)
                     THEN SetAt(b.next, f, s) ELSE b.next
<1> USE DEF IsRec, EmptyBuilder, Same, OrderFields
<1> DEFINE b1 == [b EXCEPT
                !.begin = IF s = getSubnetBegin(b) /\ f # LowerBoundID THEN f
                          ELSE IF f = LowerBoundID THEN s ELSE @,
                !.end = IF f = getSubnetEnd(b) /\ s # UpperBoundID THEN s
                        ELSE IF s = UpperBoundID THEN f ELSE @]
           b2 == IF s # UpperBoundID /\ getPrev(b1, s) # f
              THEN [b1 EXCEPT !.prev = SetAt(@, s, f), !.isDisassembled = TRUE]
              ELSE b1
           r == IF f # LowerBoundID /\ getNext(b2, f) # s
                THEN [b2 EXCEPT !.next = SetAt(@, f, s), !.isDisassembled = TRUE]
                ELSE b2
<1>1. setOrder(b, f, s) = r
  BY DEF setOrder
<1>2. /\ DOMAIN b1 = DOMAIN b /\ \A x \in DOMAIN b \ {"begin", "end"} : b1[x] = b[x]
      /\ b1.begin = IF s = b.begin /\ f # LowerBoundID THEN f ELSE IF f = LowerBoundID THEN s ELSE b.begin
      /\ b1.end = IF f = b.end /\ s # UpperBoundID THEN s ELSE IF s = UpperBoundID THEN f ELSE b.end
  BY DEF getSubnetBegin, getSubnetEnd
<1>3. b1.begin # NormalOrderID /\ b1.end # NormalOrderID /\ b1.prev = b.prev /\ b1.next = b.next
  BY <1>2 DEF LowerBoundID, UpperBoundID, NormalOrderID
<1> HIDE DEF b1
<1>4. s # UpperBoundID => getPrev(b1, s) = IF s = b1.begin THEN LowerBoundID ELSE Pv(b, s)
  BY <1>3 DEF getPrev, getSubnetBegin, Pv
<1>5. /\ DOMAIN b2 = DOMAIN b /\ \A x \in DOMAIN b \ {"prev", "isDisassembled"} : b2[x] = b1[x]
      /\ b2.prev = IF s # UpperBoundID /\ (IF s = b1.begin THEN f # LowerBoundID ELSE Pv(b, s) # f)
                     THEN SetAt(b.prev, s, f) ELSE b.prev
  <2>1. CASE s # UpperBoundID /\ getPrev(b1, s) # f
    <3>1. b2 = [b1 EXCEPT !.prev = SetAt(@, s, f), !.isDisassembled = TRUE]
      BY <2>1
    <3>2. IF s = b1.begin THEN f # LowerBoundID ELSE Pv(b, s) # f
      BY <1>4, <2>1
    <3> HIDE DEF b2
    <3> QED
      BY <1>2, <1>3, <2>1, <3>1, <3>2
  <2>2. CASE ~(s # UpperBoundID /\ getPrev(b1, s) # f)
    <3>1. b2 = b1
      BY <2>2
    <3>2. ~(s # UpperBoundID /\ IF s = b1.begin THEN f # LowerBoundID ELSE Pv(b, s) # f)
      BY <1>4, <2>2
    <3> HIDE DEF b2
    <3> QED
      BY <1>2, <1>3, <3>1, <3>2
  <2> QED
    BY <2>1, <2>2
<1> HIDE DEF b2
<1>6. b2.begin = b1.begin /\ b2.end = b1.end /\ b2.next = b.next
  BY <1>5, <1>3
<1>7. f # LowerBoundID => getNext(b2, f) = IF f = b1.end THEN UpperBoundID ELSE Nx(b, f)
  BY <1>3, <1>6 DEF getNext, getSubnetEnd, Nx
<1>8. /\ DOMAIN r = DOMAIN b /\ \A x \in DOMAIN b \ {"next", "isDisassembled"} : r[x] = b2[x]
      /\ r.next = IF f # LowerBoundID /\ (IF f = b1.end THEN s # UpperBoundID ELSE Nx(b, f) # s)
                     THEN SetAt(b.next, f, s) ELSE b.next
  BY <1>5, <1>6, <1>7
<1> HIDE DEF r
<1>9. r.begin = b1.begin /\ r.end = b1.end /\ r.prev = b2.prev
  BY <1>8, <1>6
<1> QED BY <1>1, <1>2, <1>5, <1>8, <1>9

\* getNext and getPrev follow the thread, and step out of it at its ends.
LEMMA ThreadEnds ==
  ASSUME NEW b, Arrays(b), NEW L \in SUBSET DOMAIN b.entries, NEW p, Thread(b, L, p)
  PROVE  /\ b.begin # NormalOrderID /\ b.end # NormalOrderID
         /\ \A x \in L : getNext(b, x) = IF x = b.end THEN UpperBoundID ELSE Nx(b, x)
         /\ \A x \in L : getPrev(b, x) = IF x = b.begin THEN LowerBoundID ELSE Pv(b, x)
         /\ getNext(b, LowerBoundID) = IF L = {} THEN UpperBoundID ELSE b.begin
         /\ getPrev(b, UpperBoundID) = IF L = {} THEN LowerBoundID ELSE b.end
<1>1. \A x \in L : x \in Nat
  BY DEF Arrays
<1>2. /\ b.begin # NormalOrderID /\ b.end # NormalOrderID
      /\ L # {} => b.begin # InvalidID
      /\ L = {} => b.begin = InvalidID
  BY <1>1 DEF Thread, NormalOrderID, InvalidID
<1>3. getSubnetBegin(b) = b.begin /\ getSubnetEnd(b) = b.end
  BY <1>2 DEF getSubnetBegin, getSubnetEnd
<1>4. \A x \in L : x # LowerBoundID /\ x # UpperBoundID
  BY <1>1 DEF LowerBoundID, UpperBoundID
<1>5. \A x \in L : getNext(b, x) = IF x = b.end THEN UpperBoundID ELSE Nx(b, x)
  BY <1>3, <1>4 DEF getNext, Nx
<1>6. \A x \in L : getPrev(b, x) = IF x = b.begin THEN LowerBoundID ELSE Pv(b, x)
  BY <1>3, <1>4 DEF getPrev, Pv
<1>7. getNext(b, LowerBoundID) = IF L = {} THEN UpperBoundID ELSE b.begin
  BY <1>2, <1>3 DEF getNext
<1>8. getPrev(b, UpperBoundID) = IF L = {} THEN LowerBoundID ELSE b.end
  BY <1>2, <1>3 DEF getPrev
<1> QED
  BY <1>2, <1>5, <1>6, <1>7, <1>8

\* setOrder keeps the arrays of links well formed.
LEMMA SetOrderLinking ==
  ASSUME NEW b, IsRec(b), NEW D, DOMAIN b.prev = D, DOMAIN b.next = D, Linking(b.prev, b.next, D),
         NEW f \in D \cup {LowerBoundID}, NEW s \in D \cup {UpperBoundID}
  PROVE  LET r == setOrder(b, f, s) IN IsRec(r) /\ DOMAIN r.prev = D /\ DOMAIN r.next = D /\ Linking(r.prev, r.next, D)
<1> DEFINE b1 == [b EXCEPT
                !.begin = IF s = getSubnetBegin(b) /\ f # LowerBoundID THEN f
                          ELSE IF f = LowerBoundID THEN s ELSE @,
                !.end = IF f = getSubnetEnd(b) /\ s # UpperBoundID THEN s
                        ELSE IF s = UpperBoundID THEN f ELSE @]
           b2 == IF s # UpperBoundID /\ getPrev(b1, s) # f
                 THEN [b1 EXCEPT !.prev = SetAt(@, s, f), !.isDisassembled = TRUE]
                 ELSE b1
           b3 == IF f # LowerBoundID /\ getNext(b2, f) # s
                 THEN [b2 EXCEPT !.next = SetAt(@, f, s), !.isDisassembled = TRUE]
                 ELSE b2
           b0 == [b EXCEPT !.begin = InvalidID, !.end = InvalidID]
<1>1. setOrder(b, f, s) = IF f = LowerBoundID /\ s = UpperBoundID THEN b0 ELSE b3
  BY DEF setOrder
<1>2. b0.prev = b.prev /\ b0.next = b.next /\ IsRec(b0)
  BY DEF IsRec, EmptyBuilder
<1>3. b1.prev = b.prev /\ b1.next = b.next /\ IsRec(b1)
  BY DEF IsRec, EmptyBuilder
<1> HIDE DEF b0, b1
<1>4. IsRec(b2) /\ b2.next = b.next /\ DOMAIN b2.prev = D /\ \A y \in D : b2.prev[y] \in {b.prev[y], f} /\ (f = LowerBoundID \/ f \in D)
  BY <1>3 DEF IsRec, EmptyBuilder, SetAt
<1> HIDE DEF b2
<1>5. IsRec(b3) /\ b3.prev = b2.prev /\ DOMAIN b3.next = D /\ \A y \in D : b3.next[y] = b.next[y] \/ (b3.next[y] = s /\ f # LowerBoundID)
  BY <1>4 DEF IsRec, EmptyBuilder, SetAt
<1> HIDE DEF b3
<1>6. Linking(b3.prev, b3.next, D)
  BY <1>4, <1>5 DEF Linking
<1> QED
  BY <1>1, <1>2, <1>4, <1>5, <1>6

\* placeAfter keeps the arrays of links well formed.
LEMMA PlaceAfterLinking ==
  ASSUME NEW b, Arrays(b), NEW L \in SUBSET DOMAIN b.entries, NEW p, Thread(b, L, p),
         NEW i \in DOMAIN b.entries \ L, NEW x \in L \cup {LowerBoundID}
  PROVE  LET r == placeAfter(b, i, x) IN Linking(r.prev, r.next, DOMAIN b.entries)
<1> DEFINE D == DOMAIN b.entries
           nx == getNext(b, x)
           c == setOrder(b, i, nx)
<1>1. nx \in D \cup {UpperBoundID} /\ x \in D \cup {LowerBoundID} /\ i \in D
  BY ThreadEnds DEF Thread
<1>2. IsRec(b) /\ DOMAIN b.prev = D /\ DOMAIN b.next = D /\ Linking(b.prev, b.next, D)
  BY DEF Arrays
<1>3. IsRec(c) /\ DOMAIN c.prev = D /\ DOMAIN c.next = D /\ Linking(c.prev, c.next, D)
  <2> HIDE DEF nx, D
  <2> QED BY <1>1, <1>2, SetOrderLinking
<1>4. x # InvalidID
  BY DEF Arrays, InvalidID, LowerBoundID
<1>5. placeAfter(b, i, x) = setOrder(c, x, i)
  BY <1>4 DEF placeAfter
<1> HIDE DEF c, D
<1>6. Linking(setOrder(c, x, i).prev, setOrder(c, x, i).next, D)
  BY <1>1, <1>3, SetOrderLinking
<1> QED
  BY <1>5, <1>6 DEF D

\* Joining the neighbours of i keeps the arrays of links well formed.
LEMMA UnlinkLinking ==
  ASSUME NEW b, Arrays(b), NEW L \in SUBSET DOMAIN b.entries, NEW p, Thread(b, L, p),
         NEW i \in L
  PROVE  LET r == setOrder(b, getPrev(b, i), getNext(b, i)) IN Linking(r.prev, r.next, DOMAIN b.entries)
<1> DEFINE D == DOMAIN b.entries
           nx == getNext(b, i)
           pv == getPrev(b, i)
<1>1. nx \in D \cup {UpperBoundID} /\ pv \in D \cup {LowerBoundID}
  <2>1. nx = IF i = b.end THEN UpperBoundID ELSE Nx(b, i)
    BY ThreadEnds
  <2>2. pv = IF i = b.begin THEN LowerBoundID ELSE Pv(b, i)
    BY ThreadEnds
  <2> HIDE DEF nx, pv
  <2>3. (i # b.end => Nx(b, i) \in L) /\ (i # b.begin => Pv(b, i) \in L)
    BY DEF Thread
  <2> QED BY <2>1, <2>2, <2>3
<1>2. IsRec(b) /\ DOMAIN b.prev = D /\ DOMAIN b.next = D /\ Linking(b.prev, b.next, D)
  BY DEF Arrays
<1> HIDE DEF nx, pv, D
<1>3. Linking(setOrder(b, pv, nx).prev, setOrder(b, pv, nx).next, D)
  BY <1>1, <1>2, SetOrderLinking
<1> QED
  BY <1>3 DEF nx, pv, D

\* The positions after i has been inserted behind position k.
Inserted(L, p, i, k) ==
  [y \in L \cup {i} |-> IF y = i THEN k + 1 ELSE IF p[y] > k THEN p[y] + 1 ELSE p[y]]

\* r is the builder b after i has been placed behind x.
Placed(r, b, L, i, x) ==
  /\ Same(r, b, OrderFields)
  /\ DOMAIN r.prev = DOMAIN b.prev /\ DOMAIN r.next = DOMAIN b.next
  /\ r.begin = IF x = LowerBoundID THEN i ELSE b.begin
  /\ r.end = IF x = b.end \/ L = {} THEN i ELSE b.end
  /\ \A y \in L : y # b.end => Nx(r, y) = IF y = x THEN i ELSE Nx(b, y)
  /\ \A y \in L : y # b.begin => Pv(r, y) = IF x # LowerBoundID /\ y = Nx(b, x) /\ x # b.end THEN i ELSE Pv(b, y)
  /\ x # LowerBoundID => Nx(r, x) = i /\ Pv(r, i) = x
  /\ x # LowerBoundID /\ x # b.end => Nx(r, i) = Nx(b, x)
  /\ x = LowerBoundID /\ L # {} => Nx(r, i) = b.begin /\ Pv(r, b.begin) = i

\* placeAfter puts i between x and the cell after x, and changes no other neighbours.
LEMMA PlaceAfterLinks ==
  ASSUME NEW b, Arrays(b), NEW L \in SUBSET DOMAIN b.entries, NEW p, Thread(b, L, p),
         NEW i \in DOMAIN b.entries \ L, NEW x \in L \cup {LowerBoundID}
  PROVE  Placed(placeAfter(b, i, x), b, L, i, x)
<1>1. \A y \in L : y \in Nat
  BY DEF Arrays
<1>2. i \in Nat /\ i # InvalidID /\ i # LowerBoundID /\ i # UpperBoundID /\ i # NormalOrderID
  BY DEF Arrays, InvalidID, LowerBoundID, UpperBoundID, NormalOrderID
<1>3. x # InvalidID /\ x # NormalOrderID /\ x # UpperBoundID
  BY <1>1 DEF InvalidID, NormalOrderID, UpperBoundID, LowerBoundID
<1>4. /\ i \in DOMAIN b.prev /\ i \in DOMAIN b.next /\ DOMAIN b.prev = DOMAIN b.entries /\ DOMAIN b.next = DOMAIN b.entries
      /\ \A y \in L : y \in DOMAIN b.prev /\ y \in DOMAIN b.next
  BY DEF Arrays
<1> DEFINE nx == getNext(b, x)
           c == setOrder(b, i, nx)
           r == setOrder(c, x, i)
<1>5. placeAfter(b, i, x) = r
  BY <1>3 DEF placeAfter
<1>6. /\ b.begin # NormalOrderID /\ b.end # NormalOrderID
      /\ x # LowerBoundID => nx = IF x = b.end THEN UpperBoundID ELSE Nx(b, x)
      /\ x = LowerBoundID => nx = IF L = {} THEN UpperBoundID ELSE b.begin
  BY ThreadEnds
<1>7. nx = UpperBoundID \/ nx \in L
  BY <1>6 DEF Thread
<1>8. nx # NormalOrderID /\ (nx \in L => nx # i /\ nx # UpperBoundID /\ nx # LowerBoundID)
  BY <1>7, <1>1 DEF NormalOrderID, UpperBoundID, LowerBoundID
<1>c. /\ Same(c, b, OrderFields)
      /\ c.begin = IF nx = b.begin THEN i ELSE b.begin
      /\ c.end = IF nx = UpperBoundID THEN i ELSE b.end
      /\ c.prev = IF nx # UpperBoundID /\ (IF nx = c.begin THEN TRUE ELSE Pv(b, nx) # i)
                     THEN SetAt(b.prev, nx, i) ELSE b.prev
      /\ c.next = IF (IF i = c.end THEN nx # UpperBoundID ELSE Nx(b, i) # nx)
                     THEN SetAt(b.next, i, nx) ELSE b.next
  <2>1. IsRec(b) BY DEF Arrays
  <2>2. i # b.end
    BY <1>2 DEF Thread
  <2> HIDE DEF nx
  <2> QED BY <1>2, <1>6, <1>8, <2>1, <2>2, SetOrderFields
<1>d. IsRec(c) /\ c.begin # NormalOrderID /\ c.end # NormalOrderID
  BY <1>c, <1>2, <1>6 DEF IsRec, Same, Arrays
<1>r. /\ Same(r, c, OrderFields)
      /\ r.begin = IF i = c.begin /\ x # LowerBoundID THEN x ELSE IF x = LowerBoundID THEN i ELSE c.begin
      /\ r.end = IF x = c.end THEN i ELSE c.end
      /\ r.prev = IF (i = r.begin /\ x = LowerBoundID) \/ (i # r.begin /\ Pv(c, i) = x) THEN c.prev ELSE SetAt(c.prev, i, x)
      /\ r.next = IF x = LowerBoundID \/ (x # r.end /\ Nx(c, x) = i) THEN c.next ELSE SetAt(c.next, x, i)
  <2> HIDE DEF c
  <2> QED BY <1>2, <1>3, <1>d, SetOrderFields
<1>s. Same(r, b, OrderFields)
  BY <1>c, <1>r DEF Same
<1> HIDE DEF nx, c, r
<1>9. CASE x = LowerBoundID /\ L = {}
  BY <1>2, <1>4, <1>5, <1>6, <1>c, <1>r, <1>s, <1>9 DEF Placed, Thread, Nx, Pv, SetAt
<1>10. CASE x = LowerBoundID /\ L # {}
  <2>1. nx = b.begin /\ nx \in L /\ nx # UpperBoundID /\ nx # i
    BY <1>6, <1>8, <1>10 DEF Thread
  <2>a. i # b.end /\ i # b.begin
    BY <1>10 DEF Thread
  <2>b. c.begin = i /\ c.end = b.end
    BY <1>c, <2>1
  <2>2. c.prev = IF Pv(b, nx) # i THEN SetAt(b.prev, nx, i) ELSE b.prev
    BY <1>c, <2>1, <2>b
  <2>3. c.next = IF Nx(b, i) # nx THEN SetAt(b.next, i, nx) ELSE b.next
    BY <1>c, <2>1, <2>a, <2>b
  <2>4. r.begin = i /\ r.end = b.end /\ r.prev = c.prev /\ r.next = c.next
    <3>1. x # c.end
      BY <1>1, <2>b, <1>10 DEF Thread, LowerBoundID
    <3> QED
      BY <1>r, <2>b, <1>10, <3>1
  <2>5. \A y \in L : Nx(r, y) = Nx(b, y)
    BY <2>3, <2>4, <1>4 DEF Nx, SetAt
  <2>6. \A y \in L : y # b.begin => Pv(r, y) = Pv(b, y)
    BY <2>2, <2>4, <2>1, <1>4 DEF Pv, SetAt
  <2>7. Nx(r, i) = b.begin /\ Pv(r, b.begin) = i
    BY <2>1, <2>2, <2>3, <2>4, <1>2, <1>4, <1>8 DEF Nx, Pv, SetAt
  <2>8. \A y \in L : y # x
    BY <1>1, <1>10 DEF LowerBoundID
  <2> QED
    <3>1. DOMAIN r.prev = DOMAIN b.prev /\ DOMAIN r.next = DOMAIN b.next
      BY <2>2, <2>3, <2>4 DEF SetAt
    <3>2. x # b.end
      BY <1>1, <1>10 DEF Thread, LowerBoundID
    <3> QED
      BY <1>5, <1>s, <1>10, <2>4, <2>5, <2>6, <2>7, <2>8, <3>1, <3>2 DEF Placed
<1>11. CASE x \in L /\ x = b.end
  <2>1. nx = UpperBoundID /\ x # LowerBoundID /\ x # i /\ b.begin \in L /\ nx # b.begin /\ i # b.begin
    BY <1>1, <1>6, <1>11 DEF Thread, LowerBoundID, UpperBoundID
  <2>2. c.begin = b.begin /\ c.end = i /\ c.prev = b.prev /\ c.next = b.next
    BY <1>c, <2>1
  <2>3. r.begin = b.begin /\ r.end = i
    BY <1>r, <2>1, <2>2
  <2>4. /\ r.prev = IF Pv(b, i) = x THEN b.prev ELSE SetAt(b.prev, i, x)
        /\ r.next = IF Nx(b, x) = i THEN b.next ELSE SetAt(b.next, x, i)
    <3>1. Pv(c, i) = Pv(b, i) /\ Nx(c, x) = Nx(b, x)
      BY <2>2 DEF Pv, Nx
    <3> QED
      BY <1>r, <2>1, <2>2, <2>3, <3>1
  <2>5. DOMAIN r.prev = DOMAIN b.prev /\ DOMAIN r.next = DOMAIN b.next
    BY <2>4 DEF SetAt
  <2>6. \A y \in L \cup {i} : Nx(r, y) = IF y = x THEN i ELSE Nx(b, y)
    BY <2>4, <2>1, <1>2, <1>4, <1>11 DEF Nx, SetAt
  <2>7. \A y \in L \cup {i} : Pv(r, y) = IF y = i THEN x ELSE Pv(b, y)
    BY <2>4, <2>1, <1>3, <1>4, <1>11 DEF Pv, SetAt
  <2> QED
    BY <1>5, <1>s, <1>11, <2>1, <2>3, <2>5, <2>6, <2>7 DEF Placed
<1>12. CASE x \in L /\ x # b.end
  <2>1. nx = Nx(b, x) /\ nx \in L /\ nx # i /\ nx # b.begin /\ x # i /\ nx # UpperBoundID /\ x # LowerBoundID
    <3>1. nx = Nx(b, x) /\ nx \in L /\ p[nx] = p[x] + 1 /\ p[x] \in Nat /\ p[x] > 0
      BY <1>6, <1>12, <1>1 DEF Thread, LowerBoundID
    <3> QED
      BY <3>1, <1>1, <1>12, <1>8 DEF Thread, LowerBoundID
  <2>2. c.begin = b.begin /\ c.end = b.end /\ i # b.begin /\ i # b.end
    BY <1>c, <2>1, <1>12 DEF Thread
  <2>3. /\ c.prev = IF Pv(b, nx) # i THEN SetAt(b.prev, nx, i) ELSE b.prev
        /\ c.next = IF Nx(b, i) # nx THEN SetAt(b.next, i, nx) ELSE b.next
    BY <1>c, <2>1, <2>2
  <2>4. r.begin = b.begin /\ r.end = b.end
    BY <1>r, <2>2, <2>1, <1>12
  <2>5. /\ r.prev = IF Pv(c, i) # x THEN SetAt(c.prev, i, x) ELSE c.prev
        /\ r.next = IF Nx(c, x) # i THEN SetAt(c.next, x, i) ELSE c.next
    BY <1>r, <2>2, <2>1, <2>4, <1>12
  <2>6. \A y \in L \cup {i} : Nx(r, y) = IF y = x THEN i ELSE IF y = i THEN nx ELSE Nx(b, y)
    BY <2>3, <2>5, <2>1, <1>2, <1>3, <1>4, <1>8, <1>12 DEF Nx, SetAt
  <2>7. \A y \in L \cup {i} : Pv(r, y) = IF y = nx THEN i ELSE IF y = i THEN x ELSE Pv(b, y)
    BY <2>3, <2>5, <2>1, <1>2, <1>3, <1>4, <1>8, <1>12 DEF Pv, SetAt
  <2>8. DOMAIN r.prev = DOMAIN b.prev /\ DOMAIN r.next = DOMAIN b.next
    BY <2>3, <2>5 DEF SetAt
  <2>9. x # b.end /\ L # {} /\ i \notin L
    BY <1>12
  <2> QED
    BY <1>5, <1>s, <2>1, <2>4, <2>6, <2>7, <2>8, <2>9 DEF Placed
<1> QED
  BY <1>9, <1>10, <1>11, <1>12

\* After placeAfter the thread has one more cell, at the position after x.
LEMMA PlaceAfterThread ==
  ASSUME NEW b, Arrays(b), NEW L \in SUBSET DOMAIN b.entries, IsFiniteSet(L), NEW p, Thread(b, L, p),
         NEW i \in DOMAIN b.entries \ L, NEW x \in L \cup {LowerBoundID}
  PROVE  Thread(placeAfter(b, i, x), L \cup {i}, Inserted(L, p, i, IF x = LowerBoundID THEN 0 ELSE p[x]))
<1> DEFINE r == placeAfter(b, i, x)
           k == IF x = LowerBoundID THEN 0 ELSE p[x]
           q == Inserted(L, p, i, k)
           M == L \cup {i}
           N == Cardinality(L)
<1>1. /\ r.begin = IF x = LowerBoundID THEN i ELSE b.begin
      /\ r.end = IF x = b.end \/ L = {} THEN i ELSE b.end
      /\ \A y \in L : y # b.end => Nx(r, y) = IF y = x THEN i ELSE Nx(b, y)
      /\ \A y \in L : y # b.begin => Pv(r, y) = IF x # LowerBoundID /\ y = Nx(b, x) /\ x # b.end THEN i ELSE Pv(b, y)
      /\ x # LowerBoundID => Nx(r, x) = i /\ Pv(r, i) = x
      /\ x # LowerBoundID /\ x # b.end => Nx(r, i) = Nx(b, x)
      /\ x = LowerBoundID /\ L # {} => Nx(r, i) = b.begin /\ Pv(r, b.begin) = i
  <2>1. Placed(r, b, L, i, x)
    BY PlaceAfterLinks
  <2> QED
    BY <2>1 DEF Placed
<1>2. N \in Nat /\ Cardinality(M) = N + 1 /\ (N = 0 <=> L = {})
  BY FS_AddElement, FS_CardinalityType, FS_EmptySet
<1>3. /\ \A y \in L : p[y] \in 1 .. N /\ y # LowerBoundID /\ y # i
      /\ k \in 0 .. N /\ i # LowerBoundID
      /\ \A y, z \in L : p[y] = p[z] => y = z
  BY <1>2 DEF Thread, Arrays, LowerBoundID
<1>4. L # {} => b.begin \in L /\ b.end \in L /\ p[b.begin] = 1 /\ p[b.end] = N
  BY DEF Thread
<1>5. /\ \A y \in L : y # b.end => Nx(b, y) \in L /\ p[Nx(b, y)] = p[y] + 1
      /\ \A y \in L : y # b.begin => Pv(b, y) \in L /\ p[Pv(b, y)] = p[y] - 1
  BY DEF Thread
<1>6. i \notin L
  OBVIOUS
<1>7. DOMAIN q = M /\ q[i] = k + 1 /\ \A y \in L : q[y] = IF p[y] > k THEN p[y] + 1 ELSE p[y]
  BY DEF Inserted
<1>8. (x = LowerBoundID /\ k = 0) \/ (x \in L /\ x # LowerBoundID /\ k = p[x])
  BY <1>3
<1> HIDE DEF r, k, q, N
<1>9. q \in [M -> 1 .. N + 1]
  <2>1. \A y \in M : q[y] \in 1 .. N + 1
    BY <1>2, <1>3, <1>7
  <2>2. q = [y \in M |-> q[y]]
    BY <1>7 DEF Inserted, q
  <2> QED
    BY <2>1, <2>2
<1>10. ASSUME NEW y \in M, NEW z \in M, q[y] = q[z] PROVE y = z
  BY <1>2, <1>3, <1>7, <1>10
<1>11. r.begin \in M /\ q[r.begin] = 1
  BY <1>1, <1>2, <1>3, <1>4, <1>7, <1>8
<1>12. r.end \in M /\ q[r.end] = N + 1
  BY <1>1, <1>2, <1>3, <1>4, <1>7, <1>8
<1>13. ASSUME NEW y \in M, y # r.end PROVE Nx(r, y) \in M /\ q[Nx(r, y)] = q[y] + 1
  <2>1. CASE y = i
    <3>1. x # b.end /\ L # {}
      BY <1>1, <1>13, <2>1
    <3>2. CASE x = LowerBoundID
      BY <3>1, <3>2, <2>1, <1>1, <1>4, <1>7, <1>8
    <3>3. CASE x # LowerBoundID
      BY <3>1, <3>3, <2>1, <1>1, <1>3, <1>5, <1>7, <1>8, <1>2
    <3> QED BY <3>2, <3>3
  <2>2. CASE y = x
    <3>1. x \in L
      BY <2>2, <1>8, <1>6, <1>13, <1>3
    <3> QED
      BY <2>2, <3>1, <1>1, <1>3, <1>7, <1>8
  <2>3. CASE y # i /\ y # x
    <3>1. y \in L /\ y # b.end
      BY <2>3, <1>1, <1>13, <1>4, <1>12
    <3>2. Nx(r, y) = Nx(b, y) /\ Nx(b, y) \in L /\ p[Nx(b, y)] = p[y] + 1
      BY <3>1, <2>3, <1>1, <1>5
    <3>3. p[y] # k
      BY <3>1, <2>3, <1>3, <1>8, <1>2
    <3> QED
      BY <3>1, <3>2, <3>3, <1>3, <1>7, <1>2
  <2> QED
    BY <2>1, <2>2, <2>3
<1>14. ASSUME NEW y \in M, y # r.begin PROVE Pv(r, y) \in M /\ q[Pv(r, y)] = q[y] - 1
  <2>1. CASE y = i
    BY <2>1, <1>1, <1>14, <1>3, <1>7, <1>8
  <2>2. CASE y # i /\ y = b.begin
    <3>1. x = LowerBoundID
      BY <2>2, <1>1, <1>14
    <3> QED
      BY <2>2, <3>1, <1>1, <1>4, <1>7, <1>8, <1>14
  <2>3. CASE y # i /\ y # b.begin
    <3>1. y \in L /\ Pv(b, y) \in L /\ p[Pv(b, y)] = p[y] - 1 /\ p[y] \in 1 .. N /\ p[Pv(b, y)] \in 1 .. N
      BY <2>3, <1>5, <1>3
    <3>2. CASE x # LowerBoundID /\ y = Nx(b, x) /\ x # b.end
      <4>1. Pv(r, y) = i /\ p[y] = k + 1
        BY <3>1, <3>2, <1>1, <1>5, <1>8, <2>3
      <4> QED
        BY <3>1, <4>1, <1>7, <1>3, <1>2
    <3>3. CASE ~(x # LowerBoundID /\ y = Nx(b, x) /\ x # b.end)
      <4>1. Pv(r, y) = Pv(b, y)
        BY <3>1, <3>3, <1>1, <2>3
      <4>2. p[y] # k + 1
        <5>1. CASE x = LowerBoundID
          BY <5>1, <3>1, <1>8, <1>2, <1>3
        <5>2. CASE x = b.end /\ x # LowerBoundID
          BY <5>2, <3>1, <1>8, <1>2, <1>3, <1>4
        <5>3. CASE x # LowerBoundID /\ x # b.end /\ y # Nx(b, x)
          BY <5>3, <3>1, <1>8, <1>3, <1>5
        <5> QED BY <3>3, <5>1, <5>2, <5>3
      <4> QED
        BY <3>1, <4>1, <4>2, <1>7, <1>3, <1>2
    <3> QED BY <3>2, <3>3
  <2> QED
    BY <2>1, <2>2, <2>3
<1>15. M # {}
  OBVIOUS
<1> HIDE DEF M
<1>16. Thread(r, M, q)
  BY <1>2, <1>9, <1>10, <1>11, <1>12, <1>13, <1>14, <1>15 DEF Thread
<1> QED
  BY <1>16 DEF r, M, q, k

\* The positions after i has been taken out.
Removed(L, p, i) == [y \in L \ {i} |-> IF p[y] > p[i] THEN p[y] - 1 ELSE p[y]]

\* r is the builder b after i has been taken out of its order.
Unlinked(r, b, L, i) ==
  /\ Same(r, b, OrderFields)
  /\ DOMAIN r.prev = DOMAIN b.prev /\ DOMAIN r.next = DOMAIN b.next
  /\ L = {i} => r.begin = InvalidID /\ r.end = InvalidID
  /\ L # {i} /\ i = b.begin => r.begin = Nx(b, i)
  /\ i # b.begin => r.begin = b.begin
  /\ L # {i} /\ i = b.end => r.end = Pv(b, i)
  /\ i # b.end => r.end = b.end
  /\ \A y \in L \ {i} : y # b.end /\ y # r.end => Nx(r, y) = IF Nx(b, y) = i THEN Nx(b, i) ELSE Nx(b, y)
  /\ \A y \in L \ {i} : y # b.begin /\ y # r.begin => Pv(r, y) = IF Pv(b, y) = i THEN Pv(b, i) ELSE Pv(b, y)

\* Joining the neighbours of i takes i out, and changes no other neighbours.
LEMMA UnlinkLinks ==
  ASSUME NEW b, Arrays(b), NEW L \in SUBSET DOMAIN b.entries, IsFiniteSet(L), NEW p, Thread(b, L, p),
         NEW i \in L
  PROVE  Unlinked(setOrder(b, getPrev(b, i), getNext(b, i)), b, L, i)
<1> DEFINE f == getPrev(b, i)
           s == getNext(b, i)
           r == setOrder(b, f, s)
           N == Cardinality(L)
<1>1. /\ b.begin # NormalOrderID /\ b.end # NormalOrderID
      /\ s = IF i = b.end THEN UpperBoundID ELSE Nx(b, i)
      /\ f = IF i = b.begin THEN LowerBoundID ELSE Pv(b, i)
  BY ThreadEnds
<1>2. /\ b.begin \in L /\ b.end \in L /\ p[b.begin] = 1 /\ p[b.end] = N /\ N \in Nat
      /\ \A y \in L : p[y] \in 1 .. N /\ y # LowerBoundID /\ y # UpperBoundID /\ y # NormalOrderID /\ y \in DOMAIN b.prev /\ y \in DOMAIN b.next
      /\ \A y, z \in L : p[y] = p[z] => y = z
      /\ \A y \in L : y # b.end => Nx(b, y) \in L /\ p[Nx(b, y)] = p[y] + 1
      /\ \A y \in L : y # b.begin => Pv(b, y) \in L /\ p[Pv(b, y)] = p[y] - 1
  BY FS_CardinalityType DEF Thread, Arrays, LowerBoundID, UpperBoundID, NormalOrderID
<1>3. IsRec(b)
  BY DEF Arrays
<1> HIDE DEF f, s, r, N
<1>4. L = {i} <=> (i = b.begin /\ i = b.end)
  <2>1. ASSUME i = b.begin, i = b.end, NEW y \in L PROVE y = i
    BY <2>1, <1>2
  <2> QED BY <2>1, <1>2
<1>5. CASE L = {i}
  <2>1. f = LowerBoundID /\ s = UpperBoundID
    BY <1>1, <1>4, <1>5
  <2>2. r = [b EXCEPT !.begin = InvalidID, !.end = InvalidID]
    BY <2>1 DEF setOrder, r
  <2>3. Same(r, b, OrderFields) /\ r.begin = InvalidID /\ r.end = InvalidID /\ r.prev = b.prev /\ r.next = b.next
    BY <2>2, <1>3 DEF IsRec, EmptyBuilder, Same, OrderFields
  <2> QED
    BY <2>3, <1>5, <1>4 DEF r, f, s, Unlinked
<1>6. CASE L # {i}
  <2>1. ~(f = LowerBoundID /\ s = UpperBoundID)
    BY <1>1, <1>2, <1>4, <1>6
  <2>2. f # NormalOrderID /\ s # NormalOrderID /\ s # b.begin /\ f # b.end
    <3>1. CASE i = b.begin
      BY <3>1, <1>1, <1>2 DEF LowerBoundID, NormalOrderID, UpperBoundID
    <3>2. CASE i # b.begin
      BY <3>2, <1>1, <1>2 DEF LowerBoundID, NormalOrderID, UpperBoundID
    <3> QED BY <3>1, <3>2
  <2>3. /\ Same(r, b, OrderFields)
        /\ r.begin = IF f = LowerBoundID THEN s ELSE b.begin
        /\ r.end = IF s = UpperBoundID THEN f ELSE b.end
        /\ r.prev = IF s # UpperBoundID /\ (IF s = r.begin THEN f # LowerBoundID ELSE Pv(b, s) # f)
                     THEN SetAt(b.prev, s, f) ELSE b.prev
        /\ r.next = IF f # LowerBoundID /\ (IF f = r.end THEN s # UpperBoundID ELSE Nx(b, f) # s)
                     THEN SetAt(b.next, f, s) ELSE b.next
    BY <1>1, <1>3, <2>1, <2>2, SetOrderFields DEF r
  <2>4. DOMAIN r.prev = DOMAIN b.prev /\ DOMAIN r.next = DOMAIN b.next
    BY <2>3 DEF SetAt
  <2>5. CASE i = b.begin
    <3>1. f = LowerBoundID /\ s = Nx(b, i) /\ s \in L /\ s # UpperBoundID /\ i # b.end
      BY <1>1, <1>2, <1>4, <1>6, <2>5
    <3>2. r.begin = s /\ r.end = b.end /\ r.prev = b.prev /\ r.next = b.next
      BY <2>3, <3>1
    <3>3. \A y \in L \ {i} : y # b.end => Nx(r, y) = Nx(b, y) /\ Nx(b, y) # i
      BY <3>2, <1>2, <2>5 DEF Nx
    <3>4. \A y \in L \ {i} : y # b.begin /\ y # r.begin => Pv(r, y) = Pv(b, y) /\ Pv(b, y) # i
      BY <3>1, <3>2, <1>2, <2>5 DEF Pv
    <3> QED
      BY <1>6, <2>3, <2>4, <2>5, <3>1, <3>2, <3>3, <3>4 DEF r, f, s, Unlinked
  <2>6. CASE i = b.end
    <3>1. s = UpperBoundID /\ f = Pv(b, i) /\ f \in L /\ f # LowerBoundID /\ i # b.begin
      BY <1>1, <1>2, <1>4, <1>6, <2>6
    <3>2. r.begin = b.begin /\ r.end = f /\ r.prev = b.prev /\ r.next = b.next
      BY <2>3, <3>1
    <3>3. \A y \in L \ {i} : y # b.end /\ y # r.end => Nx(r, y) = Nx(b, y) /\ Nx(b, y) # i
      BY <3>1, <3>2, <1>2, <2>6 DEF Nx
    <3>4. \A y \in L \ {i} : y # b.begin => Pv(r, y) = Pv(b, y) /\ Pv(b, y) # i
      BY <3>1, <3>2, <1>2, <2>6 DEF Pv
    <3> QED
      BY <1>6, <2>3, <2>4, <2>6, <3>1, <3>2, <3>3, <3>4 DEF r, f, s, Unlinked
  <2>7. CASE i # b.begin /\ i # b.end
    <3>1. s = Nx(b, i) /\ f = Pv(b, i) /\ f \in L /\ s \in L /\ f # LowerBoundID /\ s # UpperBoundID
      BY <1>1, <1>2, <2>7
    <3>2. r.begin = b.begin /\ r.end = b.end /\ s # r.begin /\ f # r.end
      BY <2>3, <3>1, <2>2
    <3>3. /\ r.prev = IF Pv(b, s) # f THEN SetAt(b.prev, s, f) ELSE b.prev
          /\ r.next = IF Nx(b, f) # s THEN SetAt(b.next, f, s) ELSE b.next
      BY <2>3, <3>1, <3>2
    <3>4. \A y \in L \ {i} : Nx(r, y) = IF y = f THEN s ELSE Nx(b, y)
      BY <3>3, <3>1, <1>2 DEF Nx, SetAt
    <3>5. \A y \in L \ {i} : Pv(r, y) = IF y = s THEN f ELSE Pv(b, y)
      BY <3>3, <3>1, <1>2 DEF Pv, SetAt
    <3>6. \A y \in L \ {i} : y # b.end => (Nx(b, y) = i <=> y = f)
      BY <3>1, <1>2, <2>7
    <3>7. \A y \in L \ {i} : y # b.begin => (Pv(b, y) = i <=> y = s)
      BY <3>1, <1>2, <2>7
    <3> QED
      BY <1>6, <2>3, <2>4, <2>7, <3>1, <3>2, <3>4, <3>5, <3>6, <3>7 DEF r, f, s, Unlinked
  <2> QED
    BY <2>5, <2>6, <2>7
<1> QED
  BY <1>5, <1>6

\* When the neighbours of i have been joined, the thread has lost i.
LEMMA UnlinkThread ==
  ASSUME NEW b, Arrays(b), NEW L \in SUBSET DOMAIN b.entries, IsFiniteSet(L), NEW p, Thread(b, L, p),
         NEW i \in L
  PROVE  Thread(setOrder(b, getPrev(b, i), getNext(b, i)), L \ {i}, Removed(L, p, i))
<1> DEFINE r == setOrder(b, getPrev(b, i), getNext(b, i))
           q == Removed(L, p, i)
           M == L \ {i}
           N == Cardinality(L)
<1>1. Unlinked(r, b, L, i)
  BY UnlinkLinks
<1> HIDE DEF r
<1>2. N \in Nat /\ Cardinality(M) = N - 1 /\ N > 0
  BY FS_RemoveElement, FS_CardinalityType, FS_EmptySet
<1>3. /\ \A y \in L : p[y] \in 1 .. N
      /\ \A y, z \in L : p[y] = p[z] => y = z
      /\ b.begin \in L /\ b.end \in L /\ p[b.begin] = 1 /\ p[b.end] = N
      /\ \A y \in L : y # b.end => Nx(b, y) \in L /\ p[Nx(b, y)] = p[y] + 1
      /\ \A y \in L : y # b.begin => Pv(b, y) \in L /\ p[Pv(b, y)] = p[y] - 1
  BY DEF Thread
<1>4. DOMAIN q = M /\ \A y \in M : q[y] = IF p[y] > p[i] THEN p[y] - 1 ELSE p[y]
  BY DEF Removed
<1>5. q = [y \in M |-> q[y]]
  BY DEF Removed
<1> HIDE DEF q, N
<1>6. \A y \in M : q[y] \in 1 .. N - 1
  BY <1>2, <1>3, <1>4
<1>7. q \in [M -> 1 .. N - 1]
  BY <1>5, <1>6
<1>8. ASSUME NEW y \in M, NEW z \in M, q[y] = q[z] PROVE y = z
  BY <1>2, <1>3, <1>4, <1>8
<1>9. M = {} => r.begin = InvalidID /\ r.end = InvalidID
  BY <1>1 DEF Unlinked
<1>10. ASSUME M # {} PROVE r.begin \in M /\ q[r.begin] = 1
  <2>1. L # {i}
    BY <1>10
  <2>2. CASE i = b.begin
    <3>1. i # b.end
      BY <2>1, <2>2, <1>3
    <3> QED
      BY <2>1, <2>2, <3>1, <1>1, <1>2, <1>3, <1>4 DEF Unlinked
  <2>3. CASE i # b.begin
    BY <2>3, <1>1, <1>2, <1>3, <1>4 DEF Unlinked
  <2> QED BY <2>2, <2>3
<1>11. ASSUME M # {} PROVE r.end \in M /\ q[r.end] = N - 1
  <2>1. L # {i}
    BY <1>11
  <2>2. CASE i = b.end
    <3>1. i # b.begin
      BY <2>1, <2>2, <1>3
    <3> QED
      BY <2>1, <2>2, <3>1, <1>1, <1>2, <1>3, <1>4 DEF Unlinked
  <2>3. CASE i # b.end
    BY <2>3, <1>1, <1>2, <1>3, <1>4 DEF Unlinked
  <2> QED BY <2>2, <2>3
<1>12. ASSUME NEW y \in M, y # r.end PROVE Nx(r, y) \in M /\ q[Nx(r, y)] = q[y] + 1
  <2>1. y # b.end
    BY <1>12, <1>1, <1>3 DEF Unlinked
  <2>2. Nx(r, y) = IF Nx(b, y) = i THEN Nx(b, i) ELSE Nx(b, y)
    BY <1>12, <1>1, <2>1 DEF Unlinked
  <2>3. CASE Nx(b, y) = i
    <3>1. i # b.end
      <4>1. ASSUME i = b.end PROVE FALSE
        <5>1. L # {i} /\ r.end = Pv(b, i) /\ i # b.begin
          BY <4>1, <1>1, <1>3 DEF Unlinked
        <5>2. p[Pv(b, i)] = p[i] - 1 /\ p[i] = p[y] + 1 /\ Pv(b, i) \in L
          BY <5>1, <2>1, <2>3, <1>3
        <5> QED
          BY <5>1, <5>2, <1>3, <1>12
      <4> QED BY <4>1
    <3> QED
      BY <2>1, <2>2, <2>3, <3>1, <1>3, <1>4
  <2>4. CASE Nx(b, y) # i
    BY <2>1, <2>2, <2>4, <1>3, <1>4
  <2> QED BY <2>3, <2>4
<1>13. ASSUME NEW y \in M, y # r.begin PROVE Pv(r, y) \in M /\ q[Pv(r, y)] = q[y] - 1
  <2>1. y # b.begin
    BY <1>13, <1>1, <1>3 DEF Unlinked
  <2>2. Pv(r, y) = IF Pv(b, y) = i THEN Pv(b, i) ELSE Pv(b, y)
    BY <1>13, <1>1, <2>1 DEF Unlinked
  <2>3. CASE Pv(b, y) = i
    <3>1. i # b.begin
      <4>1. ASSUME i = b.begin PROVE FALSE
        <5>0. p[i] = p[y] - 1 /\ p[y] \in 1 .. N /\ L # {i}
          BY <2>1, <2>3, <1>3
        <5>a. i # b.end
          BY <5>0, <1>2, <1>3
        <5>1. L # {i} /\ r.begin = Nx(b, i) /\ i # b.end
          BY <4>1, <1>1, <5>0, <5>a DEF Unlinked
        <5>2. p[Nx(b, i)] = p[i] + 1 /\ p[i] = p[y] - 1 /\ Nx(b, i) \in L
          BY <5>1, <2>1, <2>3, <1>3
        <5> QED
          BY <5>1, <5>2, <1>3, <1>13
      <4> QED BY <4>1
    <3> QED
      BY <2>1, <2>2, <2>3, <3>1, <1>3, <1>4
  <2>4. CASE Pv(b, y) # i
    BY <2>1, <2>2, <2>4, <1>3, <1>4
  <2> QED BY <2>3, <2>4
<1> HIDE DEF M
<1>14. Thread(r, M, q)
  BY <1>2, <1>7, <1>8, <1>9, <1>10, <1>11, <1>12, <1>13 DEF Thread
<1> QED
  BY <1>14 DEF r, M, q

-----------------------------------------------------------------------------
(* Positions and depth bounds.                                             *)

\* p gives the elements of L different positions.
IsOrder(L, p) == p \in [L -> Nat] /\ \A x, y \in L : p[x] = p[y] => x = y

\* Taking i out keeps the order of the others.
LEMMA RemovedOrder ==
  ASSUME NEW L, NEW p, IsOrder(L, p), NEW i \in L
  PROVE  LET q == Removed(L, p, i) IN
         \A x, y \in L \ {i} : /\ q[x] < q[y] <=> p[x] < p[y]
                               /\ q[x] <= q[y] <=> p[x] <= p[y]
                               /\ q[x] \in Int /\ p[x] \in Nat
BY DEF IsOrder, Removed

\* Inserting i behind position k keeps the order of the others.
LEMMA InsertedOrder ==
  ASSUME NEW L, NEW p, IsOrder(L, p), NEW i, i \notin L, NEW k \in Nat
  PROVE  LET q == Inserted(L, p, i, k) IN
         /\ \A x, y \in L : /\ q[x] < q[y] <=> p[x] < p[y]
                            /\ q[x] <= q[y] <=> p[x] <= p[y]
         /\ \A x \in L : /\ q[x] < q[i] <=> p[x] <= k
                         /\ q[i] < q[x] <=> p[x] > k
                         /\ q[x] <= q[i] <=> p[x] <= k
                         /\ q[i] <= q[x] <=> p[x] > k
                         /\ p[x] \in Nat
         /\ q[i] <= q[i]
BY DEF IsOrder, Inserted

\* The bounds u of depth d.
Bound(In, p, dep, d, u) ==
  \/ u = NoBounds /\ \A x \in In : dep[x] # d
  \/ \E f, l \in In : /\ u = <<f, l>> /\ dep[f] = d /\ dep[l] = d
                      /\ \A x \in In : dep[x] = d => p[f] <= p[x] /\ p[x] <= p[l]

\* The depths of the inner cells In grow along the order p, outputs come last, and the
\* depth bounds bnd name the first and the last cell of every depth.
Levels(In, L, p, dep, bnd) ==
  /\ In \subseteq L
  /\ \E m \in Nat : DOMAIN bnd = 0 .. m - 1
  /\ \A x \in In, y \in L \ In : p[x] < p[y]
  /\ \A x, y \in In : dep[x] < dep[y] => p[x] < p[y]
  /\ \A x \in In : dep[x] \in DOMAIN bnd
  /\ \A d \in DOMAIN bnd : Bound(In, p, dep, d, bnd[d])

\* deleteDepthBounds
AfterRemoval(bounds, i, prev, next) ==
  CASE bounds[1] = bounds[2] -> NoBounds
    [] bounds[1] # bounds[2] /\ bounds[1] = i -> <<next, bounds[2]>>
    [] bounds[1] # bounds[2] /\ bounds[1] # i /\ bounds[2] = i -> <<bounds[1], prev>>
    [] OTHER -> bounds

\* The bounds are exact again when a cell has gone and deleteDepthBounds has adapted
\* the bounds of its depth.
LEMMA RemoveLevels ==
  ASSUME NEW L, NEW p, IsOrder(L, p), NEW In, NEW dep, NEW bnd, Levels(In, L, p, dep, bnd), NEW i \in In,
         NEW prev, NEW next,
         \A y \in L : p[y] < p[i] => prev \in L /\ p[prev] = p[i] - 1,
         \A y \in L : p[y] > p[i] => next \in L /\ p[next] = p[i] + 1
  PROVE  Levels(In \ {i}, L \ {i}, Removed(L, p, i), dep,
                SetAt(bnd, dep[i], AfterRemoval(bnd[dep[i]], i, prev, next)))
<1> DEFINE q == Removed(L, p, i)
           d == dep[i]
           u == bnd[d]
           a == AfterRemoval(u, i, prev, next)
           bnd2 == SetAt(bnd, d, a)
<1>1. \A x, y \in L \ {i} : /\ q[x] < q[y] <=> p[x] < p[y]
                            /\ q[x] <= q[y] <=> p[x] <= p[y]
  BY RemovedOrder DEF Levels
<1>2. /\ \A x \in L : p[x] \in Nat
      /\ \A x, y \in L : p[x] = p[y] => x = y
  BY DEF IsOrder
<1>3. /\ In \subseteq L
      /\ \A x \in In, y \in L \ In : p[x] < p[y]
      /\ \A x, y \in In : dep[x] < dep[y] => p[x] < p[y]
      /\ \A x \in In : dep[x] \in DOMAIN bnd /\ dep[x] \in Nat
      /\ \A e \in DOMAIN bnd : Bound(In, p, dep, e, bnd[e])
  BY DEF Levels
<1>4. DOMAIN bnd2 = DOMAIN bnd /\ \A e \in DOMAIN bnd : bnd2[e] = IF e = d THEN a ELSE bnd[e]
  BY DEF SetAt
<1> HIDE DEF q
<1>5. PICK f, l \in In : /\ u = <<f, l>> /\ dep[f] = d /\ dep[l] = d
                         /\ \A x \in In : dep[x] = d => p[f] <= p[x] /\ p[x] <= p[l]
  BY <1>3 DEF Bound
<1>6. a = IF f = l THEN NoBounds ELSE IF f = i THEN <<next, l>> ELSE IF l = i THEN <<f, prev>> ELSE <<f, l>>
  BY <1>5 DEF AfterRemoval
<1>7. Bound(In \ {i}, q, dep, d, a)
  <2>1. CASE f = l
    <3>1. \A x \in In \ {i} : dep[x] # d
      BY <1>2, <1>3, <1>5, <2>1
    <3> QED BY <3>1, <2>1, <1>6 DEF Bound
  <2>2. CASE f # l /\ f = i
    <3>1. p[l] > p[i] /\ next \in L /\ p[next] = p[i] + 1
      BY <1>2, <1>3, <1>5, <2>2
    <3>2. next \in In /\ next # i /\ l # i
      BY <3>1, <1>2, <1>3, <2>2
    <3>3. dep[next] = d
      <4>1. ~(dep[next] < d) /\ ~(dep[l] < dep[next])
        BY <3>1, <3>2, <1>2, <1>3
      <4> QED BY <4>1, <3>2, <1>3, <1>5
    <3>4. \A x \in In \ {i} : dep[x] = d => q[next] <= q[x] /\ q[x] <= q[l]
      <4> TAKE x \in In \ {i}
      <4> HAVE dep[x] = d
      <4>1. p[i] <= p[x] /\ p[x] # p[i] /\ p[x] <= p[l]
        BY <1>2, <1>3, <1>5, <2>2
      <4>2. p[next] <= p[x]
        BY <4>1, <3>1, <1>2, <1>3
      <4> QED BY <4>1, <4>2, <1>1, <1>3, <3>1, <3>2
    <3> QED BY <3>2, <3>3, <3>4, <2>2, <1>5, <1>6 DEF Bound
  <2>3. CASE f # l /\ f # i /\ l = i
    <3>1. p[f] < p[i] /\ prev \in L /\ p[prev] = p[i] - 1
      BY <1>2, <1>3, <1>5, <2>3
    <3>2. prev \in In /\ prev # i
      BY <3>1, <1>2, <1>3, <2>3
    <3>3. dep[prev] = d
      <4>1. ~(dep[prev] < dep[f]) /\ ~(d < dep[prev])
        BY <3>1, <3>2, <1>2, <1>3
      <4> QED BY <4>1, <3>2, <1>3, <1>5
    <3>4. \A x \in In \ {i} : dep[x] = d => q[f] <= q[x] /\ q[x] <= q[prev]
      <4> TAKE x \in In \ {i}
      <4> HAVE dep[x] = d
      <4>1. p[x] <= p[i] /\ p[x] # p[i] /\ p[f] <= p[x]
        BY <1>2, <1>3, <1>5, <2>3
      <4>2. p[x] <= p[prev]
        BY <4>1, <3>1, <1>2, <1>3
      <4> QED BY <4>1, <4>2, <1>1, <1>3, <3>1, <3>2, <2>3
    <3> QED BY <3>2, <3>3, <3>4, <2>3, <1>5, <1>6 DEF Bound
  <2>4. CASE f # l /\ f # i /\ l # i
    <3>1. \A x \in In \ {i} : dep[x] = d => q[f] <= q[x] /\ q[x] <= q[l]
      BY <1>1, <1>3, <1>5, <2>4
    <3> QED BY <3>1, <2>4, <1>5, <1>6 DEF Bound
  <2> QED BY <2>1, <2>2, <2>3, <2>4
<1>8. ASSUME NEW e \in DOMAIN bnd, e # d PROVE Bound(In \ {i}, q, dep, e, bnd[e])
  <2>1. CASE bnd[e] = NoBounds /\ \A x \in In : dep[x] # e
    BY <2>1 DEF Bound
  <2>2. CASE \E g, h \in In : /\ bnd[e] = <<g, h>> /\ dep[g] = e /\ dep[h] = e
                              /\ \A x \in In : dep[x] = e => p[g] <= p[x] /\ p[x] <= p[h]
    <3>1. PICK g, h \in In : /\ bnd[e] = <<g, h>> /\ dep[g] = e /\ dep[h] = e
                             /\ \A x \in In : dep[x] = e => p[g] <= p[x] /\ p[x] <= p[h]
      BY <2>2
    <3>2. g # i /\ h # i
      BY <3>1, <1>8
    <3>3. \A x \in In \ {i} : dep[x] = e => q[g] <= q[x] /\ q[x] <= q[h]
      BY <3>1, <3>2, <1>1, <1>3
    <3> QED BY <3>1, <3>2, <3>3 DEF Bound
  <2>3. Bound(In, p, dep, e, bnd[e])
    BY <1>3
  <2> QED BY <2>1, <2>2, <2>3 DEF Bound
<1>9. \A e \in DOMAIN bnd2 : Bound(In \ {i}, q, dep, e, bnd2[e])
  BY <1>4, <1>7, <1>8
<1>10. /\ In \ {i} \subseteq L \ {i}
       /\ \E m \in Nat : DOMAIN bnd2 = 0 .. m - 1
       /\ \A x \in In \ {i}, y \in (L \ {i}) \ (In \ {i}) : q[x] < q[y]
       /\ \A x, y \in In \ {i} : dep[x] < dep[y] => q[x] < q[y]
       /\ \A x \in In \ {i} : dep[x] \in DOMAIN bnd2
  <2>1. \E m \in Nat : DOMAIN bnd2 = 0 .. m - 1
    BY <1>4 DEF Levels
  <2> QED
    BY <1>1, <1>3, <1>4, <2>1
<1> HIDE DEF bnd2
<1>11. Levels(In \ {i}, L \ {i}, q, dep, bnd2)
  BY <1>9, <1>10 DEF Levels
<1> QED
  BY <1>11 DEF bnd2, q

\* A new depth has empty bounds.
LEMMA GrowLevels ==
  ASSUME NEW L, NEW p, NEW In, NEW dep, NEW bnd, Levels(In, L, p, dep, bnd), NEW d \in Nat
  PROVE  LET g == IF d \in DOMAIN bnd THEN bnd ELSE Grow(bnd, d + 1, NoBounds) IN
         Levels(In, L, p, dep, g) /\ d \in DOMAIN g
<1> DEFINE g == Grow(bnd, d + 1, NoBounds)
<1>1. CASE d \in DOMAIN bnd
  BY <1>1
<1>2. CASE d \notin DOMAIN bnd
  <2>1. PICK m \in Nat : DOMAIN bnd = 0 .. m - 1
    BY DEF Levels
  <2>2. m <= d
    BY <2>1, <1>2
  <2>3. DOMAIN g = 0 .. d /\ \A e \in 0 .. d : g[e] = IF e \in DOMAIN bnd THEN bnd[e] ELSE NoBounds
    BY <2>1, <2>2 DEF Grow
  <2>4. d + 1 \in Nat /\ DOMAIN g = 0 .. (d + 1) - 1
    BY <2>3
  <2>5. \A x \in In : dep[x] \in DOMAIN g /\ dep[x] \in DOMAIN bnd
    BY <2>1, <2>2, <2>3 DEF Levels
  <2>6. \A e \in DOMAIN g : Bound(In, p, dep, e, g[e])
    <3> TAKE e \in DOMAIN g
    <3>1. CASE e \in DOMAIN bnd
      BY <3>1, <2>3 DEF Levels
    <3>2. CASE e \notin DOMAIN bnd
      BY <3>2, <2>3, <2>5 DEF Bound
    <3> QED BY <3>1, <3>2
  <2> HIDE DEF g
  <2>7. Levels(In, L, p, dep, g) /\ d \in DOMAIN g
    BY <2>3, <2>4, <2>5, <2>6 DEF Levels
  <2> QED
    BY <2>7, <1>2 DEF g
<1> QED
  BY <1>1, <1>2

\* An output at the end of the order changes no bounds.
LEMMA AddOut ==
  ASSUME NEW L, NEW p, IsOrder(L, p), NEW In, NEW dep, NEW bnd, Levels(In, L, p, dep, bnd),
         NEW i, i \notin L, NEW k \in Nat, \A x \in L : p[x] <= k
  PROVE  Levels(In, L \cup {i}, Inserted(L, p, i, k), dep, bnd)
<1> DEFINE q == Inserted(L, p, i, k)
<1>1. /\ \A x, y \in L : /\ q[x] < q[y] <=> p[x] < p[y]
                         /\ q[x] <= q[y] <=> p[x] <= p[y]
      /\ \A x \in L : q[x] < q[i]
  BY InsertedOrder
<1> HIDE DEF q
<1>2. In \subseteq L
  BY DEF Levels
<1>3. ASSUME NEW d \in DOMAIN bnd PROVE Bound(In, q, dep, d, bnd[d])
  <2>1. Bound(In, p, dep, d, bnd[d])
    BY DEF Levels
  <2> QED
    BY <2>1, <1>1, <1>2 DEF Bound
<1>4. /\ \A x \in In, y \in (L \cup {i}) \ In : q[x] < q[y]
      /\ \A x, y \in In : dep[x] < dep[y] => q[x] < q[y]
  BY <1>1, <1>2 DEF Levels
<1>5. Levels(In, L \cup {i}, q, dep, bnd)
  BY <1>2, <1>3, <1>4 DEF Levels
<1> QED
  BY <1>5 DEF q

\* The bounds are exact again when a cell has been placed between the lower and the
\* higher depths and the bounds of its depth name it where it is first or last.
LEMMA AddInner ==
  ASSUME NEW L, NEW p, IsOrder(L, p), NEW In, NEW dep, NEW bnd, Levels(In, L, p, dep, bnd),
         NEW i, i \notin L, NEW k \in Nat, dep[i] \in DOMAIN bnd,
         \A x \in In : dep[x] < dep[i] => p[x] <= k,
         \A x \in In : dep[x] > dep[i] => p[x] > k,
         \A x \in L \ In : p[x] > k,
         NEW u, Bound(In \cup {i}, Inserted(L, p, i, k), dep, dep[i], u)
  PROVE  Levels(In \cup {i}, L \cup {i}, Inserted(L, p, i, k), dep, SetAt(bnd, dep[i], u))
<1> DEFINE q == Inserted(L, p, i, k)
           d == dep[i]
           bnd2 == SetAt(bnd, d, u)
           J == In \cup {i}
<1>1. /\ \A x, y \in L : /\ q[x] < q[y] <=> p[x] < p[y]
                         /\ q[x] <= q[y] <=> p[x] <= p[y]
      /\ \A x \in L : /\ q[x] < q[i] <=> p[x] <= k
                      /\ q[i] < q[x] <=> p[x] > k
  BY InsertedOrder
<1> HIDE DEF q
<1>2. /\ In \subseteq L /\ i \notin In
      /\ \A x \in In, y \in L \ In : p[x] < p[y]
      /\ \A x, y \in In : dep[x] < dep[y] => p[x] < p[y]
      /\ \A x \in In : dep[x] \in DOMAIN bnd
      /\ \A e \in DOMAIN bnd : Bound(In, p, dep, e, bnd[e])
  BY DEF Levels
<1>3. DOMAIN bnd2 = DOMAIN bnd /\ \A e \in DOMAIN bnd : bnd2[e] = IF e = d THEN u ELSE bnd[e]
  BY DEF SetAt
<1>4. \E m \in Nat : DOMAIN bnd2 = 0 .. m - 1
  BY <1>3 DEF Levels
<1>5. \A x \in J, y \in (L \cup {i}) \ J : q[x] < q[y]
  BY <1>1, <1>2
<1>6. \A x \in J : dep[x] \in Nat
  BY <1>2 DEF Levels
<1>7. \A x, y \in J : dep[x] < dep[y] => q[x] < q[y]
  BY <1>1, <1>2, <1>6
<1>8. ASSUME NEW e \in DOMAIN bnd, e # d PROVE Bound(J, q, dep, e, bnd[e])
  <2>1. CASE bnd[e] = NoBounds /\ \A x \in In : dep[x] # e
    BY <2>1, <1>8 DEF Bound
  <2>2. CASE \E g, h \in In : /\ bnd[e] = <<g, h>> /\ dep[g] = e /\ dep[h] = e
                              /\ \A x \in In : dep[x] = e => p[g] <= p[x] /\ p[x] <= p[h]
    <3>1. PICK g, h \in In : /\ bnd[e] = <<g, h>> /\ dep[g] = e /\ dep[h] = e
                             /\ \A x \in In : dep[x] = e => p[g] <= p[x] /\ p[x] <= p[h]
      BY <2>2
    <3>2. \A x \in J : dep[x] = e => q[g] <= q[x] /\ q[x] <= q[h]
      BY <3>1, <1>1, <1>2, <1>8
    <3> QED BY <3>1, <3>2 DEF Bound
  <2>3. Bound(In, p, dep, e, bnd[e])
    BY <1>2
  <2> QED BY <2>1, <2>2, <2>3 DEF Bound
<1>9. Bound(J, q, dep, d, u)
  BY DEF q
<1>10. \A e \in DOMAIN bnd2 : Bound(J, q, dep, e, bnd2[e])
  BY <1>3, <1>8, <1>9
<1>11. J \subseteq L \cup {i} /\ \A x \in J : dep[x] \in DOMAIN bnd2
  BY <1>2, <1>3
<1> HIDE DEF bnd2, J, d
<1>12. Levels(J, L \cup {i}, q, dep, bnd2)
  BY <1>4, <1>5, <1>7, <1>10, <1>11 DEF Levels
<1> QED
  BY <1>12 DEF bnd2, q, J, d

\* The first cell of a depth.
LEMMA BoundFirst ==
  ASSUME NEW L, NEW p, IsOrder(L, p), NEW In \in SUBSET L, NEW dep, NEW i, i \notin L, NEW k \in Nat,
         \A x \in In : dep[x] # dep[i]
  PROVE  Bound(In \cup {i}, Inserted(L, p, i, k), dep, dep[i], <<i, i>>)
<1>1. Inserted(L, p, i, k)[i] <= Inserted(L, p, i, k)[i]
  BY InsertedOrder
<1> QED
  BY <1>1 DEF Bound

\* A cell after the last one of its depth.
LEMMA BoundLast ==
  ASSUME NEW L, NEW p, IsOrder(L, p), NEW In \in SUBSET L, NEW dep, NEW i, i \notin L,
         NEW f \in In, NEW l \in In, dep[f] = dep[i], dep[l] = dep[i],
         \A x \in In : dep[x] = dep[i] => p[f] <= p[x] /\ p[x] <= p[l]
  PROVE  Bound(In \cup {i}, Inserted(L, p, i, p[l]), dep, dep[i], <<f, i>>)
<1> DEFINE q == Inserted(L, p, i, p[l])
<1>1. /\ \A x, y \in L : q[x] <= q[y] <=> p[x] <= p[y]
      /\ \A x \in L : q[x] <= q[i] <=> p[x] <= p[l]
      /\ q[i] <= q[i]
  <2>1. p[l] \in Nat
    BY DEF IsOrder
  <2> QED BY <2>1, InsertedOrder
<1> HIDE DEF q
<1>2. \A x \in In \cup {i} : dep[x] = dep[i] => q[f] <= q[x] /\ q[x] <= q[i]
  BY <1>1
<1>3. Bound(In \cup {i}, q, dep, dep[i], <<f, i>>)
  BY <1>2 DEF Bound
<1> QED
  BY <1>3 DEF q

\* A cell inside its depth.
LEMMA BoundInside ==
  ASSUME NEW L, NEW p, IsOrder(L, p), NEW In \in SUBSET L, NEW dep, NEW i, i \notin L,
         NEW f \in In, NEW l \in In, dep[f] = dep[i], dep[l] = dep[i],
         \A x \in In : dep[x] = dep[i] => p[f] <= p[x] /\ p[x] <= p[l],
         NEW k \in Nat, p[f] <= k, k < p[l]
  PROVE  Bound(In \cup {i}, Inserted(L, p, i, k), dep, dep[i], <<f, l>>)
<1> DEFINE q == Inserted(L, p, i, k)
<1>1. /\ \A x, y \in L : q[x] <= q[y] <=> p[x] <= p[y]
      /\ \A x \in L : (q[x] <= q[i] <=> p[x] <= k) /\ (q[i] <= q[x] <=> p[x] > k) /\ p[x] \in Nat
  BY InsertedOrder
<1> HIDE DEF q
<1>2. \A x \in In \cup {i} : dep[x] = dep[i] => q[f] <= q[x] /\ q[x] <= q[l]
  BY <1>1
<1>3. Bound(In \cup {i}, q, dep, dep[i], <<f, l>>)
  BY <1>2 DEF Bound
<1> QED
  BY <1>3 DEF q

-----------------------------------------------------------------------------
(* Placing a cell by its depth.                                            *)

\* One iteration of lastNonConst.
SkipLoop(b, x, k) == SkipConst(b, x)

\* The loop of lastNonConst has runs.
Skips == INSTANCE LoopProofs WITH Step <- SkipLoop

\* lastNonConst is the last state of a run of its loop.
LEMMA LastNonConstRun ==
  ASSUME NEW b, NEW i, Size(b.entries) \in Nat
  PROVE  \E back : /\ back[0] = i
                   /\ \A k \in 1 .. Size(b.entries) : back[k] = SkipConst(b, back[k - 1])
                   /\ lastNonConst(b, i) = back[Size(b.entries)]
<1> DEFINE N == Size(b.entries)
           back == CHOOSE f : f = [k \in 0 .. N |-> IF k = 0 THEN i ELSE SkipConst(b, f[k - 1])]
<1>1. \E f : f = [k \in 0 .. N |-> IF k = 0 THEN i ELSE SkipConst(b, f[k - 1])]
  <2>1. \E f : Skips!IsRun(f, b, i, N)
    BY Skips!RunExists, LeastNumbers DEF Skips!WellOrdered
  <2> QED
    BY <2>1 DEF Skips!IsRun, SkipLoop
<1>2. back = [k \in 0 .. N |-> IF k = 0 THEN i ELSE SkipConst(b, back[k - 1])]
  BY <1>1
<1>3. lastNonConst(b, i) = back[N]
  BY DEF lastNonConst
<1> HIDE DEF back
<1>4. /\ back[0] = i
      /\ \A k \in 1 .. N : back[k] = SkipConst(b, back[k - 1])
  BY <1>2
<1> QED
  BY <1>3, <1>4

\* Induction over an interval.
LEMMA IntervalInduction ==
  ASSUME NEW N \in Nat, NEW S, 0 \in S, \A k \in 0 .. N - 1 : k \in S => k + 1 \in S
  PROVE  \A k \in 0 .. N : k \in S
<1> DEFINE T == (0 .. N) \ S
<1>1. ASSUME T # {} PROVE FALSE
  <2>0. T \in SUBSET Nat
    OBVIOUS
  <2>1. PICK n \in T : \A m \in T : n <= m
    <3> HIDE DEF T
    <3> QED
      BY <1>1, <2>0, LeastNumber
  <2>2. n \in 1 .. N /\ n - 1 \in 0 .. N - 1 /\ n - 1 \notin T
    BY <2>1
  <2> QED
    BY <2>1, <2>2
<1> QED
  BY <1>1

\* The constant cells.
Consts == {"ZERO", "ONE"}

\* lastNonConst goes back over constants to the last cell that is none: the place after
\* which an input is put, when constants stand at depth 0 too.
LEMMA LastNonConst ==
  ASSUME NEW b, Arrays(b), NEW L \in SUBSET DOMAIN b.entries, IsFiniteSet(L), NEW p, Thread(b, L, p),
         Size(b.entries) \in Nat, Cardinality(L) <= Size(b.entries),
         NEW l \in L, NEW x \in L, b.entries[x].type \notin Consts, p[x] <= p[l]
  PROVE  LET z == lastNonConst(b, l) IN
         /\ z \in L /\ b.entries[z].type \notin Consts /\ p[z] <= p[l]
         /\ \A y \in L : p[z] < p[y] /\ p[y] <= p[l] => b.entries[y].type \in Consts
<1> DEFINE N == Size(b.entries)
<1>1. PICK back : /\ back[0] = l
                  /\ \A k \in 1 .. N : back[k] = SkipConst(b, back[k - 1])
                  /\ lastNonConst(b, l) = back[N]
  BY LastNonConstRun
<1> HIDE DEF N
<1>2. /\ \A y \in L : p[y] \in 1 .. Cardinality(L) /\ y # LowerBoundID
      /\ \A y, z \in L : p[y] = p[z] => y = z
      /\ \A y \in L : y # b.begin => Pv(b, y) \in L /\ p[Pv(b, y)] = p[y] - 1
      /\ p[b.begin] = 1
      /\ Cardinality(L) \in Nat /\ N \in Nat /\ Cardinality(L) <= N
  BY FS_CardinalityType DEF Thread, Arrays, LowerBoundID, N
<1>3. \A y \in L : getPrev(b, y) = IF y = b.begin THEN LowerBoundID ELSE Pv(b, y)
  BY ThreadEnds
<1> DEFINE P(k) == /\ back[k] \in L /\ p[back[k]] <= p[l] /\ p[x] <= p[back[k]]
                   /\ \A y \in L : p[back[k]] < p[y] /\ p[y] <= p[l] => b.entries[y].type \in Consts
                   /\ b.entries[back[k]].type \in Consts => p[back[k]] <= p[l] - k
           S == {k \in 0 .. N : P(k)}
<1>4. 0 \in S
  <2>1. P(0)
    BY <1>1, <1>2
  <2> QED
    BY <2>1, <1>2
<1>5. ASSUME NEW k \in 0 .. N - 1, k \in S PROVE k + 1 \in S
  <2>1. back[k + 1] = SkipConst(b, back[k])
    <3>1. k + 1 \in 1 .. N /\ (k + 1) - 1 = k
      BY <1>2
    <3> QED
      BY <1>1, <3>1
  <2>2. P(k)
    BY <1>5
  <2>3. CASE b.entries[back[k]].type \in Consts
    <3>1. back[k] # x /\ p[x] < p[back[k]] /\ back[k] # b.begin
      BY <2>2, <2>3, <1>2
    <3>2. back[k + 1] = Pv(b, back[k])
      BY <2>1, <2>2, <2>3, <3>1, <1>2, <1>3 DEF SkipConst, Consts
    <3>3. back[k + 1] \in L /\ p[back[k + 1]] = p[back[k]] - 1
      BY <3>1, <3>2, <2>2, <1>2
    <3>4. P(k + 1)
      <4>1. \A y \in L : p[back[k + 1]] < p[y] /\ p[y] <= p[l] => y = back[k] \/ p[back[k]] < p[y]
        BY <3>3, <2>2, <1>2
      <4> QED
        BY <4>1, <3>1, <3>3, <2>2, <2>3, <1>2
    <3> QED
      BY <3>4, <1>2
  <2>4. CASE b.entries[back[k]].type \notin Consts
    <3>1. back[k + 1] = back[k]
      BY <2>1, <2>4 DEF SkipConst, Consts
    <3>2. P(k + 1)
      BY <3>1, <2>2, <2>4
    <3> QED
      BY <3>2, <1>2
  <2> QED
    BY <2>3, <2>4
<1>6. N \in S
  <2> HIDE DEF S
  <2> QED
    BY <1>2, <1>4, <1>5, IntervalInduction
<1>7. P(N)
  BY <1>6
<1>8. b.entries[back[N]].type \notin Consts
  BY <1>7, <1>2
<1> QED
  BY <1>1, <1>7, <1>8

\* A thread depends on the links and the ends of the order only.
LEMMA ThreadFields ==
  ASSUME NEW b, NEW c, NEW L, NEW p, Thread(b, L, p),
         c.prev = b.prev, c.next = b.next, c.begin = b.begin, c.end = b.end
  PROVE  Thread(c, L, p)
BY DEF Thread, Nx, Pv

\* The fields that placing and unplacing a cell changes.
BoundFields == OrderFields \cup {"depthBounds"}

\* deleteDepthBounds takes cell i out of the order and keeps the bounds exact.
LEMMA DeleteBounds ==
  ASSUME NEW b, Arrays(b), NEW L \in SUBSET DOMAIN b.entries, IsFiniteSet(L), NEW p, Thread(b, L, p),
         NEW In, Levels(In, L, p, b.depth, b.depthBounds), NEW i \in In
  PROVE  LET r == deleteDepthBounds(b, i) IN
         /\ Same(r, b, BoundFields)
         /\ Arrays(r)
         /\ Thread(r, L \ {i}, Removed(L, p, i))
         /\ Levels(In \ {i}, L \ {i}, Removed(L, p, i), b.depth, r.depthBounds)
         /\ DOMAIN r.depthBounds = DOMAIN b.depthBounds
<1> DEFINE d == b.depth[i]
           pv == getPrev(b, i)
           nx == getNext(b, i)
           bnd == SetAt(b.depthBounds, d, AfterRemoval(b.depthBounds[d], i, pv, nx))
           c == [b EXCEPT !.depthBounds = bnd]
           r == setOrder(c, pv, nx)
<1>1. i \in L /\ d \in DOMAIN b.depthBounds
  BY DEF Levels
<1>2. deleteDepthBounds(b, i) = r
  BY <1>1 DEF deleteDepthBounds, AfterRemoval
<1>3. /\ Same(c, b, {"depthBounds"}) /\ c.depthBounds = bnd
      /\ c.prev = b.prev /\ c.next = b.next /\ c.begin = b.begin /\ c.end = b.end
      /\ c.entries = b.entries /\ c.depth = b.depth /\ IsRec(c)
  BY DEF Arrays, IsRec, EmptyBuilder, Same
<1> HIDE DEF c
<1>4. Thread(c, L, p) /\ Arrays(c) /\ L \in SUBSET DOMAIN c.entries
  BY <1>3, ThreadFields DEF Arrays
<1>5. pv = getPrev(c, i) /\ nx = getNext(c, i)
  <2>1. Pv(c, i) = Pv(b, i) /\ Nx(c, i) = Nx(b, i)
    BY <1>3 DEF Pv, Nx
  <2>2. /\ pv = IF i = b.begin THEN LowerBoundID ELSE Pv(b, i)
        /\ nx = IF i = b.end THEN UpperBoundID ELSE Nx(b, i)
    BY <1>1, ThreadEnds
  <2>3. /\ getPrev(c, i) = IF i = c.begin THEN LowerBoundID ELSE Pv(c, i)
        /\ getNext(c, i) = IF i = c.end THEN UpperBoundID ELSE Nx(c, i)
    BY <1>1, <1>4, ThreadEnds
  <2> QED
    BY <2>1, <2>2, <2>3, <1>3
<1>6. /\ \A y \in L : p[y] < p[i] => pv \in L /\ p[pv] = p[i] - 1
      /\ \A y \in L : p[y] > p[i] => nx \in L /\ p[nx] = p[i] + 1
  <2>1. /\ pv = IF i = b.begin THEN LowerBoundID ELSE Pv(b, i)
        /\ nx = IF i = b.end THEN UpperBoundID ELSE Nx(b, i)
    BY <1>1, ThreadEnds
  <2>2. \A y \in L : p[y] \in 1 .. Cardinality(L)
    BY DEF Thread
  <2>3. Cardinality(L) \in Nat
    BY FS_CardinalityType
  <2> QED
    BY <1>1, <2>1, <2>2, <2>3 DEF Thread
<1>7. IsOrder(L, p)
  BY FS_CardinalityType DEF Thread, IsOrder
<1>8. Levels(In \ {i}, L \ {i}, Removed(L, p, i), b.depth, bnd)
  <2> HIDE DEF pv, nx
  <2> QED
    BY <1>6, <1>7, RemoveLevels
<1> HIDE DEF bnd, pv, nx
<1>9. Unlinked(r, c, L, i) /\ Thread(r, L \ {i}, Removed(L, p, i))
  BY <1>1, <1>4, <1>5, UnlinkLinks, UnlinkThread
<1>x. Linking(r.prev, r.next, DOMAIN b.entries)
  BY <1>1, <1>3, <1>4, <1>5, UnlinkLinking
<1> HIDE DEF r
<1>10. Same(r, b, BoundFields)
  BY <1>3, <1>9 DEF Unlinked, Same, BoundFields
<1>11. r.depthBounds = bnd /\ r.entries = b.entries /\ r.depth = b.depth /\ IsRec(r)
  BY <1>3, <1>9 DEF Unlinked, Same, OrderFields, IsRec, EmptyBuilder
<1>12. Arrays(r)
  BY <1>3, <1>9, <1>11, <1>x DEF Unlinked, Arrays
<1>13. DOMAIN bnd = DOMAIN b.depthBounds
  BY DEF bnd, SetAt
<1> QED
  BY <1>2, <1>8, <1>9, <1>10, <1>11, <1>12, <1>13

\* The cells of L other than outputs.
Inner(b, L) == {x \in L : b.entries[x].type # "OUT"}

\* Inputs have depth 0 and come first, only constants share that depth with them, and
\* there is an input.
InsFirst(b, L, p) ==
  /\ \A x \in L : b.entries[x].type = "IN" => b.depth[x] = 0
  /\ \A x, y \in L : b.entries[x].type = "IN" /\ b.entries[y].type # "IN" => p[x] < p[y]
  /\ \A x \in L : b.entries[x].type # "OUT" /\ b.depth[x] = 0 => b.entries[x].type \in {"IN", "ZERO", "ONE"}
  /\ L # {} => \E x \in L : b.entries[x].type = "IN"

\* L is threaded in the order p, by depths, inputs first and outputs last.
Ordered(b, L, p) ==
  /\ Arrays(b)
  /\ L \subseteq DOMAIN b.entries /\ IsFiniteSet(L)
  /\ Thread(b, L, p)
  /\ Levels(Inner(b, L), L, p, b.depth, b.depthBounds)
  /\ InsFirst(b, L, p)

\* Levels with equal bounds.
LEMMA LevelsEqual ==
  ASSUME NEW In, NEW L, NEW p, NEW dep, NEW bnd, NEW bnd2, Levels(In, L, p, dep, bnd),
         DOMAIN bnd2 = DOMAIN bnd, \A e \in DOMAIN bnd : bnd2[e] = bnd[e]
  PROVE  Levels(In, L, p, dep, bnd2)
BY DEF Levels

\* Cell i may be given a place.
MayAdd(b, L, i) ==
  LET d == b.depth[i]
      t == b.entries[i].type
  IN  /\ i \in DOMAIN b.entries \ L /\ d \in Nat
      /\ t # "IN" => L # {}
      /\ t = "IN" => d = 0
      /\ t # "OUT" /\ d = 0 => t \in {"IN", "ZERO", "ONE"}
      /\ t # "OUT" /\ d > 0 => \E x \in Inner(b, L) : b.depth[x] = d - 1

\* A cell placed behind the inputs, or an input behind inputs only, keeps inputs first.
LEMMA InsertIns ==
  ASSUME NEW b, NEW L, NEW p, InsFirst(b, L, p), IsOrder(L, p), NEW i, i \notin L, NEW k \in Nat,
         MayAdd(b, L, i),
         \A x \in L : b.entries[x].type = "IN" => p[x] <= k,
         b.entries[i].type = "IN" => \A x \in L : b.entries[x].type # "IN" => p[x] > k
  PROVE  InsFirst(b, L \cup {i}, Inserted(L, p, i, k))
<1> DEFINE q == Inserted(L, p, i, k)
<1>1. /\ \A x, y \in L : q[x] < q[y] <=> p[x] < p[y]
      /\ \A x \in L : /\ q[x] < q[i] <=> p[x] <= k
                      /\ q[i] < q[x] <=> p[x] > k
  BY InsertedOrder
<1> HIDE DEF q
<1>2. InsFirst(b, L \cup {i}, q)
  BY <1>1 DEF InsFirst, MayAdd
<1> QED
  BY <1>2 DEF q

\* What addDepthBounds(b, i) does to the order.
AddedAt(r, b, L, p, i, k) ==
  /\ Same(r, b, BoundFields)
  /\ Ordered(r, L \cup {i}, Inserted(L, p, i, k))

\* addDepthBounds places cell i where its depth belongs and keeps the bounds exact.
LEMMA AddBounds ==
  ASSUME NEW b, NEW L, NEW p, Ordered(b, L, p), NEW i, MayAdd(b, L, i),
         Size(b.entries) \in Nat, Cardinality(L) <= Size(b.entries)
  PROVE  \E k \in Nat : AddedAt(addDepthBounds(b, i), b, L, p, i, k)
<1> DEFINE d == b.depth[i]
           t == b.entries[i].type
           In == Inner(b, L)
           g == IF d \in DOMAIN b.depthBounds THEN b.depthBounds ELSE Grow(b.depthBounds, d + 1, NoBounds)
           b1 == IF d \in DOMAIN b.depthBounds THEN b
                 ELSE [b EXCEPT !.depthBounds = Grow(@, d + 1, NoBounds)]
           u == g[d]
           r == addDepthBounds(b, i)
<1>0. /\ Arrays(b) /\ L \subseteq DOMAIN b.entries /\ IsFiniteSet(L) /\ Thread(b, L, p)
      /\ Levels(In, L, p, b.depth, b.depthBounds) /\ InsFirst(b, L, p)
      /\ d \in Nat /\ i \in DOMAIN b.entries \ L /\ i \notin L /\ IsRec(b)
  BY DEF Ordered, MayAdd, Arrays
<1>1. /\ Same(b1, b, {"depthBounds"}) /\ b1.depthBounds = g /\ IsRec(b1)
      /\ b1.entries = b.entries /\ b1.depth = b.depth
      /\ b1.prev = b.prev /\ b1.next = b.next /\ b1.begin = b.begin /\ b1.end = b.end
  BY <1>0 DEF IsRec, EmptyBuilder, Same
<1>2. Levels(In, L, p, b.depth, g) /\ d \in DOMAIN g
  BY <1>0, GrowLevels
<1> DEFINE pivot == IF d = 0 /\ t = "IN" THEN lastNonConst(b1, u[2]) ELSE u[2]
<1>3. r = CASE t = "OUT" -> placeAfter(b1, i, getSubnetEnd(b1))
            [] t # "OUT" /\ u[1] = InvalidID ->
                 placeAfter([b1 EXCEPT !.depthBounds = SetAt(@, d, <<i, i>>)], i,
                            IF d = 0 THEN LowerBoundID ELSE g[d - 1][2])
            [] OTHER ->
                 LET b2 == placeAfter(b1, i, pivot)
                 IN  IF u[2] = pivot THEN [b2 EXCEPT !.depthBounds = SetAt(@, d, <<u[1], i>>)] ELSE b2
  BY <1>1 DEF addDepthBounds
<1> SUFFICES \E k \in Nat : AddedAt(r, b, L, p, i, k)
  OBVIOUS
<1> HIDE DEF b1, g, r, pivot
<1>4. /\ Thread(b1, L, p) /\ Arrays(b1) /\ L \in SUBSET DOMAIN b1.entries /\ i \in DOMAIN b1.entries \ L
      /\ Size(b1.entries) \in Nat /\ Cardinality(L) <= Size(b1.entries)
  BY <1>0, <1>1, ThreadFields DEF Arrays
<1>5. IsOrder(L, p) /\ Cardinality(L) \in Nat /\ \A x \in L : p[x] \in 1 .. Cardinality(L)
  BY <1>0, FS_CardinalityType DEF Thread, IsOrder
<1>6. /\ In \subseteq L
      /\ \A x \in In, y \in L \ In : p[x] < p[y]
      /\ \A x, y \in In : b.depth[x] < b.depth[y] => p[x] < p[y]
      /\ \A x \in In : b.depth[x] \in Nat
      /\ \A e \in DOMAIN g : Bound(In, p, b.depth, e, g[e])
      /\ \E m \in Nat : DOMAIN g = 0 .. m - 1
  BY <1>2 DEF Levels
<1>7. IsFiniteSet(L \cup {i}) /\ L \cup {i} \subseteq DOMAIN b.entries
  BY <1>0, FS_AddElement
<1> DEFINE Ok(c, k, bnd) == /\ Same(c, b1, OrderFields \cup {"depthBounds"}) /\ Thread(c, L \cup {i}, Inserted(L, p, i, k))
                            /\ DOMAIN c.prev = DOMAIN b.entries /\ DOMAIN c.next = DOMAIN b.entries
                            /\ Linking(c.prev, c.next, DOMAIN b.entries)
                            /\ c.depthBounds = bnd

\* the placing step
<1>8. ASSUME NEW c, Same(c, b1, {"depthBounds"}), NEW x \in L \cup {LowerBoundID}
      PROVE  Ok(placeAfter(c, i, x), IF x = LowerBoundID THEN 0 ELSE p[x], c.depthBounds)
  <2>1. /\ IsRec(c) /\ c.entries = b.entries /\ c.depth = b.depth
        /\ c.prev = b1.prev /\ c.next = b1.next /\ c.begin = b1.begin /\ c.end = b1.end
    BY <1>8, <1>1 DEF Same, IsRec, EmptyBuilder
  <2>2. Arrays(c) /\ Thread(c, L, p) /\ L \in SUBSET DOMAIN c.entries /\ i \in DOMAIN c.entries \ L
    BY <2>1, <1>0, <1>1, <1>4, ThreadFields DEF Arrays
  <2>3. Placed(placeAfter(c, i, x), c, L, i, x)
    BY <2>2, <1>8, PlaceAfterLinks
  <2>4. Thread(placeAfter(c, i, x), L \cup {i}, Inserted(L, p, i, IF x = LowerBoundID THEN 0 ELSE p[x]))
    BY <2>2, <1>0, <1>8, PlaceAfterThread
  <2>5. Same(placeAfter(c, i, x), b1, OrderFields \cup {"depthBounds"})
    BY <2>3, <1>8 DEF Placed, Same
  <2>6. placeAfter(c, i, x).depthBounds = c.depthBounds
    BY <2>3, <2>1 DEF Placed, Same, IsRec, EmptyBuilder, OrderFields
  <2>7. DOMAIN placeAfter(c, i, x).prev = DOMAIN b.entries /\ DOMAIN placeAfter(c, i, x).next = DOMAIN b.entries
    BY <2>1, <2>2, <2>3 DEF Placed, Arrays
  <2>8. Linking(placeAfter(c, i, x).prev, placeAfter(c, i, x).next, DOMAIN b.entries)
    BY <2>1, <2>2, <1>8, PlaceAfterLinking
  <2> QED BY <2>4, <2>5, <2>6, <2>7, <2>8

\* the combining step
<1>9. ASSUME NEW k \in Nat, NEW bnd, Ok(r, k, bnd),
             Levels(Inner(b, L \cup {i}), L \cup {i}, Inserted(L, p, i, k), b.depth, bnd),
             \A x \in L : b.entries[x].type = "IN" => p[x] <= k,
             t = "IN" => \A x \in L : b.entries[x].type # "IN" => p[x] > k
      PROVE  AddedAt(r, b, L, p, i, k)
  <2>1. Same(r, b, BoundFields)
    BY <1>9, <1>1 DEF Same, BoundFields
  <2>2. IsRec(r) /\ r.entries = b.entries /\ r.depth = b.depth /\ r.depthBounds = bnd
    BY <1>9, <2>1, <1>0 DEF Same, BoundFields, OrderFields, IsRec, EmptyBuilder
  <2>3. Arrays(r)
    BY <2>2, <1>9, <1>0 DEF Arrays
  <2>4. InsFirst(b, L \cup {i}, Inserted(L, p, i, k))
    BY <1>0, <1>5, <1>9, InsertIns
  <2>5. InsFirst(r, L \cup {i}, Inserted(L, p, i, k))
    BY <2>2, <2>4 DEF InsFirst
  <2>6. Inner(r, L \cup {i}) = Inner(b, L \cup {i})
    BY <2>2 DEF Inner
  <2> QED
    BY <2>1, <2>2, <2>3, <2>5, <2>6, <1>7, <1>9 DEF AddedAt, Ordered
<1> HIDE DEF Ok
<1>10. CASE t = "OUT"
  <2>1. L # {}
    BY <1>10 DEF MayAdd
  <2>2. b1.end \in L /\ p[b1.end] = Cardinality(L) /\ b1.end # NormalOrderID
    BY <2>1, <1>0, <1>4 DEF Thread, Arrays, NormalOrderID
  <2>3. getSubnetEnd(b1) = b1.end
    BY <2>2 DEF getSubnetEnd
  <2>4. r = placeAfter(b1, i, b1.end)
    BY <1>3, <1>10, <2>3
  <2> DEFINE k == p[b1.end]
  <2>5. b1.end # LowerBoundID
    BY <2>2, <1>0 DEF Arrays, LowerBoundID
  <2>6. Same(b1, b1, {"depthBounds"})
    BY DEF Same
  <2>7. Ok(r, k, g)
    BY <2>2, <2>4, <2>5, <2>6, <1>8, <1>1
  <2>8. k \in Nat /\ \A x \in L : p[x] <= k
    BY <2>2, <1>5
  <2>9. Inner(b, L \cup {i}) = In
    BY <1>10 DEF Inner
  <2>10. Levels(In, L \cup {i}, Inserted(L, p, i, k), b.depth, g)
    BY <2>8, <1>0, <1>2, <1>5, AddOut
  <2> QED
    BY <2>7, <2>8, <2>9, <2>10, <1>9, <1>10
<1>11. ASSUME t # "OUT" PROVE Inner(b, L \cup {i}) = In \cup {i}
  BY <1>11 DEF Inner
<1>12. CASE t # "OUT" /\ u = NoBounds
  <2>0. \A x \in In : b.depth[x] # d
    <3>1. Bound(In, p, b.depth, d, u)
      BY <1>2, <1>6
    <3>2. \A f, l \in In : u # <<f, l>>
      BY <1>6, <1>0, <1>12 DEF NoBounds, InvalidID, Arrays
    <3> QED
      BY <3>1, <3>2 DEF Bound
  <2>1. u[1] = InvalidID
    BY <1>12 DEF NoBounds
  <2> DEFINE c == [b1 EXCEPT !.depthBounds = SetAt(@, d, <<i, i>>)]
  <2>2. Same(c, b1, {"depthBounds"}) /\ c.depthBounds = SetAt(g, d, <<i, i>>)
    BY <1>1 DEF IsRec, EmptyBuilder, Same
  <2>3. r = placeAfter(c, i, IF d = 0 THEN LowerBoundID ELSE g[d - 1][2])
    BY <1>3, <1>12, <2>1
  <2> HIDE DEF c
  <2>4. CASE d = 0
    <3>1. L = {}
      <4>1. SUFFICES ASSUME L # {} PROVE FALSE
        OBVIOUS
      <4>2. PICK x \in L : b.entries[x].type = "IN"
        BY <4>1, <1>0 DEF InsFirst
      <4>3. x \in In /\ b.depth[x] = 0
        BY <4>2, <1>0 DEF InsFirst, Inner
      <4> QED
        BY <4>3, <2>0, <2>4
    <3>2. Ok(r, 0, SetAt(g, d, <<i, i>>))
      BY <2>2, <2>3, <2>4, <1>8
    <3>3. Bound(In \cup {i}, Inserted(L, p, i, 0), b.depth, d, <<i, i>>)
      BY <2>0, <1>0, <1>5, <1>6, BoundFirst
    <3>4. Levels(In \cup {i}, L \cup {i}, Inserted(L, p, i, 0), b.depth, SetAt(g, d, <<i, i>>))
      BY <3>1, <3>3, <1>0, <1>2, <1>5, <1>6, AddInner
    <3> QED
      BY <3>1, <3>2, <3>4, <1>9, <1>11, <1>12
  <2>5. CASE d > 0
    <3>1. PICK y \in In : b.depth[y] = d - 1
      BY <2>5, <1>12 DEF MayAdd
    <3>2. d - 1 \in DOMAIN g
      BY <1>2, <1>6, <2>5
    <3>3. PICK f, l \in In : /\ g[d - 1] = <<f, l>> /\ b.depth[f] = d - 1 /\ b.depth[l] = d - 1
                             /\ \A x \in In : b.depth[x] = d - 1 => p[f] <= p[x] /\ p[x] <= p[l]
      <4>1. Bound(In, p, b.depth, d - 1, g[d - 1])
        BY <3>2, <1>6
      <4> QED
        BY <3>1, <4>1 DEF Bound
    <3>4. l \in L /\ l # LowerBoundID /\ p[l] \in Nat
      BY <1>0, <1>5, <1>6 DEF Arrays, LowerBoundID
    <3>5. Ok(r, p[l], SetAt(g, d, <<i, i>>))
      BY <2>2, <2>3, <2>5, <3>3, <3>4, <1>8
    <3>6. Bound(In \cup {i}, Inserted(L, p, i, p[l]), b.depth, d, <<i, i>>)
      BY <2>0, <3>4, <1>0, <1>5, <1>6, BoundFirst
    <3>7. /\ \A x \in In : b.depth[x] < d => p[x] <= p[l]
          /\ \A x \in In : b.depth[x] > d => p[x] > p[l]
          /\ \A x \in L \ In : p[x] > p[l]
      <4>1. ASSUME NEW x \in In, b.depth[x] < d PROVE p[x] <= p[l]
        <5>1. b.depth[x] = d - 1 \/ b.depth[x] < b.depth[l]
          BY <4>1, <3>3, <1>6, <1>0
        <5> QED
          BY <5>1, <3>3, <1>5, <1>6
      <4>2. ASSUME NEW x \in In, b.depth[x] > d PROVE p[x] > p[l]
        BY <4>2, <3>3, <1>0, <1>5, <1>6
      <4> QED
        BY <4>1, <4>2, <1>5, <1>6
    <3>8. Levels(In \cup {i}, L \cup {i}, Inserted(L, p, i, p[l]), b.depth, SetAt(g, d, <<i, i>>))
      BY <3>4, <3>6, <3>7, <1>0, <1>2, <1>5, <1>6, AddInner
    <3>9. \A x \in L : b.entries[x].type = "IN" => p[x] <= p[l]
      BY <3>7, <1>0, <2>5 DEF InsFirst, Inner
    <3>10. t # "IN"
      BY <2>5 DEF MayAdd
    <3> QED
      BY <3>4, <3>5, <3>8, <3>9, <3>10, <1>9, <1>11, <1>12
  <2> QED
    BY <2>4, <2>5, <1>0
<1>13. CASE t # "OUT" /\ u # NoBounds
  <2>1. PICK f, l \in In : /\ u = <<f, l>> /\ b.depth[f] = d /\ b.depth[l] = d
                           /\ \A x \in In : b.depth[x] = d => p[f] <= p[x] /\ p[x] <= p[l]
    <3>1. Bound(In, p, b.depth, d, u)
      BY <1>2, <1>6
    <3> QED
      BY <3>1, <1>13 DEF Bound
  <2>2. /\ u[1] = f /\ u[2] = l /\ f # InvalidID /\ l # LowerBoundID /\ l \in L /\ f \in L
        /\ p[l] \in Nat /\ p[f] \in Nat
    BY <2>1, <1>0, <1>5, <1>6 DEF Arrays, InvalidID, LowerBoundID
  <2>3. r = LET b2 == placeAfter(b1, i, pivot)
            IN  IF l = pivot THEN [b2 EXCEPT !.depthBounds = SetAt(@, d, <<f, i>>)] ELSE b2
    BY <1>3, <1>13, <2>2
  <2>4. Same(b1, b1, {"depthBounds"})
    BY DEF Same
  <2>5. /\ \A x \in In : b.depth[x] < d => p[x] <= p[f]
        /\ \A x \in In : b.depth[x] > d => p[x] > p[l]
        /\ \A x \in L \ In : p[x] > p[l]
        /\ p[f] <= p[l]
    BY <2>1, <2>2, <1>0, <1>5, <1>6
  <2>6. CASE pivot = l
    <3>1. Ok(placeAfter(b1, i, l), p[l], g)
      BY <2>2, <2>4, <1>8, <1>1
    <3> DEFINE b2 == placeAfter(b1, i, l)
    <3>2. r = [b2 EXCEPT !.depthBounds = SetAt(@, d, <<f, i>>)]
      BY <2>3, <2>6
    <3> HIDE DEF b2
    <3> USE DEF Ok
    <3>3. Ok(r, p[l], SetAt(g, d, <<f, i>>))
      <4>1. Ok(b2, p[l], g)
        BY <3>1 DEF b2
      <4>2. IsRec(b2)
        BY <4>1, <1>1 DEF IsRec, Same
      <4>3. /\ Same(r, b2, {"depthBounds"}) /\ r.depthBounds = SetAt(g, d, <<f, i>>)
            /\ r.prev = b2.prev /\ r.next = b2.next /\ r.begin = b2.begin /\ r.end = b2.end
        BY <4>1, <4>2, <3>2 DEF IsRec, EmptyBuilder, Same
      <4>4. Thread(r, L \cup {i}, Inserted(L, p, i, p[l]))
        BY <4>1, <4>3, ThreadFields
      <4>5. Same(r, b1, OrderFields \cup {"depthBounds"})
        BY <4>1, <4>3 DEF Same
      <4> QED
        BY <4>1, <4>3, <4>4, <4>5
    <3> HIDE DEF Ok
    <3>4. Bound(In \cup {i}, Inserted(L, p, i, p[l]), b.depth, d, <<f, i>>)
      BY <2>1, <1>0, <1>5, <1>6, BoundLast
    <3>5. \A x \in In : b.depth[x] < d => p[x] <= p[l]
      BY <2>2, <2>5, <1>5, <1>6
    <3>6. Levels(In \cup {i}, L \cup {i}, Inserted(L, p, i, p[l]), b.depth, SetAt(g, d, <<f, i>>))
      BY <2>2, <2>5, <3>4, <3>5, <1>0, <1>2, <1>5, <1>6, AddInner
    <3>7. \A x \in L : b.entries[x].type = "IN" => p[x] <= p[l]
      <4> TAKE x \in L
      <4> HAVE b.entries[x].type = "IN"
      <4>1. x \in In /\ b.depth[x] = 0
        BY <1>0 DEF InsFirst, Inner
      <4>2. b.depth[x] < d \/ b.depth[x] = d
        BY <4>1, <1>0
      <4> QED
        BY <4>1, <4>2, <3>5, <2>1
    <3>8. t = "IN" => \A x \in L : b.entries[x].type # "IN" => p[x] > p[l]
      <4> HAVE t = "IN"
      <4> TAKE x \in L
      <4> HAVE b.entries[x].type # "IN"
      <4>1. d = 0
        BY DEF MayAdd
      <4>2. pivot = lastNonConst(b1, l)
        BY <4>1, <2>2 DEF pivot
      <4>3. PICK y \in L : b.entries[y].type = "IN"
        BY <2>2, <1>0 DEF InsFirst
      <4>4. p[y] <= p[l] /\ b1.entries[y].type \notin Consts
        BY <3>7, <4>3, <1>1 DEF Consts
      <4>5. b1.entries[l].type \notin Consts
        <5>1. b1.entries[lastNonConst(b1, l)].type \notin Consts
          BY <4>4, <2>2, <1>0, <1>4, LastNonConst
        <5> QED
          BY <5>1, <4>2, <2>6
      <4>6. b.entries[l].type = "IN"
        BY <4>5, <4>1, <2>1, <2>2, <1>0, <1>1 DEF InsFirst, Inner, Consts
      <4> QED
        BY <4>6, <2>2, <1>0, <1>5 DEF InsFirst
    <3> QED
      BY <3>3, <3>6, <3>7, <3>8, <2>2, <1>9, <1>11, <1>13
  <2>7. CASE pivot # l
    <3>1. d = 0 /\ t = "IN" /\ pivot = lastNonConst(b1, l)
      BY <2>2, <2>7 DEF pivot
    <3>2. PICK y \in L : b.entries[y].type = "IN"
      BY <2>2, <1>0 DEF InsFirst
    <3>3. p[y] <= p[l] /\ b1.entries[y].type \notin Consts
      BY <2>1, <3>1, <3>2, <1>0, <1>1 DEF InsFirst, Inner, Consts
    <3>4. /\ pivot \in L /\ b1.entries[pivot].type \notin Consts /\ p[pivot] <= p[l]
          /\ \A z \in L : p[pivot] < p[z] /\ p[z] <= p[l] => b1.entries[z].type \in Consts
      BY <3>1, <3>3, <2>2, <1>0, <1>4, LastNonConst
    <3>5. p[pivot] \in Nat /\ p[pivot] < p[l] /\ pivot # LowerBoundID
      BY <3>4, <2>2, <2>7, <1>0, <1>5 DEF IsOrder, Arrays, LowerBoundID
    <3>6. pivot \in In /\ b.depth[pivot] = 0
      <4>1. pivot \in In
        BY <3>4, <3>5, <2>1, <2>2, <1>5, <1>6
      <4>2. ~(b.depth[l] < b.depth[pivot])
        BY <4>1, <3>5, <2>1, <2>2, <1>6
      <4> QED
        BY <4>1, <4>2, <2>1, <3>1, <1>6
    <3>7. b.entries[pivot].type = "IN"
      BY <3>4, <3>6, <1>0, <1>1 DEF InsFirst, Inner, Consts
    <3>8. r = placeAfter(b1, i, pivot)
      BY <2>3, <2>7
    <3>9. Ok(r, p[pivot], g)
      BY <3>4, <3>5, <3>8, <2>4, <1>8, <1>1
    <3>10. Bound(In \cup {i}, Inserted(L, p, i, p[pivot]), b.depth, d, <<f, l>>)
      BY <2>1, <2>2, <3>1, <3>5, <3>6, <1>0, <1>5, <1>6, BoundInside
    <3>11. /\ \A x \in In : b.depth[x] < d => p[x] <= p[pivot]
           /\ \A x \in In : b.depth[x] > d => p[x] > p[pivot]
           /\ \A x \in L \ In : p[x] > p[pivot]
      BY <2>2, <2>5, <3>1, <3>5, <1>0, <1>5, <1>6
    <3>12. Levels(In \cup {i}, L \cup {i}, Inserted(L, p, i, p[pivot]), b.depth, SetAt(g, d, <<f, l>>))
      BY <3>5, <3>10, <3>11, <1>0, <1>2, <1>5, <1>6, AddInner
    <3>13. Levels(In \cup {i}, L \cup {i}, Inserted(L, p, i, p[pivot]), b.depth, g)
      <4>1. /\ DOMAIN g = DOMAIN SetAt(g, d, <<f, l>>)
            /\ \A e \in DOMAIN SetAt(g, d, <<f, l>>) : g[e] = SetAt(g, d, <<f, l>>)[e]
        BY <2>1 DEF SetAt
      <4> QED
        BY <4>1, <3>12, LevelsEqual
    <3>14. \A x \in L : b.entries[x].type = "IN" => p[x] <= p[pivot]
      <4> TAKE x \in L
      <4> HAVE b.entries[x].type = "IN"
      <4>1. x \in In /\ b.depth[x] = 0
        BY <1>0 DEF InsFirst, Inner
      <4>2. p[x] <= p[l] /\ b1.entries[x].type \notin Consts
        BY <4>1, <2>1, <3>1, <1>1 DEF Consts
      <4> QED
        BY <4>2, <3>4, <3>5, <1>5
    <3>15. \A x \in L : b.entries[x].type # "IN" => p[x] > p[pivot]
      BY <3>4, <3>5, <3>7, <1>0, <1>5 DEF InsFirst
    <3> QED
      BY <3>5, <3>9, <3>13, <3>14, <3>15, <1>9, <1>11, <1>13
  <2> QED
    BY <2>6, <2>7
<1> QED
  BY <1>10, <1>12, <1>13

-----------------------------------------------------------------------------
(* Depths and occurrences.                                                 *)

\* A bounded set of numbers has a greatest element.
LEMMA MaxExists ==
  ASSUME NEW S \in SUBSET Nat, S # {}, NEW m \in Nat, \A x \in S : x <= m
  PROVE  Max(S) \in S /\ \A x \in S : x <= Max(S)
<1> DEFINE T == {u \in Nat : \A x \in S : x <= u}
<1>1. T \in SUBSET Nat /\ T # {}
  OBVIOUS
<1>2. PICK u \in T : \A y \in T : u <= y
  <2> HIDE DEF T
  <2> QED BY <1>1, LeastNumber
<1>3. u \in S
  <2>1. CASE u = 0
    <3>1. PICK x \in S : TRUE
      OBVIOUS
    <3>2. x = 0
      BY <3>1, <2>1, <1>2
    <3> QED BY <3>1, <3>2, <2>1
  <2>2. CASE u > 0
    <3>1. SUFFICES ASSUME u \notin S PROVE FALSE
      OBVIOUS
    <3>2. u - 1 \in T
      BY <3>1, <2>2, <1>2
    <3> QED
      BY <3>2, <1>2, <2>2
  <2> QED BY <2>1, <2>2, <1>2
<1>4. \E x \in S : \A y \in S : x >= y
  BY <1>2, <1>3
<1> QED
  BY <1>4 DEF Max

\* What DepthOver returns.
IsDepthOver(b, ls, d) ==
  /\ d \in Nat
  /\ \A j \in DOMAIN ls : b.depth[ls[j].idx] < d
  /\ d > 0 => \E j \in DOMAIN ls : b.depth[ls[j].idx] = d - 1

\* DepthOver is the least depth above the inputs.
LEMMA DepthOverIs ==
  ASSUME NEW b, NEW ls, NEW m \in Nat, \A j \in DOMAIN ls : b.depth[ls[j].idx] \in Nat /\ b.depth[ls[j].idx] < m
  PROVE  IsDepthOver(b, ls, DepthOver(b, ls))
<1> DEFINE S == {0} \cup {b.depth[ls[j].idx] + 1 : j \in DOMAIN ls}
<1>1. S \in SUBSET Nat /\ S # {} /\ \A x \in S : x <= m
  OBVIOUS
<1>2. DepthOver(b, ls) = Max(S)
  BY DEF DepthOver
<1>3. Max(S) \in S /\ \A x \in S : x <= Max(S)
  <2> HIDE DEF S
  <2> QED BY <1>1, MaxExists
<1>4. \A j \in DOMAIN ls : b.depth[ls[j].idx] + 1 <= Max(S)
  BY <1>3
<1> DEFINE M == Max(S)
<1>5. M \in Nat /\ (M = 0 \/ \E j \in DOMAIN ls : M = b.depth[ls[j].idx] + 1)
  BY <1>1, <1>3
<1> HIDE DEF M
<1>6. \A j \in DOMAIN ls : b.depth[ls[j].idx] < M
  BY <1>4, <1>5 DEF M
<1>7. IsDepthOver(b, ls, M)
  BY <1>5, <1>6 DEF IsDepthOver
<1> QED BY <1>7, <1>2 DEF M

\* There is one depth over given inputs.
LEMMA DepthOverUnique ==
  ASSUME NEW b, NEW ls, NEW d, NEW e, IsDepthOver(b, ls, d), IsDepthOver(b, ls, e),
         \A j \in DOMAIN ls : b.depth[ls[j].idx] \in Nat
  PROVE  d = e
<1>1. d \in Nat /\ e \in Nat
  BY DEF IsDepthOver
<1>2. ~(d < e)
  BY <1>1 DEF IsDepthOver
<1>3. ~(e < d)
  BY <1>1 DEF IsDepthOver
<1> QED BY <1>1, <1>2, <1>3

\* DepthOver depends on the depths of the inputs only.
LEMMA DepthOverSame ==
  ASSUME NEW b, NEW c, NEW ls, \A j \in DOMAIN ls : b.depth[ls[j].idx] = c.depth[ls[j].idx]
  PROVE  DepthOver(b, ls) = DepthOver(c, ls)
<1>1. {b.depth[ls[j].idx] + 1 : j \in DOMAIN ls} = {c.depth[ls[j].idx] + 1 : j \in DOMAIN ls}
  OBVIOUS
<1> QED BY <1>1 DEF DepthOver

\* The number of times x occurs in the sequence s.
Occ(s, x) == Cardinality({i \in DOMAIN s : s[i] = x})

\* A one-to-one correspondence f between A and B.
Matches(f, A, B) == /\ \A x \in A : f[x] \in B
                    /\ \A x, y \in A : f[x] = f[y] => x = y
                    /\ \A z \in B : \E x \in A : f[x] = z

\* Sets in one-to-one correspondence have equally many elements.
LEMMA SameCardinality ==
  ASSUME NEW A, NEW B, NEW f, Matches(f, A, B), IsFiniteSet(A)
  PROVE  IsFiniteSet(B) /\ Cardinality(B) = Cardinality(A)
<1> DEFINE g == [x \in A |-> f[x]]
<1>1. g \in [A -> B] /\ (\A x, y \in A : g[x] = g[y] => x = y) /\ \A z \in B : \E x \in A : g[x] = z
  BY DEF Matches
<1> HIDE DEF g
<1>2. g \in Injection(A, B)
  BY <1>1 DEF Injection, IsInjective
<1>3. g \in Surjection(A, B)
  BY <1>1 DEF Surjection
<1>4. ExistsBijection(A, B)
  BY <1>2, <1>3 DEF ExistsBijection, Bijection
<1> QED BY <1>4, FS_Bijection

\* Occurrences are counted by natural numbers.
LEMMA OccType ==
  ASSUME NEW S, NEW s \in Seq(S), NEW x
  PROVE  IsFiniteSet({i \in DOMAIN s : s[i] = x}) /\ Occ(s, x) \in Nat
<1>1. IsFiniteSet(DOMAIN s)
  <2>1. DOMAIN s = 1 .. Len(s) /\ Len(s) \in Nat
    OBVIOUS
  <2> QED BY <2>1, FS_Interval
<1>2. IsFiniteSet({i \in DOMAIN s : s[i] = x})
  <2>1. {i \in DOMAIN s : s[i] = x} \in SUBSET DOMAIN s
    OBVIOUS
  <2> QED BY <1>1, <2>1, FS_Subset
<1> QED BY <1>2, FS_CardinalityType DEF Occ

\* Append adds an occurrence.
LEMMA OccAppend ==
  ASSUME NEW S, NEW s \in Seq(S), NEW e \in S, NEW x
  PROVE  Occ(Append(s, e), x) = Occ(s, x) + (IF e = x THEN 1 ELSE 0)
<1> DEFINE A == {i \in DOMAIN s : s[i] = x}
           B == {i \in DOMAIN Append(s, e) : Append(s, e)[i] = x}
           n == Len(s) + 1
<1>1. IsFiniteSet(A) /\ Cardinality(A) \in Nat
  BY OccType, FS_CardinalityType
<1>2. /\ DOMAIN s = 1 .. Len(s) /\ DOMAIN Append(s, e) = 1 .. n /\ Len(s) \in Nat
      /\ \A i \in 1 .. Len(s) : Append(s, e)[i] = s[i]
      /\ Append(s, e)[n] = e
  OBVIOUS
<1>3. n \notin A
  BY <1>2
<1>4. B = IF e = x THEN A \cup {n} ELSE A
  <2> DEFINE t == Append(s, e)
  <2> HIDE DEF t
  <2>1. DOMAIN t = 1 .. n /\ (\A i \in 1 .. Len(s) : t[i] = s[i]) /\ t[n] = e
    BY <1>2 DEF t
  <2>2. {i \in DOMAIN t : t[i] = x} = IF e = x THEN A \cup {n} ELSE A
    BY <2>1, <1>2
  <2> QED BY <2>2 DEF t
<1> HIDE DEF A, B, n
<1>5. Cardinality(B) = Cardinality(A) + (IF e = x THEN 1 ELSE 0)
  <2>1. CASE e = x
    BY <2>1, <1>1, <1>3, <1>4, FS_AddElement
  <2>2. CASE e # x
    BY <2>2, <1>1, <1>4
  <2> QED BY <2>1, <2>2
<1> QED BY <1>5 DEF Occ, A, B

\* Nothing occurs in the empty sequence.
LEMMA OccEmpty ==
  ASSUME NEW x
  PROVE  Occ(<< >>, x) = 0
<1> DEFINE s == << >>
<1>1. DOMAIN s = {}
  OBVIOUS
<1> HIDE DEF s
<1>2. {i \in DOMAIN s : s[i] = x} = {}
  BY <1>1
<1>3. Occ(s, x) = 0
  BY <1>2, FS_EmptySet DEF Occ
<1> QED BY <1>3 DEF s

\* What occurs has a place.
LEMMA OccPositive ==
  ASSUME NEW S, NEW s \in Seq(S), NEW x
  PROVE  Occ(s, x) > 0 <=> \E i \in 1 .. Len(s) : s[i] = x
<1> DEFINE A == {i \in DOMAIN s : s[i] = x}
<1>1. IsFiniteSet(A) /\ Cardinality(A) \in Nat
  BY OccType, FS_CardinalityType
<1>2. Cardinality(A) = 0 <=> A = {}
  BY <1>1, FS_EmptySet
<1>3. A # {} <=> \E i \in 1 .. Len(s) : s[i] = x
  OBVIOUS
<1> QED BY <1>1, <1>2, <1>3 DEF Occ

\* RemoveFirst removes one occurrence.
LEMMA OccRemoveFirst ==
  ASSUME NEW S, NEW s \in Seq(S), NEW e, Occ(s, e) > 0
  PROVE  /\ RemoveFirst(s, e) \in Seq(S)
         /\ \A x : Occ(RemoveFirst(s, e), x) = Occ(s, x) - (IF e = x THEN 1 ELSE 0)
<1> DEFINE I == {i \in 1 .. Len(s) : s[i] = e}
           m == Min(I)
           r == RemoveAt(s, m)
<1>0. Len(s) \in Nat /\ DOMAIN s = 1 .. Len(s)
  OBVIOUS
<1>1. I # {} /\ I \in SUBSET Nat
  BY OccPositive
<1>2. m \in I
  <2>1. \E x \in I : \A y \in I : x =< y
    <3> HIDE DEF I
    <3> QED BY <1>1, LeastNumber
  <2> HIDE DEF I
  <2> QED BY <2>1 DEF Min
<1>3. RemoveFirst(s, e) = r
  <2>1. \E i \in 1 .. Len(s) : s[i] = e
    BY OccPositive
  <2>2. SelectInSeq(s, LAMBDA v : v = e) = m
    BY <1>1 DEF SelectInSeq
  <2> QED BY <2>1, <2>2 DEF RemoveFirst
<1>4. m \in 1 .. Len(s) /\ s[m] = e
  BY <1>2
<1> HIDE DEF m
<1>5. /\ r \in Seq(S) /\ Len(r) = Len(s) - 1
      /\ \A i \in 1 .. Len(s) - 1 : r[i] = IF i < m THEN s[i] ELSE s[i + 1]
  <2> DEFINE t == SubSeq(s, 1, m - 1)
             v == SubSeq(s, m + 1, Len(s))
  <2>1. t \in Seq(S) /\ Len(t) = m - 1 /\ \A i \in 1 .. m - 1 : t[i] = s[i]
    BY <1>0, <1>4
  <2>2. v \in Seq(S) /\ Len(v) = Len(s) - m /\ \A i \in 1 .. Len(s) - m : v[i] = s[i + m]
    <3>1. m + 1 \in Int /\ m + 1 <= Len(s) + 1 /\ m + 1 >= 1
      BY <1>0, <1>4
    <3> DEFINE a == m + 1
    <3>2. a \in 1 .. Len(s) + 1
      BY <3>1, <1>0
    <3> HIDE DEF a
    <3>3. /\ SubSeq(s, a, Len(s)) \in Seq(S)
          /\ Len(SubSeq(s, a, Len(s))) = Len(s) - a + 1
          /\ \A i \in 1 .. Len(s) - a + 1 : SubSeq(s, a, Len(s))[i] = s[a + i - 1]
      BY <3>2, <1>0
    <3>4. Len(s) - a + 1 = Len(s) - m /\ \A i \in 1 .. Len(s) - m : a + i - 1 = i + m
      BY <1>0, <1>4 DEF a
    <3> QED BY <3>3, <3>4 DEF a
  <2>3. r = t \o v
    BY DEF RemoveAt
  <2> HIDE DEF t, v, r
  <2>4. r \in Seq(S) /\ Len(r) = Len(s) - 1
    <3>1. r \in Seq(S) /\ Len(r) = Len(t) + Len(v)
      <4>1. t \in Seq(S) /\ v \in Seq(S)
        BY <2>1, <2>2
      <4>2. t \o v \in Seq(S) /\ Len(t \o v) = Len(t) + Len(v)
        BY <4>1
      <4> QED BY <4>2, <2>3
    <3>2. (m - 1) + (Len(s) - m) = Len(s) - 1
      BY <1>0, <1>4
    <3> QED BY <3>1, <3>2, <2>1, <2>2
  <2>5. ASSUME NEW i \in 1 .. Len(s) - 1 PROVE r[i] = IF i < m THEN s[i] ELSE s[i + 1]
    <3>1. CASE i < m
      BY <3>1, <2>1, <2>2, <2>3, <1>0, <1>4
    <3>2. CASE ~(i < m)
      <4>1. i - (m - 1) \in 1 .. Len(s) - m /\ (i - (m - 1)) + m = i + 1
        BY <3>2, <1>0, <1>4
      <4>2. r[i] = v[i - (m - 1)]
        BY <3>2, <2>1, <2>2, <2>3, <1>0, <1>4
      <4> QED BY <4>1, <4>2, <2>2, <3>2
    <3> QED BY <3>1, <3>2
  <2> QED BY <2>4, <2>5
<1> HIDE DEF r
<1>6. ASSUME NEW x PROVE Occ(r, x) = Occ(s, x) - (IF e = x THEN 1 ELSE 0)
  <2> DEFINE A == {i \in DOMAIN s : s[i] = x}
             B == {i \in DOMAIN r : r[i] = x}
             C == A \ {m}
             f == [i \in DOMAIN s |-> IF i < m THEN i ELSE i - 1]
  <2>1. IsFiniteSet(A) /\ Cardinality(A) \in Nat
    BY OccType, FS_CardinalityType
  <2>2. IsFiniteSet(C) /\ Cardinality(C) = Cardinality(A) - (IF e = x THEN 1 ELSE 0)
    <3>1. m \in A <=> e = x
      BY <1>0, <1>4
    <3> HIDE DEF A
    <3> QED BY <2>1, <3>1, FS_RemoveElement
  <2>3. Matches(f, C, B)
    <3>1. DOMAIN r = 1 .. Len(s) - 1
      BY <1>0, <1>5
    <3>2. \A i \in C : f[i] \in B
      BY <1>0, <1>4, <1>5, <3>1
    <3>3. \A i, j \in C : f[i] = f[j] => i = j
      BY <1>0, <1>4
    <3>4. ASSUME NEW z \in B PROVE \E i \in C : f[i] = z
      <4>1. z \in 1 .. Len(s) - 1 /\ r[z] = x
        BY <3>1
      <4>2. CASE z < m
        <5>1. z \in C /\ f[z] = z
          BY <4>1, <4>2, <1>0, <1>4, <1>5
        <5> QED BY <5>1
      <4>3. CASE ~(z < m)
        <5>1. z + 1 \in C /\ f[z + 1] = z
          BY <4>1, <4>3, <1>0, <1>4, <1>5
        <5> QED BY <5>1
      <4> QED BY <4>2, <4>3
    <3> QED BY <3>2, <3>3, <3>4 DEF Matches
  <2> HIDE DEF f
  <2>4. Cardinality(B) = Cardinality(C)
    BY <2>2, <2>3, SameCardinality
  <2> QED BY <2>2, <2>4 DEF Occ
<1> QED BY <1>3, <1>5, <1>6

-----------------------------------------------------------------------------
(* Fanout lists.                                                           *)

\* The list of source s in the fanout lists f.
ListOf(f, s) == IF s \in DOMAIN f THEN f[s] ELSE << >>

\* What a list of links is.
LEMMA LinkSeq ==
  ASSUME NEW D, NEW ls \in Seq(LinkSet(D))
  PROVE  Len(ls) \in Nat /\ DOMAIN ls = 1 .. Len(ls) /\ \A j \in DOMAIN ls : ls[j].idx \in D /\ ls[j].inv \in BOOLEAN
<1>1. Len(ls) \in Nat /\ DOMAIN ls = 1 .. Len(ls) /\ \A j \in DOMAIN ls : ls[j] \in LinkSet(D)
  OBVIOUS
<1> QED BY <1>1 DEF LinkSet

\* f is an array of lists of numbers.
Lists(f) == \A s \in Nat : ListOf(f, s) \in Seq(Nat)

\* The lists g are f with i at the end of the list of source.
OnePushed(g, f, source, i) ==
  /\ DOMAIN g \subseteq Nat
  /\ \A s \in Nat : s # source => ListOf(g, s) = ListOf(f, s)
  /\ ListOf(g, source) = Append(ListOf(f, source), i)

\* PushFanout adds i to the list of its source, growing the array when needed.
LEMMA PushFanoutLists ==
  ASSUME NEW f, Lists(f), DOMAIN f \subseteq Nat, NEW source \in Nat, NEW i \in Nat
  PROVE  OnePushed(PushFanout(f, source, i), f, source, i)
<1> DEFINE h == Grow(f, source + 1, << >>)
           g == PushFanout(f, source, i)
<1>1. /\ DOMAIN h = DOMAIN f \cup 0 .. source
      /\ \A s \in DOMAIN h : h[s] = IF s \in DOMAIN f THEN f[s] ELSE << >>
  BY DEF Grow
<1>2. \A s \in Nat : ListOf(h, s) = ListOf(f, s)
  BY <1>1 DEF ListOf
<1>3. source \in DOMAIN h /\ h[source] = ListOf(f, source)
  BY <1>1 DEF ListOf
<1>4. g = SetAt(h, source, Append(h[source], i))
  BY DEF PushFanout
<1> HIDE DEF h, g
<1>5. DOMAIN g = DOMAIN h /\ \A s \in DOMAIN h : g[s] = IF s = source THEN Append(h[source], i) ELSE h[s]
  BY <1>4 DEF SetAt
<1>6. \A s \in Nat : ListOf(g, s) = IF s = source THEN Append(ListOf(f, s), i) ELSE ListOf(f, s)
  BY <1>2, <1>3, <1>5 DEF ListOf
<1> QED
  BY <1>1, <1>5, <1>6 DEF g, OnePushed

\* One iteration of PushFanouts.
PushLoop(c, f, j) == PushFanout(f, c[2][j].idx, c[1])

\* The loop of PushFanouts has runs.
Pushes == INSTANCE LoopProofs WITH Step <- PushLoop

\* push is the run of PushFanouts(f, i, ls).
IsPushing(push, f, i, ls) ==
  /\ push[0] = f
  /\ \A j \in 1 .. Len(ls) : push[j] = PushFanout(push[j - 1], ls[j].idx, i)
  /\ PushFanouts(f, i, ls) = push[Len(ls)]

\* PushFanouts is the last state of a run of its loop.
LEMMA PushFanoutsRun ==
  ASSUME NEW f, NEW i, NEW ls, Len(ls) \in Nat
  PROVE  \E push : IsPushing(push, f, i, ls)
<1> DEFINE N == Len(ls)
           push == CHOOSE g : g = [j \in 0 .. N |-> IF j = 0 THEN f ELSE PushFanout(g[j - 1], ls[j].idx, i)]
<1>1. \E g : g = [j \in 0 .. N |-> IF j = 0 THEN f ELSE PushFanout(g[j - 1], ls[j].idx, i)]
  <2>1. \E g : Pushes!IsRun(g, <<i, ls>>, f, N)
    BY Pushes!RunExists, LeastNumbers DEF Pushes!WellOrdered
  <2> QED
    BY <2>1 DEF Pushes!IsRun, PushLoop
<1>2. push = [j \in 0 .. N |-> IF j = 0 THEN f ELSE PushFanout(push[j - 1], ls[j].idx, i)]
  BY <1>1
<1>3. PushFanouts(f, i, ls) = push[N]
  BY DEF PushFanouts
<1> HIDE DEF push
<1>4. /\ push[0] = f
      /\ \A j \in 1 .. N : push[j] = PushFanout(push[j - 1], ls[j].idx, i)
  BY <1>2
<1> QED
  BY <1>3, <1>4 DEF IsPushing

\* The links to s among the first j links of ls.
PartOf(ls, j, s) == {m \in 1 .. j : ls[m].idx = s}

\* The lists g are f with one i for each of the first j links of ls.
Pushed(g, f, i, ls, j) ==
  /\ DOMAIN g \subseteq Nat /\ Lists(g)
  /\ \A s, k \in Nat : k # i => Occ(ListOf(g, s), k) = Occ(ListOf(f, s), k)
  /\ \A s \in Nat : Occ(ListOf(g, s), i) = Occ(ListOf(f, s), i) + Cardinality(PartOf(ls, j, s))

\* One more link is one more link to its own source only.
LEMMA PartStep ==
  ASSUME NEW ls, NEW j \in Nat, NEW s
  PROVE  /\ Cardinality(PartOf(ls, j, s)) \in Nat /\ PartOf(ls, 0, s) = {}
         /\ ls[j + 1].idx = s => Cardinality(PartOf(ls, j + 1, s)) = Cardinality(PartOf(ls, j, s)) + 1
         /\ ls[j + 1].idx # s => PartOf(ls, j + 1, s) = PartOf(ls, j, s)
<1>1. IsFiniteSet(1 .. j)
  BY FS_Interval
<1>2. PartOf(ls, j, s) \in SUBSET (1 .. j)
  BY DEF PartOf
<1>3. IsFiniteSet(PartOf(ls, j, s))
  BY <1>1, <1>2, FS_Subset
<1>4. Cardinality(PartOf(ls, j, s)) \in Nat
  BY <1>3, FS_CardinalityType
<1>5. j + 1 \notin PartOf(ls, j, s)
  BY <1>2
<1>6. ls[j + 1].idx = s => PartOf(ls, j + 1, s) = PartOf(ls, j, s) \cup {j + 1}
  BY DEF PartOf
<1>7. ls[j + 1].idx = s => Cardinality(PartOf(ls, j + 1, s)) = Cardinality(PartOf(ls, j, s)) + 1
  BY <1>3, <1>5, <1>6, FS_AddElement
<1>8. ls[j + 1].idx # s => PartOf(ls, j + 1, s) = PartOf(ls, j, s)
  BY DEF PartOf
<1>9. PartOf(ls, 0, s) = {}
  BY DEF PartOf
<1> QED BY <1>4, <1>7, <1>8, <1>9

\* An iteration of PushFanouts counts one more link.
LEMMA PushedOne ==
  ASSUME NEW f, Lists(f), NEW i \in Nat, NEW ls, NEW j \in Nat, ls[j + 1].idx \in Nat,
         NEW g, Pushed(g, f, i, ls, j)
  PROVE  Pushed(PushFanout(g, ls[j + 1].idx, i), f, i, ls, j + 1)
<1> DEFINE l == ls[j + 1].idx
           h == PushFanout(g, l, i)
<1>0. l \in Nat /\ ls[j + 1].idx = l
  OBVIOUS
<1>1. OnePushed(h, g, l, i)
  BY PushFanoutLists DEF Pushed
<1> SUFFICES Pushed(h, f, i, ls, j + 1)
  OBVIOUS
<1> HIDE DEF h, l
<1>2. Lists(h)
  <2>1. ListOf(g, l) \in Seq(Nat)
    BY <1>0 DEF Pushed, Lists
  <2>2. Append(ListOf(g, l), i) \in Seq(Nat)
    BY <2>1
  <2> QED BY <2>2, <1>1 DEF Lists, OnePushed, Pushed
<1>3. \A k \in Nat : Occ(ListOf(h, l), k) = Occ(ListOf(g, l), k) + (IF i = k THEN 1 ELSE 0)
  <2>1. ListOf(g, l) \in Seq(Nat)
    BY <1>0 DEF Pushed, Lists
  <2> TAKE k \in Nat
  <2>2. Occ(Append(ListOf(g, l), i), k) = Occ(ListOf(g, l), k) + (IF i = k THEN 1 ELSE 0)
    BY <2>1, OccAppend
  <2> QED BY <2>2, <1>1 DEF OnePushed
<1>3a. \A s, k \in Nat : Occ(ListOf(g, s), k) \in Nat /\ Occ(ListOf(f, s), k) \in Nat
  BY OccType DEF Lists, Pushed
<1>4. ASSUME NEW s \in Nat, NEW k \in Nat, k # i PROVE Occ(ListOf(h, s), k) = Occ(ListOf(f, s), k)
  <2>1. Occ(ListOf(g, s), k) = Occ(ListOf(f, s), k)
    BY <1>4 DEF Pushed
  <2>2. CASE s = l
    BY <2>1, <2>2, <1>0, <1>3, <1>3a, <1>4
  <2>3. CASE s # l
    <3>1. ListOf(h, s) = ListOf(g, s)
      BY <2>3, <1>1 DEF OnePushed
    <3> QED BY <3>1, <2>1
  <2> QED BY <2>2, <2>3
<1>5. ASSUME NEW s \in Nat PROVE Occ(ListOf(h, s), i) = Occ(ListOf(f, s), i) + Cardinality(PartOf(ls, j + 1, s))
  <2>1. Occ(ListOf(g, s), i) = Occ(ListOf(f, s), i) + Cardinality(PartOf(ls, j, s))
    BY DEF Pushed
  <2>2. Cardinality(PartOf(ls, j, s)) \in Nat
    BY PartStep
  <2>3. CASE s = l
    <3>1. Cardinality(PartOf(ls, j + 1, s)) = Cardinality(PartOf(ls, j, s)) + 1
      BY <2>3, <1>0, PartStep
    <3>2. Occ(ListOf(h, s), i) = Occ(ListOf(g, s), i) + 1
      BY <2>3, <1>3
    <3> QED BY <3>1, <3>2, <2>1, <2>2, <1>3a
  <2>4. CASE s # l
    <3>1. ListOf(h, s) = ListOf(g, s) /\ PartOf(ls, j + 1, s) = PartOf(ls, j, s)
      BY <2>4, <1>0, <1>1, PartStep DEF OnePushed
    <3> QED BY <3>1, <2>1
  <2> QED BY <2>3, <2>4
<1> QED BY <1>1, <1>2, <1>4, <1>5 DEF Pushed, OnePushed

\* Every link of ls adds one occurrence of i to the list of its source.
LEMMA PushFanoutsLists ==
  ASSUME NEW f, Lists(f), DOMAIN f \subseteq Nat, NEW i \in Nat, NEW ls \in Seq(LinkSet(Nat))
  PROVE  Pushed(PushFanouts(f, i, ls), f, i, ls, Len(ls))
<1> DEFINE N == Len(ls)
<1>0. N \in Nat /\ DOMAIN ls = 1 .. N /\ \A j \in 1 .. N : ls[j].idx \in Nat
  BY LinkSeq
<1>0a. PICK push : IsPushing(push, f, i, ls)
  BY <1>0, PushFanoutsRun
<1>1. /\ push[0] = f
      /\ \A j \in 1 .. N : push[j] = PushFanout(push[j - 1], ls[j].idx, i)
      /\ PushFanouts(f, i, ls) = push[N]
  BY <1>0a DEF IsPushing
<1> HIDE DEF N
<1> DEFINE S == {j \in 0 .. N : Pushed(push[j], f, i, ls, j)}
<1>4. 0 \in S
  <2>1. \A s \in Nat : Cardinality(PartOf(ls, 0, s)) = 0
    BY PartStep, FS_EmptySet
  <2>2. \A s, k \in Nat : Occ(ListOf(f, s), k) \in Nat
    BY OccType DEF Lists
  <2>2a. \A s \in Nat : Occ(ListOf(f, s), i) = Occ(ListOf(f, s), i) + Cardinality(PartOf(ls, 0, s))
    <3> TAKE s \in Nat
    <3>1. Occ(ListOf(f, s), i) \in Nat /\ Cardinality(PartOf(ls, 0, s)) = 0
      BY <2>1, <2>2
    <3> QED BY <3>1
  <2>3. Pushed(f, f, i, ls, 0)
    BY <2>2a DEF Pushed
  <2> QED BY <2>3, <1>0, <1>1
<1>5. ASSUME NEW j \in 0 .. N - 1, j \in S PROVE j + 1 \in S
  <2>1. Pushed(push[j], f, i, ls, j) /\ j \in Nat /\ j + 1 \in 1 .. N /\ (j + 1) - 1 = j /\ j + 1 \in 0 .. N
    BY <1>0, <1>5
  <2>2. ls[j + 1].idx \in Nat /\ push[j + 1] = PushFanout(push[j], ls[j + 1].idx, i)
    BY <1>0, <1>1, <2>1
  <2>3. Pushed(push[j + 1], f, i, ls, j + 1)
    BY <2>1, <2>2, PushedOne
  <2> QED BY <2>1, <2>3
<1>6. N \in S
  <2> HIDE DEF S
  <2>0. N \in Nat /\ 0 \in S /\ \A k \in 0 .. N - 1 : k \in S => k + 1 \in S
    BY <1>0, <1>4, <1>5
  <2>1. \A k \in 0 .. N : k \in S
    BY <2>0, IntervalInduction
  <2> QED BY <2>1, <1>0
<1> QED
  BY <1>1, <1>6 DEF N

\* NumLinks counts all links of a list.
LEMMA NumLinksPart ==
  ASSUME NEW D, NEW ls \in Seq(LinkSet(D)), NEW s
  PROVE  NumLinks(ls, s) = Cardinality(PartOf(ls, Len(ls), s))
<1>1. DOMAIN ls = 1 .. Len(ls)
  BY LinkSeq
<1> QED BY <1>1 DEF NumLinks, PartOf

-----------------------------------------------------------------------------
(* Links as tokens.                                                        *)

\* Tokens stand for links: W is a set of tokens <<cell, number>>, T maps a token to
\* the cell that the link leads to.
To(W, T, s) == {w \in W : T[w] = s}

\* The tokens of cell k that lead to s.
From(W, T, k, s) == {w \in W : T[w] = s /\ w[1] = k}

\* The tokens V are W and one more token <<i, .>> for each link of ls: g maps the number of a link to its token.
Tokens(V, T2, W, T, g, i, ls) ==
  /\ V = W \cup {g[j] : j \in DOMAIN ls}
  /\ \A j \in DOMAIN ls : g[j] \notin W /\ g[j][1] = i /\ T2[g[j]] = ls[j].idx
  /\ \A j, m \in DOMAIN ls : g[j] = g[m] => j = m
  /\ \A w \in W : T2[w] = T[w]

\* Finitely many tokens are counted by natural numbers.
LEMMA TokensFinite ==
  ASSUME NEW W, IsFiniteSet(W), NEW T
  PROVE  /\ \A s : IsFiniteSet(To(W, T, s)) /\ Cardinality(To(W, T, s)) \in Nat
         /\ \A k, s : IsFiniteSet(From(W, T, k, s)) /\ Cardinality(From(W, T, k, s)) \in Nat
<1>1. \A s : To(W, T, s) \in SUBSET W
  BY DEF To
<1>2. \A k, s : From(W, T, k, s) \in SUBSET W
  BY DEF From
<1> QED BY <1>1, <1>2, FS_Subset, FS_CardinalityType

\* The new tokens to s, and their number.
TokensTo(g, ls, s) == {g[j] : j \in {m \in DOMAIN ls : ls[m].idx = s}}

\* There are as many new tokens to s as links to s.
LEMMA NewTokens ==
  ASSUME NEW D, NEW ls \in Seq(LinkSet(D)), NEW g, \A j, m \in DOMAIN ls : g[j] = g[m] => j = m, NEW s
  PROVE  /\ IsFiniteSet(TokensTo(g, ls, s))
         /\ Cardinality(TokensTo(g, ls, s)) = NumLinks(ls, s) /\ NumLinks(ls, s) \in Nat
<1> DEFINE A == {m \in DOMAIN ls : ls[m].idx = s}
           X == {g[j] : j \in A}
<1>1. Len(ls) \in Nat /\ DOMAIN ls = 1 .. Len(ls)
  BY LinkSeq
<1>2. IsFiniteSet(1 .. Len(ls))
  BY <1>1, FS_Interval
<1>3. A \in SUBSET (1 .. Len(ls))
  BY <1>1
<1>4. IsFiniteSet(A) /\ Cardinality(A) \in Nat
  <2> HIDE DEF A
  <2> QED BY <1>2, <1>3, FS_Subset, FS_CardinalityType
<1>5. Matches(g, A, X)
  BY DEF Matches
<1>6. IsFiniteSet(X) /\ Cardinality(X) = Cardinality(A)
  <2> HIDE DEF A, X
  <2> QED BY <1>4, <1>5, SameCardinality
<1>7. Cardinality(A) = NumLinks(ls, s)
  BY DEF NumLinks
<1> QED BY <1>4, <1>6, <1>7 DEF TokensTo

\* The cardinality of a disjoint union.
LEMMA DisjointUnion ==
  ASSUME NEW A, NEW B, IsFiniteSet(A), IsFiniteSet(B), A \cap B = {}
  PROVE  IsFiniteSet(A \cup B) /\ Cardinality(A \cup B) = Cardinality(A) + Cardinality(B)
<1>1. Cardinality(A \cap B) = 0
  BY FS_EmptySet
<1>2. IsFiniteSet(A \cup B) /\ Cardinality(A \cup B) = Cardinality(A) + Cardinality(B) - Cardinality(A \cap B)
  BY FS_Union
<1>3. Cardinality(A) \in Nat /\ Cardinality(B) \in Nat
  BY FS_CardinalityType
<1> QED BY <1>1, <1>2, <1>3

\* How the numbers of tokens grow with the links of cell i.
LEMMA TokensAdded ==
  ASSUME NEW W, IsFiniteSet(W), NEW T, NEW V, NEW T2, NEW g, NEW i, NEW D, NEW ls \in Seq(LinkSet(D)),
         Tokens(V, T2, W, T, g, i, ls)
  PROVE  /\ IsFiniteSet(V)
         /\ \A s : Cardinality(To(V, T2, s)) = Cardinality(To(W, T, s)) + NumLinks(ls, s)
         /\ \A k, s : k # i => From(V, T2, k, s) = From(W, T, k, s)
         /\ \A s : Cardinality(From(V, T2, i, s)) = Cardinality(From(W, T, i, s)) + NumLinks(ls, s)
<1> DEFINE X(s) == TokensTo(g, ls, s)
<1>0. /\ V = W \cup {g[j] : j \in DOMAIN ls}
      /\ \A j \in DOMAIN ls : g[j] \notin W /\ g[j][1] = i /\ T2[g[j]] = ls[j].idx
      /\ \A j, m \in DOMAIN ls : g[j] = g[m] => j = m
      /\ \A w \in W : T2[w] = T[w]
  BY DEF Tokens
<1>1. \A s : IsFiniteSet(X(s)) /\ Cardinality(X(s)) = NumLinks(ls, s)
  BY <1>0, NewTokens
<1>2. \A s : To(V, T2, s) = To(W, T, s) \cup X(s) /\ To(W, T, s) \cap X(s) = {}
  <2> TAKE s
  <2>1. To(V, T2, s) = To(W, T, s) \cup X(s)
    BY <1>0 DEF To, TokensTo
  <2>2. To(W, T, s) \cap X(s) = {}
    BY <1>0 DEF To, TokensTo
  <2> QED BY <2>1, <2>2
<1>3. \A s : From(V, T2, i, s) = From(W, T, i, s) \cup X(s) /\ From(W, T, i, s) \cap X(s) = {}
  <2> TAKE s
  <2>1. From(V, T2, i, s) = From(W, T, i, s) \cup X(s)
    BY <1>0 DEF From, TokensTo
  <2>2. From(W, T, i, s) \cap X(s) = {}
    BY <1>0 DEF From, TokensTo
  <2> QED BY <2>1, <2>2
<1>4. \A k, s : k # i => From(V, T2, k, s) = From(W, T, k, s)
  BY <1>0 DEF From, TokensTo
<1>5. IsFiniteSet(V)
  <2>1. IsFiniteSet(DOMAIN ls)
    <3>1. Len(ls) \in Nat /\ DOMAIN ls = 1 .. Len(ls)
      BY LinkSeq
    <3> QED BY <3>1, FS_Interval
  <2> DEFINE Y == {g[j] : j \in DOMAIN ls}
  <2>2. Matches(g, DOMAIN ls, Y)
    BY <1>0 DEF Matches
  <2> HIDE DEF Y
  <2>3. IsFiniteSet(Y)
    BY <2>1, <2>2, SameCardinality
  <2>4. IsFiniteSet(W \cup Y)
    BY <2>3, FS_Union
  <2> QED BY <2>4, <1>0 DEF Y
<1> HIDE DEF X
<1>6. \A s : Cardinality(To(V, T2, s)) = Cardinality(To(W, T, s)) + NumLinks(ls, s)
  <2> TAKE s
  <2>1. IsFiniteSet(To(W, T, s))
    BY TokensFinite
  <2>2. Cardinality(To(W, T, s) \cup X(s)) = Cardinality(To(W, T, s)) + Cardinality(X(s))
    BY <2>1, <1>1, <1>2, DisjointUnion
  <2> QED BY <2>2, <1>1, <1>2
<1>7. \A s : Cardinality(From(V, T2, i, s)) = Cardinality(From(W, T, i, s)) + NumLinks(ls, s)
  <2> TAKE s
  <2>1. IsFiniteSet(From(W, T, i, s))
    BY TokensFinite
  <2>2. Cardinality(From(W, T, i, s) \cup X(s)) = Cardinality(From(W, T, i, s)) + Cardinality(X(s))
    BY <2>1, <1>1, <1>3, DisjointUnion
  <2> QED BY <2>2, <1>1, <1>3
<1> QED BY <1>4, <1>5, <1>6, <1>7

\* The tokens V are W without one token of i to x.
WithoutToken(V, W, T, i, x) ==
  /\ \A s : s # x => To(V, T, s) = To(W, T, s)
  /\ Cardinality(To(W, T, x)) > 0
  /\ Cardinality(To(V, T, x)) = Cardinality(To(W, T, x)) - 1
  /\ \A k, s : (k # i \/ s # x) => From(V, T, k, s) = From(W, T, k, s)
  /\ Cardinality(From(W, T, i, x)) > 0
  /\ Cardinality(From(V, T, i, x)) = Cardinality(From(W, T, i, x)) - 1

\* How the numbers of tokens change when one token goes.
LEMMA TokenDropped ==
  ASSUME NEW W, IsFiniteSet(W), NEW T, NEW v \in W
  PROVE  IsFiniteSet(W \ {v}) /\ WithoutToken(W \ {v}, W, T, v[1], T[v])
<1>1. IsFiniteSet(W \ {v})
  BY FS_RemoveElement
<1>2. \A s : s # T[v] => To(W \ {v}, T, s) = To(W, T, s)
  BY DEF To
<1>3. \A k, s : (k # v[1] \/ s # T[v]) => From(W \ {v}, T, k, s) = From(W, T, k, s)
  BY DEF From
<1>4. To(W \ {v}, T, T[v]) = To(W, T, T[v]) \ {v} /\ v \in To(W, T, T[v])
  BY DEF To
<1>5. From(W \ {v}, T, v[1], T[v]) = From(W, T, v[1], T[v]) \ {v} /\ v \in From(W, T, v[1], T[v])
  BY DEF From
<1>6. \A A : IsFiniteSet(A) /\ v \in A => Cardinality(A) \in Nat /\ Cardinality(A) > 0 /\ Cardinality(A \ {v}) = Cardinality(A) - 1
  <2> TAKE A
  <2> HAVE IsFiniteSet(A) /\ v \in A
  <2>1. Cardinality(A) \in Nat /\ (Cardinality(A) = 0 <=> A = {})
    BY FS_CardinalityType, FS_EmptySet
  <2>2. Cardinality(A \ {v}) = Cardinality(A) - 1
    BY FS_RemoveElement
  <2> QED BY <2>1, <2>2
<1> QED BY <1>1, <1>2, <1>3, <1>4, <1>5, <1>6, TokensFinite DEF WithoutToken

-----------------------------------------------------------------------------
(* The agreement of the parts of a builder.                                *)

\* The cells with links to D.
CellRec(D) == [type : CellTypes, links : Seq(LinkSet(D)), refcount : Nat]

\* The entries are cells with links to entries.
CellsOK(e) == (\E n \in Nat : DOMAIN e = 0 .. n - 1) /\ \A x \in DOMAIN e : e[x] \in CellRec(DOMAIN e)

\* Depths are numbers, or invalid.
DepthsOK(dep, D) == \A x \in D : dep[x] \in Nat \cup {InvalidDepth}

\* The free list holds each dead entry once.
FreeOf(empty, D, L) ==
  /\ empty \in Seq(D)
  /\ \A j, k \in 1 .. Len(empty) : empty[j] = empty[k] => j = k
  /\ \A j \in 1 .. Len(empty) : empty[j] \notin L
  /\ \A x \in D \ L : \E j \in 1 .. Len(empty) : empty[j] = x

\* The keys of the hash lead to cells that have them.
KeysOf(strash, e, L) ==
  \A key \in DOMAIN strash :
    /\ strash[key] \in L
    /\ StrashKey(e[strash[key]].type, e[strash[key]].links) = key
    /\ StrashEnabled(e[strash[key]].type)

\* The tokens lead to D and the reference counters count them.
Refs(e, D, W, T) ==
  /\ IsFiniteSet(W)
  /\ \A w \in W : T[w] \in D
  /\ \A s \in DOMAIN e : e[s].refcount = Cardinality(To(W, T, s))

\* The fanout lists, if any, list the tokens.
Fan(enabled, f, W, T) ==
  /\ enabled \in BOOLEAN
  /\ ~enabled => f = << >>
  /\ enabled => /\ DOMAIN f \subseteq Nat /\ Lists(f)
                /\ \A s, k \in Nat : Occ(ListOf(f, s), k) = Cardinality(From(W, T, k, s))

\* The number of cells of L of type t.
Num(e, L, t) == Cardinality({x \in L : e[x].type = t})

\* The counters of b are right, but for the counter of buffers, which is z too high.
Counts(b, z) ==
  /\ b.nCell = Cardinality(Live(b))
  /\ b.nIn = Num(b.entries, Live(b), "IN")
  /\ b.nOut = Num(b.entries, Live(b), "OUT")
  /\ b.nBuf = Num(b.entries, Live(b), "BUF") + z

\* The parts of b agree: the tokens W stand for the links, which need not be the links
\* that the cells have (in the midst of replaceCell they differ), p numbers the live cells
\* in their order, and the counter of buffers is z too high.
Core(b, W, T, p, z) ==
  /\ CellsOK(b.entries) /\ DepthsOK(b.depth, DOMAIN b.entries)
  /\ FreeOf(b.empty, DOMAIN b.entries, Live(b))
  /\ KeysOf(b.strash, b.entries, Live(b))
  /\ Refs(b.entries, Drivers(b), W, T)
  /\ Fan(b.fanoutsEnabled, b.fanouts, W, T)
  /\ Ordered(b, Live(b), p)
  /\ Counts(b, z)
  /\ b.fault = FALSE

\* The entries e2 and e differ at most in their reference counters.
SameCells(e2, e) ==
  DOMAIN e2 = DOMAIN e /\ \A x \in DOMAIN e : e2[x].type = e[x].type /\ e2[x].links = e[x].links

\* The links of the cells of K are their tokens.
Wired(e, K, W, T) ==
  \A k \in K : /\ \A j \in DOMAIN e[k].links : <<k, j>> \in W /\ T[<<k, j>>] = e[k].links[j].idx
               /\ \A w \in W : w[1] = k => \E j \in DOMAIN e[k].links : w = <<k, j>>

\* The depths of the cells of K are exact.
ExactOn(b, K) == \A k \in K : IsDepthOver(b, b.entries[k].links, b.depth[k])

\* The cells of K have as many links as their types ask for.
Arities(e, K) == \A k \in K : Arity(e[k].type, e[k].links)

\* The size of an array.
LEMMA SizeIs ==
  ASSUME NEW f, NEW n \in Nat, DOMAIN f = 0 .. n - 1
  PROVE  Size(f) = n /\ IsFiniteSet(DOMAIN f)
<1>1. IsFiniteSet(0 .. n - 1) /\ Cardinality(0 .. n - 1) = IF 0 > n - 1 THEN 0 ELSE (n - 1) - 0 + 1
  BY FS_Interval
<1>2. Cardinality(0 .. n - 1) = n
  BY <1>1
<1> QED BY <1>1, <1>2 DEF Size

\* The fields of a cell, also when its reference counter is changed.
LEMMA CellFields ==
  ASSUME NEW e, CellsOK(e), NEW x \in DOMAIN e
  PROVE  /\ e[x].type \in CellTypes /\ e[x].links \in Seq(LinkSet(DOMAIN e)) /\ e[x].refcount \in Nat
         /\ \A v : /\ [e[x] EXCEPT !.refcount = v].type = e[x].type
                   /\ [e[x] EXCEPT !.refcount = v].links = e[x].links
                   /\ [e[x] EXCEPT !.refcount = v].refcount = v
         /\ \A v \in Nat : [e[x] EXCEPT !.refcount = v] \in CellRec(DOMAIN e)
<1>1. e[x] \in CellRec(DOMAIN e)
  BY DEF CellsOK
<1> QED BY <1>1 DEF CellRec

\* The links of a cell lead to slots.
LEMMA LinksOf ==
  ASSUME NEW e, CellsOK(e), NEW x \in DOMAIN e
  PROVE  /\ Len(e[x].links) \in Nat /\ DOMAIN e[x].links = 1 .. Len(e[x].links)
         /\ \A j \in DOMAIN e[x].links : e[x].links[j].idx \in DOMAIN e /\ e[x].links[j].inv \in BOOLEAN
<1>1. e[x].links \in Seq(LinkSet(DOMAIN e))
  BY CellFields
<1> QED BY <1>1, LinkSeq

\* The order does not depend on reference counters, fanouts and the hash.
LEMMA OrderedSame ==
  ASSUME NEW b, NEW r, NEW L, NEW p, Ordered(b, L, p), IsRec(r), SameCells(r.entries, b.entries),
         r.prev = b.prev, r.next = b.next, r.begin = b.begin, r.end = b.end,
         r.depth = b.depth, r.depthBounds = b.depthBounds
  PROVE  Ordered(r, L, p)
<1>1. DOMAIN r.entries = DOMAIN b.entries /\ L \subseteq DOMAIN b.entries
  BY DEF SameCells, Ordered
<1>2. Arrays(r)
  BY <1>1 DEF Ordered, Arrays
<1>3. Thread(r, L, p)
  BY ThreadFields DEF Ordered
<1>4. Inner(r, L) = Inner(b, L)
  BY <1>1 DEF Inner, SameCells
<1>5. InsFirst(r, L, p)
  BY <1>1 DEF InsFirst, SameCells, Ordered
<1> QED BY <1>1, <1>2, <1>3, <1>4, <1>5 DEF Ordered

\* The parts of the invariant that depend on the types and the links only.
LEMMA KeysSame ==
  ASSUME NEW st, NEW e, NEW e2, NEW L, KeysOf(st, e, L), SameCells(e2, e), L \subseteq DOMAIN e
  PROVE  KeysOf(st, e2, L)
BY DEF KeysOf, SameCells

\* The numbers of cells do not depend on reference counters.
LEMMA NumSame ==
  ASSUME NEW e, NEW e2, SameCells(e2, e), NEW L, L \subseteq DOMAIN e, NEW t
  PROVE  Num(e2, L, t) = Num(e, L, t)
<1>1. {x \in L : e2[x].type = t} = {x \in L : e[x].type = t}
  BY DEF SameCells
<1> QED BY <1>1 DEF Num

\* What is live does not depend on reference counters.
LEMMA LiveSame ==
  ASSUME NEW b, NEW r, SameCells(r.entries, b.entries), r.depth = b.depth
  PROVE  Live(r) = Live(b) /\ Drivers(r) = Drivers(b)
BY DEF Live, Drivers, SameCells

\* Only reference counters, fanouts, the fault flag and the log have changed.
LEMMA CoreSame ==
  ASSUME NEW b, NEW r, NEW W, NEW T, NEW p, NEW z, Core(b, W, T, p, z), NEW V, NEW T2,
         Same(r, b, {"entries", "fanouts", "fanoutsEnabled", "log"}), SameCells(r.entries, b.entries), CellsOK(r.entries),
         Refs(r.entries, Drivers(b), V, T2), Fan(r.fanoutsEnabled, r.fanouts, V, T2)
  PROVE  Core(r, V, T2, p, z) /\ Live(r) = Live(b) /\ Drivers(r) = Drivers(b)
<1>1. IsRec(b)
  BY DEF Core, Ordered, Arrays
<1>2. /\ IsRec(r) /\ r.prev = b.prev /\ r.next = b.next /\ r.begin = b.begin /\ r.end = b.end
      /\ r.depth = b.depth /\ r.depthBounds = b.depthBounds /\ r.empty = b.empty /\ r.strash = b.strash
      /\ r.nCell = b.nCell /\ r.nIn = b.nIn /\ r.nOut = b.nOut /\ r.nBuf = b.nBuf /\ r.fault = b.fault
  BY <1>1 DEF IsRec, EmptyBuilder, Same
<1>3. Live(r) = Live(b) /\ Drivers(r) = Drivers(b)
  BY <1>2, LiveSame
<1>4. DOMAIN r.entries = DOMAIN b.entries /\ Live(b) \subseteq DOMAIN b.entries
  BY DEF SameCells, Live
<1>5. Ordered(r, Live(b), p)
  BY <1>2, OrderedSame DEF Core
<1>6. KeysOf(r.strash, r.entries, Live(b))
  BY <1>2, <1>4, KeysSame DEF Core
<1>7. Counts(r, z)
  BY <1>2, <1>3, <1>4, NumSame DEF Core, Counts
<1> QED BY <1>2, <1>3, <1>4, <1>5, <1>6, <1>7 DEF Core

\* A builder with another log.
LEMMA CoreLog ==
  ASSUME NEW b, NEW r, NEW W, NEW T, NEW p, NEW z, Core(b, W, T, p, z), Same(r, b, {"log"})
  PROVE  /\ Core(r, W, T, p, z) /\ Live(r) = Live(b) /\ Drivers(r) = Drivers(b)
         /\ r.entries = b.entries /\ r.depth = b.depth
<1>1. IsRec(b)
  BY DEF Core, Ordered, Arrays
<1>2. r.entries = b.entries /\ r.fanouts = b.fanouts /\ r.fanoutsEnabled = b.fanoutsEnabled /\ r.depth = b.depth
  BY <1>1 DEF IsRec, EmptyBuilder, Same
<1>3. Same(r, b, {"entries", "fanouts", "fanoutsEnabled", "log"})
  BY DEF Same
<1>4. SameCells(r.entries, b.entries)
  BY <1>2 DEF SameCells
<1> QED BY <1>2, <1>3, <1>4, CoreSame DEF Core

\* The entries after LinkTo.
Linked(e, ls) == [k \in DOMAIN e |-> [e[k] EXCEPT !.refcount = @ + NumLinks(ls, k)]]

\* LinkTo changes reference counters only, by the number of the links.
LEMMA LinkedCells ==
  ASSUME NEW e, CellsOK(e), NEW D, NEW ls \in Seq(LinkSet(D))
  PROVE  /\ CellsOK(Linked(e, ls)) /\ SameCells(Linked(e, ls), e)
         /\ \A k \in DOMAIN e : Linked(e, ls)[k].refcount = e[k].refcount + NumLinks(ls, k)
<1>1. \A k : NumLinks(ls, k) \in Nat
  <2> DEFINE g == [j \in DOMAIN ls |-> j]
  <2>2. \A j, m \in DOMAIN ls : g[j] = g[m] => j = m
    OBVIOUS
  <2> HIDE DEF g
  <2> QED BY <2>2, NewTokens
<1>2a. \A k \in DOMAIN e : Linked(e, ls)[k] = [e[k] EXCEPT !.refcount = e[k].refcount + NumLinks(ls, k)]
  BY DEF Linked
<1>2b. \A k \in DOMAIN e : e[k].refcount + NumLinks(ls, k) \in Nat
  <2> TAKE k \in DOMAIN e
  <2>1. e[k].refcount \in Nat /\ NumLinks(ls, k) \in Nat
    BY <1>1, CellFields
  <2> QED BY <2>1
<1>3. DOMAIN Linked(e, ls) = DOMAIN e
  BY DEF Linked
<1>4. \A k \in DOMAIN e : /\ Linked(e, ls)[k] \in CellRec(DOMAIN e)
                          /\ Linked(e, ls)[k].type = e[k].type /\ Linked(e, ls)[k].links = e[k].links
                          /\ Linked(e, ls)[k].refcount = e[k].refcount + NumLinks(ls, k)
  <2> TAKE k \in DOMAIN e
  <2> DEFINE v == e[k].refcount + NumLinks(ls, k)
  <2>1. v \in Nat /\ Linked(e, ls)[k] = [e[k] EXCEPT !.refcount = v]
    BY <1>2a, <1>2b
  <2> HIDE DEF v
  <2>2. /\ [e[k] EXCEPT !.refcount = v] \in CellRec(DOMAIN e)
        /\ [e[k] EXCEPT !.refcount = v].type = e[k].type
        /\ [e[k] EXCEPT !.refcount = v].links = e[k].links
        /\ [e[k] EXCEPT !.refcount = v].refcount = v
    BY <2>1, CellFields
  <2> QED BY <2>1, <2>2 DEF v
<1>5. CellsOK(Linked(e, ls))
  BY <1>3, <1>4 DEF CellsOK
<1> QED BY <1>3, <1>4, <1>5 DEF SameCells

\* After LinkTo the reference counters count the new links too.
LEMMA RefsLinked ==
  ASSUME NEW e, CellsOK(e), NEW D, NEW W, NEW T, Refs(e, D, W, T), NEW i, NEW ls \in Seq(LinkSet(D)),
         NEW V, NEW T2, NEW g, Tokens(V, T2, W, T, g, i, ls)
  PROVE  Refs(Linked(e, ls), D, V, T2)
<1>1. /\ IsFiniteSet(V)
      /\ \A s : Cardinality(To(V, T2, s)) = Cardinality(To(W, T, s)) + NumLinks(ls, s)
  BY TokensAdded DEF Refs
<1>2. DOMAIN Linked(e, ls) = DOMAIN e /\ \A k \in DOMAIN e : Linked(e, ls)[k].refcount = e[k].refcount + NumLinks(ls, k)
  BY LinkedCells DEF SameCells
<1>3. \A w \in V : T2[w] \in D
  <2>1. \A j \in DOMAIN ls : ls[j].idx \in D
    BY LinkSeq
  <2> QED BY <2>1 DEF Tokens, Refs
<1> QED BY <1>1, <1>2, <1>3 DEF Refs

\* After LinkTo the fanout lists list the new links too.
LEMMA FanLinked ==
  ASSUME NEW enabled, NEW f, NEW W, IsFiniteSet(W), NEW T, Fan(enabled, f, W, T), NEW i \in Nat,
         NEW ls \in Seq(LinkSet(Nat)),
         NEW V, NEW T2, NEW g, Tokens(V, T2, W, T, g, i, ls)
  PROVE  Fan(enabled, IF enabled THEN PushFanouts(f, i, ls) ELSE f, V, T2)
<1>1. CASE ~enabled
  BY <1>1 DEF Fan
<1>2. CASE enabled
  <2> DEFINE h == PushFanouts(f, i, ls)
  <2>1. Pushed(h, f, i, ls, Len(ls))
    BY <1>2, PushFanoutsLists DEF Fan
  <2> HIDE DEF h
  <2>2. \A s, k \in Nat : Occ(ListOf(f, s), k) = Cardinality(From(W, T, k, s))
    BY <1>2 DEF Fan
  <2>3. /\ \A k, s : k # i => From(V, T2, k, s) = From(W, T, k, s)
        /\ \A s : Cardinality(From(V, T2, i, s)) = Cardinality(From(W, T, i, s)) + NumLinks(ls, s)
    BY TokensAdded
  <2>4. \A s : NumLinks(ls, s) = Cardinality(PartOf(ls, Len(ls), s))
    BY NumLinksPart
  <2>5. ASSUME NEW s \in Nat, NEW k \in Nat PROVE Occ(ListOf(h, s), k) = Cardinality(From(V, T2, k, s))
    <3>1. CASE k = i
      <4>1. Occ(ListOf(h, s), i) = Occ(ListOf(f, s), i) + Cardinality(PartOf(ls, Len(ls), s))
        BY <2>1 DEF Pushed
      <4> QED BY <3>1, <4>1, <2>2, <2>3, <2>4
    <3>2. CASE k # i
      BY <3>2, <2>1, <2>2, <2>3 DEF Pushed
    <3> QED BY <3>1, <3>2
  <2> QED BY <1>2, <2>1, <2>5 DEF Fan, Pushed, h
<1> QED BY <1>1, <1>2 DEF Fan

\* LinkTo adds the tokens of the links.
LEMMA LinkToCore ==
  ASSUME NEW b, NEW W, NEW T, NEW p, NEW z, Core(b, W, T, p, z), NEW i \in Nat, NEW ls \in Seq(LinkSet(Drivers(b))),
         NEW V, NEW T2, NEW g, Tokens(V, T2, W, T, g, i, ls)
  PROVE  /\ Core(LinkTo(b, i, ls), V, T2, p, z)
         /\ Same(LinkTo(b, i, ls), b, {"entries", "fanouts"}) /\ SameCells(LinkTo(b, i, ls).entries, b.entries)
<1> DEFINE r == LinkTo(b, i, ls)
<1>1. IsRec(b) /\ DOMAIN b.entries \subseteq Nat
  BY DEF Core, Ordered, Arrays
<1>2. /\ Same(r, b, {"entries", "fanouts"}) /\ r.entries = Linked(b.entries, ls)
      /\ r.fanoutsEnabled = b.fanoutsEnabled
      /\ r.fanouts = IF b.fanoutsEnabled THEN PushFanouts(b.fanouts, i, ls) ELSE b.fanouts
  BY <1>1 DEF LinkTo, Linked, IsRec, EmptyBuilder, Same
<1> SUFFICES Core(r, V, T2, p, z) /\ SameCells(r.entries, b.entries)
  BY <1>2
<1> HIDE DEF r
<1>3. CellsOK(r.entries) /\ SameCells(r.entries, b.entries)
  BY <1>2, LinkedCells DEF Core
<1>4. Refs(r.entries, Drivers(b), V, T2)
  BY <1>2, RefsLinked DEF Core
<1>5. ls \in Seq(LinkSet(Nat))
  <2>1. Drivers(b) \subseteq Nat
    BY <1>1 DEF Drivers, Live
  <2>2. LinkSet(Drivers(b)) \subseteq LinkSet(Nat)
    BY <2>1 DEF LinkSet
  <2> QED BY <2>2
<1>6. Fan(r.fanoutsEnabled, r.fanouts, V, T2)
  BY <1>2, <1>5, FanLinked DEF Core, Refs
<1>7. Same(r, b, {"entries", "fanouts", "fanoutsEnabled", "log"})
  BY <1>2 DEF Same
<1> QED BY <1>3, <1>4, <1>6, <1>7, CoreSame

-----------------------------------------------------------------------------
(* The invariant between two calls.                                        *)

\* The cells that the links lead to.
Targets(b) == [w \in Wires(b) |-> WireTo(b, w)]

\* The invariant of a builder between two calls; p numbers the live cells in their order.
Net(b, p) ==
  /\ Core(b, Wires(b), Targets(b), p, 0)
  /\ ExactOn(b, Live(b))
  /\ Arities(b.entries, Live(b))

\* Links to D are links to a larger set.
LEMMA SeqMono ==
  ASSUME NEW D, NEW E, D \subseteq E, NEW ls \in Seq(LinkSet(D))
  PROVE  ls \in Seq(LinkSet(E))
<1>1. LinkSet(D) \subseteq LinkSet(E)
  BY DEF LinkSet
<1> QED BY <1>1

\* The levels depend on the depths of the inner cells only.
LEMMA LevelsDepth ==
  ASSUME NEW In, NEW L, NEW p, NEW dep, NEW dep2, NEW bnd, Levels(In, L, p, dep, bnd), \A x \in In : dep2[x] = dep[x]
  PROVE  Levels(In, L, p, dep2, bnd)
<1>1. \A d \in DOMAIN bnd : Bound(In, p, dep2, d, bnd[d])
  <2> TAKE d \in DOMAIN bnd
  <2>1. Bound(In, p, dep, d, bnd[d])
    BY DEF Levels
  <2> QED BY <2>1 DEF Bound
<1> QED BY <1>1 DEF Levels

\* The order of L depends on the cells of L only.
LEMMA OrderedOn ==
  ASSUME NEW b, NEW r, NEW L, NEW p, Ordered(b, L, p), Arrays(r), L \subseteq DOMAIN r.entries,
         \A x \in L : /\ r.entries[x].type = b.entries[x].type /\ r.depth[x] = b.depth[x]
                      /\ r.prev[x] = b.prev[x] /\ r.next[x] = b.next[x],
         r.begin = b.begin, r.end = b.end, r.depthBounds = b.depthBounds
  PROVE  Ordered(r, L, p)
<1>1. \A x \in L : Nx(r, x) = Nx(b, x) /\ Pv(r, x) = Pv(b, x)
  BY DEF Nx, Pv
<1>2. Thread(r, L, p)
  BY <1>1 DEF Ordered, Thread
<1>3. Inner(r, L) = Inner(b, L) /\ Inner(b, L) \subseteq L
  BY DEF Inner
<1>4. Levels(Inner(r, L), L, p, r.depth, r.depthBounds)
  <2>1. Levels(Inner(b, L), L, p, b.depth, b.depthBounds)
    BY DEF Ordered
  <2>2. \A x \in Inner(b, L) : r.depth[x] = b.depth[x]
    BY <1>3
  <2> QED BY <2>1, <2>2, <1>3, LevelsDepth
<1>5. InsFirst(r, L, p)
  <2>1. InsFirst(b, L, p)
    BY DEF Ordered
  <2> QED BY <2>1 DEF InsFirst
<1> QED BY <1>2, <1>4, <1>5 DEF Ordered

\* The entries e2 and e have the same cells at L, up to their reference counters.
SameOn(e2, e, L) == \A x \in L : e2[x].type = e[x].type /\ e2[x].links = e[x].links

\* One more cell is one more cell of its type.
LEMMA NumAdd ==
  ASSUME NEW L, IsFiniteSet(L), NEW i, i \notin L, NEW e, NEW e2, SameOn(e2, e, L), NEW t
  PROVE  /\ e2[i].type = t => Num(e2, L \cup {i}, t) = Num(e, L, t) + 1
         /\ e2[i].type # t => Num(e2, L \cup {i}, t) = Num(e, L, t)
<1> DEFINE A == {x \in L : e[x].type = t}
<1>1. A \in SUBSET L
  OBVIOUS
<1>2. IsFiniteSet(A) /\ i \notin A
  BY <1>1, FS_Subset
<1>3. Cardinality(A) \in Nat
  <2> HIDE DEF A
  <2> QED BY <1>2, FS_CardinalityType
<1>4. {x \in L \cup {i} : e2[x].type = t} = IF e2[i].type = t THEN A \cup {i} ELSE A
  BY DEF SameOn
<1>5. Num(e, L, t) = Cardinality(A) /\ Num(e2, L \cup {i}, t) = Cardinality(IF e2[i].type = t THEN A \cup {i} ELSE A)
  BY <1>4 DEF Num
<1> HIDE DEF A
<1>6. CASE e2[i].type = t
  BY <1>6, <1>2, <1>3, <1>5, FS_AddElement
<1>7. CASE e2[i].type # t
  BY <1>7, <1>3, <1>5
<1> QED BY <1>6, <1>7

\* Numbers of cells are natural numbers.
LEMMA NumType ==
  ASSUME NEW L, IsFiniteSet(L), NEW e, NEW t
  PROVE  Num(e, L, t) \in Nat
<1>1. {x \in L : e[x].type = t} \in SUBSET L
  OBVIOUS
<1> QED BY <1>1, FS_Subset, FS_CardinalityType DEF Num

\* What an ordered builder has.
LEMMA CoreFacts ==
  ASSUME NEW b, NEW W, NEW T, NEW p, NEW z, Core(b, W, T, p, z)
  PROVE  /\ IsRec(b) /\ Arrays(b) /\ Live(b) \subseteq DOMAIN b.entries /\ Drivers(b) \subseteq Live(b) /\ DOMAIN b.entries \subseteq Nat
         /\ IsFiniteSet(Live(b)) /\ Cardinality(Live(b)) \in Nat
         /\ Size(b.entries) \in Nat /\ DOMAIN b.entries = 0 .. Size(b.entries) - 1 /\ Cardinality(Live(b)) <= Size(b.entries)
         /\ b.begin # NormalOrderID /\ b.end # NormalOrderID
         /\ Inner(b, Live(b)) = Drivers(b)
         /\ \A x \in Live(b) : b.depth[x] \in Nat
         /\ \E m \in Nat : \A x \in Drivers(b) : b.depth[x] < m
<1>1. Ordered(b, Live(b), p) /\ Arrays(b) /\ IsFiniteSet(Live(b)) /\ Live(b) \subseteq DOMAIN b.entries
  BY DEF Core, Ordered
<1>2. IsRec(b) /\ DOMAIN b.entries \subseteq Nat
  BY <1>1 DEF Arrays
<1>3. PICK n \in Nat : DOMAIN b.entries = 0 .. n - 1
  BY DEF Core, CellsOK
<1>4. Size(b.entries) = n /\ IsFiniteSet(DOMAIN b.entries)
  BY <1>3, SizeIs
<1>5. Cardinality(Live(b)) \in Nat /\ Cardinality(Live(b)) <= Size(b.entries)
  <2>1. Cardinality(Live(b)) <= Cardinality(DOMAIN b.entries)
    BY <1>1, <1>4, FS_Subset
  <2> QED BY <2>1, <1>1, FS_CardinalityType DEF Size
<1>6. b.begin # NormalOrderID /\ b.end # NormalOrderID
  <2>1. Thread(b, Live(b), p) /\ Live(b) \in SUBSET DOMAIN b.entries
    BY <1>1 DEF Ordered
  <2> QED BY <2>1, <1>1, ThreadEnds
<1>7. Inner(b, Live(b)) = Drivers(b) /\ Drivers(b) \subseteq Live(b)
  BY DEF Inner, Drivers
<1>8. \A x \in Live(b) : b.depth[x] \in Nat
  BY DEF Core, DepthsOK, Live
<1>9. \E m \in Nat : \A x \in Drivers(b) : b.depth[x] < m
  <2>1. Levels(Drivers(b), Live(b), p, b.depth, b.depthBounds)
    BY <1>1, <1>7 DEF Ordered
  <2>2. PICK m \in Nat : DOMAIN b.depthBounds = 0 .. m - 1
    BY <2>1 DEF Levels
  <2>3. \A x \in Drivers(b) : b.depth[x] < m
    BY <2>1, <2>2 DEF Levels
  <2> QED BY <2>3
<1> QED BY <1>1, <1>2, <1>3, <1>4, <1>5, <1>6, <1>7, <1>8, <1>9

\* The links of a wired cell lead to drivers.
LEMMA WiredLinks ==
  ASSUME NEW b, NEW W, NEW T, NEW p, NEW z, Core(b, W, T, p, z), NEW K, Wired(b.entries, K, W, T), NEW k \in K,
         NEW j \in DOMAIN b.entries[k].links
  PROVE  b.entries[k].links[j].idx \in Drivers(b)
<1>1. <<k, j>> \in W /\ T[<<k, j>>] = b.entries[k].links[j].idx
  BY DEF Wired
<1> QED BY <1>1 DEF Core, Refs

\* The wires of a builder are the links of its live cells.
LEMMA WiresWired ==
  ASSUME NEW b
  PROVE  /\ Wired(b.entries, Live(b), Wires(b), Targets(b))
         /\ \A w \in Wires(b) : w = <<w[1], w[2]>> /\ w[1] \in Live(b)
<1>1. \A k \in Live(b) : \A j \in DOMAIN b.entries[k].links : <<k, j>> \in Wires(b) /\ Targets(b)[<<k, j>>] = b.entries[k].links[j].idx
  <2> TAKE k \in Live(b)
  <2> TAKE j \in DOMAIN b.entries[k].links
  <2>1. <<k, j>> \in Wires(b)
    BY DEF Wires
  <2> QED BY <2>1 DEF Targets, WireTo
<1>2. \A w \in Wires(b) : \E k \in Live(b) : \E j \in DOMAIN b.entries[k].links : w = <<k, j>>
  BY DEF Wires
<1>3. \A w \in Wires(b) : w = <<w[1], w[2]>> /\ w[1] \in Live(b) /\ w[2] \in DOMAIN b.entries[w[1]].links
  BY <1>2
<1> QED BY <1>1, <1>3 DEF Wired

\* The links of a live cell lead to live cells other than outputs.
LEMMA NetLinks ==
  ASSUME NEW b, NEW p, Net(b, p), NEW k \in Live(b), NEW j \in DOMAIN b.entries[k].links
  PROVE  b.entries[k].links[j].idx \in Drivers(b)
BY WiresWired, WiredLinks DEF Net

-----------------------------------------------------------------------------
(* Adding a cell.                                                          *)

\* The hash with one more key.
StrashWith(st, key, i) ==
  IF key \in DOMAIN st THEN st ELSE [k \in DOMAIN st \cup {key} |-> IF k = key THEN i ELSE st[k]]

\* The arrays of c are those of b with entry i.
GrownArray(f, g, D, i) ==
  DOMAIN f = D \cup {i} /\ (\A x \in D : f[x] = g[x]) /\ (i \notin D => f[i] = NormalOrderID)

\* The builder c is b with a new cell in slot i, not placed yet.
Allocated(c, b, t, ls, i) ==
  /\ IsRec(c) /\ c.begin = b.begin /\ c.end = b.end /\ c.depthBounds = b.depthBounds /\ c.fault = b.fault
  /\ c.nIn = b.nIn /\ c.nOut = b.nOut /\ c.nCell = b.nCell + 1 /\ c.nBuf = IF t = "BUF" THEN b.nBuf + 1 ELSE b.nBuf
  /\ c.fanoutsEnabled = b.fanoutsEnabled
  /\ c.fanouts = IF b.fanoutsEnabled THEN PushFanouts(b.fanouts, i, ls) ELSE b.fanouts
  /\ c.strash = IF StrashEnabled(t) THEN StrashWith(b.strash, StrashKey(t, ls), i) ELSE b.strash
  /\ c.empty = IF b.empty # << >> THEN Front(b.empty) ELSE b.empty
  /\ DOMAIN c.entries = DOMAIN b.entries \cup {i} /\ c.entries[i] = Cell(t, ls)
  /\ \A x \in DOMAIN b.entries \ {i} : c.entries[x] = Linked(b.entries, ls)[x]
  /\ GrownArray(c.prev, b.prev, DOMAIN b.entries, i) /\ GrownArray(c.next, b.next, DOMAIN b.entries, i)
  /\ DOMAIN c.depth = DOMAIN b.entries \cup {i} /\ c.depth[i] = DepthOver(b, ls)
  /\ \A x \in DOMAIN b.entries \ {i} : c.depth[x] = b.depth[x]

\* Grow by one.
GrownBy(g, f, n, x) == DOMAIN g = (0 .. n - 1) \cup {n} /\ (\A y \in 0 .. n - 1 : g[y] = f[y]) /\ g[n] = x

\* Growing an array by one.
LEMMA GrowOne ==
  ASSUME NEW f, NEW n \in Nat, DOMAIN f = 0 .. n - 1, NEW x
  PROVE  GrownBy(Grow(f, n + 1, x), f, n, x)
<1>1. (0 .. n - 1) \cup (0 .. (n + 1) - 1) = (0 .. n - 1) \cup {n} /\ n \notin 0 .. n - 1
  OBVIOUS
<1> QED BY <1>1 DEF Grow, GrownBy

\* The builder c is b with slot i taken.
SlotMade(c, b, i, isBuf) ==
  /\ Same(c, b, {"nCell", "nBuf", "empty", "entries", "prev", "next", "depth"})
  /\ c.nCell = b.nCell + 1 /\ c.nBuf = IF isBuf THEN b.nBuf + 1 ELSE b.nBuf
  /\ c.empty = IF b.empty # << >> THEN Front(b.empty) ELSE b.empty
  /\ DOMAIN c.entries = DOMAIN b.entries \cup {i} /\ \A x \in DOMAIN b.entries : c.entries[x] = b.entries[x]
  /\ GrownArray(c.prev, b.prev, DOMAIN b.entries, i) /\ GrownArray(c.next, b.next, DOMAIN b.entries, i)
  /\ DOMAIN c.depth = DOMAIN b.entries \cup {i} /\ \A x \in DOMAIN b.entries : c.depth[x] = b.depth[x]

\* allocSlot takes the last free slot, or grows the arrays by one slot.
LEMMA AllocSlot ==
  ASSUME NEW b, IsRec(b), NEW n \in Nat, Size(b.entries) = n, DOMAIN b.entries = 0 .. n - 1,
         DOMAIN b.prev = 0 .. n - 1, DOMAIN b.next = 0 .. n - 1, DOMAIN b.depth = 0 .. n - 1,
         NEW i, i = NextSlot(b), b.empty # << >> => i \in 0 .. n - 1, NEW isBuf
  PROVE  SlotMade(allocSlot(b, isBuf), b, i, isBuf)
<1> DEFINE c == allocSlot(b, isBuf)
           b1 == [b EXCEPT !.nCell = @ + 1, !.nBuf = IF isBuf THEN @ + 1 ELSE @]
<1>1. /\ Same(b1, b, {"nCell", "nBuf"}) /\ b1.nCell = b.nCell + 1 /\ b1.nBuf = IF isBuf THEN b.nBuf + 1 ELSE b.nBuf
      /\ IsRec(b1) /\ b1.empty = b.empty /\ b1.entries = b.entries /\ b1.prev = b.prev /\ b1.next = b.next /\ b1.depth = b.depth
  BY DEF IsRec, EmptyBuilder, Same
<1>2. c = IF b.empty # << >> THEN [b1 EXCEPT !.empty = Front(@)]
          ELSE [b1 EXCEPT !.entries = Grow(@, n + 1, Cell("NULL", << >>)),
                          !.prev = Grow(@, n + 1, NormalOrderID),
                          !.next = Grow(@, n + 1, NormalOrderID),
                          !.depth = Grow(@, n + 1, InvalidDepth)]
  BY DEF allocSlot
<1> SUFFICES SlotMade(c, b, i, isBuf)
  OBVIOUS
<1> HIDE DEF c, b1
<1>3. CASE b.empty # << >>
  <2>1. c = [b1 EXCEPT !.empty = Front(@)]
    BY <1>2, <1>3
  <2>2. /\ Same(c, b, {"nCell", "nBuf", "empty", "entries", "prev", "next", "depth"})
        /\ c.empty = Front(b.empty) /\ c.nCell = b1.nCell /\ c.nBuf = b1.nBuf
        /\ c.entries = b.entries /\ c.prev = b.prev /\ c.next = b.next /\ c.depth = b.depth
    BY <2>1, <1>1 DEF IsRec, EmptyBuilder, Same
  <2>3. DOMAIN b.entries \cup {i} = DOMAIN b.entries /\ i \in DOMAIN b.entries
    BY <1>3
  <2> QED BY <2>2, <2>3, <1>1, <1>3 DEF GrownArray, SlotMade
<1>4. CASE b.empty = << >>
  <2>0. i = n
    BY <1>4 DEF NextSlot
  <2>1. c = [b1 EXCEPT !.entries = Grow(@, n + 1, Cell("NULL", << >>)),
                          !.prev = Grow(@, n + 1, NormalOrderID),
                          !.next = Grow(@, n + 1, NormalOrderID),
                          !.depth = Grow(@, n + 1, InvalidDepth)]
    BY <1>2, <1>4
  <2>2. /\ Same(c, b, {"nCell", "nBuf", "empty", "entries", "prev", "next", "depth"})
        /\ c.empty = b.empty /\ c.nCell = b1.nCell /\ c.nBuf = b1.nBuf
        /\ c.entries = Grow(b.entries, n + 1, Cell("NULL", << >>))
        /\ c.prev = Grow(b.prev, n + 1, NormalOrderID)
        /\ c.next = Grow(b.next, n + 1, NormalOrderID)
        /\ c.depth = Grow(b.depth, n + 1, InvalidDepth)
    BY <2>1, <1>1 DEF IsRec, EmptyBuilder, Same
  <2>4. /\ GrownBy(c.entries, b.entries, n, Cell("NULL", << >>)) /\ GrownBy(c.prev, b.prev, n, NormalOrderID)
        /\ GrownBy(c.next, b.next, n, NormalOrderID) /\ GrownBy(c.depth, b.depth, n, InvalidDepth)
    BY <2>2, GrowOne
  <2>5. DOMAIN c.entries = DOMAIN b.entries \cup {i} /\ \A x \in DOMAIN b.entries : c.entries[x] = b.entries[x]
    BY <2>0, <2>4 DEF GrownBy
  <2>6. DOMAIN c.depth = DOMAIN b.entries \cup {i} /\ \A x \in DOMAIN b.entries : c.depth[x] = b.depth[x]
    BY <2>0, <2>4 DEF GrownBy
  <2>7. GrownArray(c.prev, b.prev, DOMAIN b.entries, i) /\ GrownArray(c.next, b.next, DOMAIN b.entries, i)
    BY <2>0, <2>4 DEF GrownBy, GrownArray
  <2> QED BY <2>2, <2>5, <2>6, <2>7, <1>1, <1>4 DEF SlotMade
<1> QED BY <1>3, <1>4

\* What allocEntry has done when it comes to placing the new cell.
LEMMA NewEntryFields ==
  ASSUME NEW b, IsRec(b), b.begin # NormalOrderID, b.end # NormalOrderID,
         NEW n \in Nat, Size(b.entries) = n, DOMAIN b.entries = 0 .. n - 1,
         DOMAIN b.prev = 0 .. n - 1, DOMAIN b.next = 0 .. n - 1, DOMAIN b.depth = 0 .. n - 1,
         NEW i, i = NextSlot(b), b.empty # << >> => i \in 0 .. n - 1,
         NEW t, NEW ls, \A j \in DOMAIN ls : ls[j].idx \in DOMAIN b.entries \ {i} /\ b.entries[ls[j].idx].type # "OUT"
  PROVE  \E c : NewEntry(b, t, ls) = addDepthBounds(c, i) /\ Allocated(c, b, t, ls, i)
<1> DEFINE F == {"nCell", "nBuf", "empty", "entries", "prev", "next", "depth"}
           b0 == [b EXCEPT !.begin = getSubnetBegin(b), !.end = getSubnetEnd(b)]
           b1 == allocSlot(b0, t = "BUF")
           b2 == IF StrashEnabled(t) THEN StrashInsert(b1, StrashKey(t, ls), i) ELSE b1
           b3 == [b2 EXCEPT !.depth = SetAt(@, i, DepthOver(b2, ls))]
           b4 == LinkTo(b3, i, ls)
           c == [b4 EXCEPT !.entries = SetAt(@, i, Cell(t, ls))]
<1>1. NewEntry(b, t, ls) = addDepthBounds(c, i)
  BY DEF NewEntry, Require
<1>2. /\ Same(b0, b, {}) /\ IsRec(b0) /\ b0.entries = b.entries /\ b0.prev = b.prev /\ b0.next = b.next /\ b0.depth = b.depth
      /\ b0.empty = b.empty /\ b0.nCell = b.nCell /\ b0.nBuf = b.nBuf /\ b0.strash = b.strash
  BY DEF IsRec, EmptyBuilder, Same, getSubnetBegin, getSubnetEnd
<1> HIDE DEF b0
<1>3. i = NextSlot(b0)
  BY <1>2 DEF NextSlot
<1>3a. SlotMade(b1, b0, i, t = "BUF")
  <2> HIDE DEF b1
  <2>1. IsRec(b0) /\ Size(b0.entries) = n /\ DOMAIN b0.entries = 0 .. n - 1 /\ DOMAIN b0.prev = 0 .. n - 1
        /\ DOMAIN b0.next = 0 .. n - 1 /\ DOMAIN b0.depth = 0 .. n - 1 /\ (b0.empty # << >> => i \in 0 .. n - 1)
    BY <1>2
  <2> QED BY <2>1, <1>3, AllocSlot DEF b1
<1>4. /\ Same(b1, b0, F)
      /\ b1.nCell = b0.nCell + 1 /\ b1.nBuf = IF t = "BUF" THEN b0.nBuf + 1 ELSE b0.nBuf
      /\ b1.empty = IF b0.empty # << >> THEN Front(b0.empty) ELSE b0.empty
      /\ DOMAIN b1.entries = DOMAIN b0.entries \cup {i} /\ \A x \in DOMAIN b0.entries : b1.entries[x] = b0.entries[x]
      /\ GrownArray(b1.prev, b0.prev, DOMAIN b0.entries, i) /\ GrownArray(b1.next, b0.next, DOMAIN b0.entries, i)
      /\ DOMAIN b1.depth = DOMAIN b0.entries \cup {i} /\ \A x \in DOMAIN b0.entries : b1.depth[x] = b0.depth[x]
  BY <1>3a DEF SlotMade
<1> HIDE DEF b1
<1>5. IsRec(b1) /\ b1.strash = b.strash
  BY <1>4, <1>2 DEF IsRec, EmptyBuilder, Same
<1>6. Same(b2, b1, {"strash"}) /\ IsRec(b2) /\ b2.strash = IF StrashEnabled(t) THEN StrashWith(b.strash, StrashKey(t, ls), i) ELSE b.strash
  BY <1>5 DEF StrashInsert, StrashWith, IsRec, EmptyBuilder, Same
<1> HIDE DEF b2
<1>7. b2.entries = b1.entries /\ b2.depth = b1.depth
  BY <1>5, <1>6 DEF Same, IsRec, EmptyBuilder
<1>8. DepthOver(b2, ls) = DepthOver(b, ls)
  <2>1. \A j \in DOMAIN ls : b2.depth[ls[j].idx] = b.depth[ls[j].idx]
    BY <1>2, <1>4, <1>7
  <2> QED BY <2>1, DepthOverSame
<1>9. /\ Same(b3, b2, {"depth"}) /\ IsRec(b3) /\ DOMAIN b3.depth = DOMAIN b.entries \cup {i} /\ b3.depth[i] = DepthOver(b, ls)
      /\ \A x \in DOMAIN b.entries \ {i} : b3.depth[x] = b.depth[x]
  <2>1. Same(b3, b2, {"depth"}) /\ IsRec(b3) /\ b3.depth = SetAt(b2.depth, i, DepthOver(b, ls))
    BY <1>6, <1>8 DEF IsRec, EmptyBuilder, Same
  <2> QED BY <2>1, <1>2, <1>4, <1>7 DEF SetAt
<1> HIDE DEF b3
<1>10. b3.entries = b1.entries /\ b3.fanouts = b.fanouts /\ b3.fanoutsEnabled = b.fanoutsEnabled
  BY <1>2, <1>4, <1>5, <1>6, <1>9 DEF Same, IsRec, EmptyBuilder
<1>11. /\ Same(b4, b3, {"entries", "fanouts"}) /\ IsRec(b4)
       /\ b4.entries = Linked(b1.entries, ls)
       /\ b4.fanouts = IF b.fanoutsEnabled THEN PushFanouts(b.fanouts, i, ls) ELSE b.fanouts
  BY <1>9, <1>10 DEF LinkTo, Linked, IsRec, EmptyBuilder, Same
<1> HIDE DEF b4
<1>12. Same(c, b4, {"entries"}) /\ IsRec(c) /\ c.entries = SetAt(b4.entries, i, Cell(t, ls))
  BY <1>11 DEF IsRec, EmptyBuilder, Same
<1> HIDE DEF c
<1>13. /\ DOMAIN c.entries = DOMAIN b.entries \cup {i} /\ c.entries[i] = Cell(t, ls)
       /\ \A x \in DOMAIN b.entries \ {i} : c.entries[x] = Linked(b.entries, ls)[x]
  <2>1. DOMAIN b1.entries = DOMAIN b.entries \cup {i} /\ \A x \in DOMAIN b.entries : b1.entries[x] = b.entries[x]
    BY <1>2, <1>4
  <2>2. DOMAIN b4.entries = DOMAIN b.entries \cup {i} /\ \A x \in DOMAIN b.entries : b4.entries[x] = Linked(b.entries, ls)[x]
    BY <2>1, <1>11 DEF Linked
  <2> QED BY <2>2, <1>12 DEF SetAt
<1>14. /\ c.depth = b3.depth /\ c.fanouts = b4.fanouts /\ c.fanoutsEnabled = b3.fanoutsEnabled /\ c.strash = b2.strash
       /\ c.empty = b1.empty /\ c.nCell = b1.nCell /\ c.nBuf = b1.nBuf /\ c.prev = b1.prev /\ c.next = b1.next
       /\ c.begin = b.begin /\ c.end = b.end /\ c.depthBounds = b.depthBounds /\ c.fault = b.fault
       /\ c.nIn = b.nIn /\ c.nOut = b.nOut
  BY <1>2, <1>4, <1>5, <1>6, <1>9, <1>11, <1>12 DEF Same, IsRec, EmptyBuilder
<1>15. Allocated(c, b, t, ls, i)
  BY <1>2, <1>4, <1>6, <1>9, <1>10, <1>11, <1>12, <1>13, <1>14 DEF Allocated
<1> QED BY <1>1, <1>15

\* The keys of st2 are keys of st, or lead to i.
KeysFrom(st2, st, i) == \A key \in DOMAIN st2 : st2[key] = i \/ (key \in DOMAIN st /\ st2[key] = st[key])

\* q numbers the cells of L in the order of p.
SameOrder(q, p, L) == \A x, y \in L : q[x] < q[y] <=> p[x] < p[y]

\* The builder r is b with the new cell i; p numbers the cells of b.
Extended(r, b, p, i, t, ls) ==
  /\ \E q : Net(r, q) /\ SameOrder(q, p, Live(b))
  /\ i \notin Live(b) /\ Live(r) = Live(b) \cup {i}
  /\ r.entries[i].type = t /\ r.entries[i].links = ls
  /\ \A x \in Live(b) : r.entries[x].type = b.entries[x].type /\ r.entries[x].links = b.entries[x].links
  /\ KeysFrom(r.strash, b.strash, i)

\* A slot of the free list, or a new one.
LEMMA NextSlotDead ==
  ASSUME NEW b, NEW W, NEW T, NEW p, NEW z, Core(b, W, T, p, z)
  PROVE  /\ NextSlot(b) \in Nat /\ NextSlot(b) \notin Live(b)
         /\ b.empty # << >> => NextSlot(b) \in DOMAIN b.entries
         /\ b.empty = << >> => NextSlot(b) = Size(b.entries)
         /\ \E n \in Nat : DOMAIN b.entries \cup {NextSlot(b)} = 0 .. n - 1
<1>0. Size(b.entries) \in Nat /\ DOMAIN b.entries = 0 .. Size(b.entries) - 1 /\ Live(b) \subseteq DOMAIN b.entries
  BY CoreFacts
<1>1. FreeOf(b.empty, DOMAIN b.entries, Live(b))
  BY DEF Core
<1> DEFINE n == Size(b.entries)
<1>2. CASE b.empty # << >>
  <2>1. b.empty \in Seq(DOMAIN b.entries)
    BY <1>1 DEF FreeOf
  <2>2. Len(b.empty) \in 1 .. Len(b.empty) /\ NextSlot(b) = b.empty[Len(b.empty)]
    BY <2>1, <1>2 DEF NextSlot, Last
  <2>3. NextSlot(b) \in DOMAIN b.entries /\ NextSlot(b) \notin Live(b)
    BY <2>1, <2>2, <1>1 DEF FreeOf
  <2>4. DOMAIN b.entries \cup {NextSlot(b)} = 0 .. n - 1
    BY <2>3, <1>0
  <2> HIDE DEF n
  <2> QED BY <2>3, <2>4, <1>0, <1>2 DEF n
<1>3. CASE b.empty = << >>
  <2>1. NextSlot(b) = n
    BY <1>3 DEF NextSlot
  <2> HIDE DEF n
  <2>2. n \in Nat /\ DOMAIN b.entries = 0 .. n - 1
    BY <1>0 DEF n
  <2>3. n \notin Live(b)
    BY <2>2, <1>0
  <2>4. DOMAIN b.entries \cup {n} = 0 .. (n + 1) - 1
    BY <2>2
  <2>5. \E m \in Nat : DOMAIN b.entries \cup {n} = 0 .. m - 1
    <3>1. n + 1 \in Nat
      BY <2>2
    <3> QED BY <2>4, <3>1
  <2> QED BY <2>1, <2>2, <2>3, <2>5, <1>3 DEF n
<1> QED BY <1>2, <1>3

\* The free list holds the dead slots but the one that was taken.
LEMMA FreeAlloc ==
  ASSUME NEW b, NEW W, NEW T, NEW p, NEW z, Core(b, W, T, p, z)
  PROVE  FreeOf(IF b.empty # << >> THEN Front(b.empty) ELSE b.empty, DOMAIN b.entries \cup {NextSlot(b)}, Live(b) \cup {NextSlot(b)})
<1> DEFINE D == DOMAIN b.entries
           s == b.empty
           i == NextSlot(b)
<1>1. FreeOf(s, D, Live(b))
  BY DEF Core
<1>2. CASE s # << >>
  <2>1. s \in Seq(D) /\ s # << >> /\ i = s[Len(s)]
    BY <1>1, <1>2 DEF FreeOf, NextSlot, Last
  <2> DEFINE f == Front(s)
  <2>2. f = SubSeq(s, 1, Len(s) - 1)
    BY DEF Front
  <2> HIDE DEF f, i, D
  <2>3. Len(s) \in Nat /\ Len(s) > 0
    BY <2>1
  <2>4. f \in Seq(D) /\ Len(f) = Len(s) - 1 /\ \A j \in 1 .. Len(s) - 1 : f[j] = s[j]
    BY <2>1, <2>2, <2>3
  <2>5. f \in Seq(D \cup {i})
    BY <2>4
  <2>6. \A j \in 1 .. Len(f) : f[j] = s[j] /\ j \in 1 .. Len(s) /\ j # Len(s)
    BY <2>3, <2>4
  <2>7. Len(s) \in 1 .. Len(s) /\ \A j \in 1 .. Len(s) : j # Len(s) => j \in 1 .. Len(f)
    BY <2>3, <2>4
  <2>8. FreeOf(f, D \cup {i}, Live(b) \cup {i})
    <3>1. \A j, k \in 1 .. Len(f) : f[j] = f[k] => j = k
      BY <2>6, <1>1 DEF FreeOf
    <3>2. \A j \in 1 .. Len(f) : f[j] \notin Live(b) \cup {i}
      BY <2>1, <2>6, <2>7, <1>1 DEF FreeOf
    <3>3. \A x \in (D \cup {i}) \ (Live(b) \cup {i}) : \E j \in 1 .. Len(f) : f[j] = x
      <4> TAKE x \in (D \cup {i}) \ (Live(b) \cup {i})
      <4>1. PICK j \in 1 .. Len(s) : s[j] = x
        BY <1>1 DEF FreeOf
      <4>2. j # Len(s)
        BY <4>1, <2>1
      <4> QED BY <4>1, <4>2, <2>6, <2>7
    <3> QED BY <2>5, <3>1, <3>2, <3>3 DEF FreeOf
  <2> QED BY <1>2, <2>8 DEF f, i, D
<1>3. CASE s = << >>
  <2>1. Len(s) = 0 /\ s \in Seq(D \cup {i})
    BY <1>3
  <2> HIDE DEF i, D
  <2>2. FreeOf(s, D \cup {i}, Live(b) \cup {i})
    BY <1>1, <2>1 DEF FreeOf
  <2> QED BY <1>3, <2>2 DEF i, D
<1> QED BY <1>2, <1>3

\* The new cell may be placed.
LEMMA AllocatedMayAdd ==
  ASSUME NEW b, NEW W, NEW T, NEW p, NEW z, Core(b, W, T, p, z), NEW t,
         NEW ls \in Seq(LinkSet(Drivers(b))), Arity(t, ls),
         t # "IN" => Live(b) # {}, NEW i, i = NextSlot(b), NEW c, Allocated(c, b, t, ls, i)
  PROVE  /\ Ordered(c, Live(b), p) /\ MayAdd(c, Live(b), i)
         /\ Size(c.entries) \in Nat /\ Cardinality(Live(b)) <= Size(c.entries)
         /\ IsDepthOver(b, ls, DepthOver(b, ls))
<1> DEFINE L == Live(b)
           D == DOMAIN b.entries
           d == DepthOver(b, ls)
<1>0. /\ Arrays(b) /\ L \subseteq D /\ D \subseteq Nat /\ IsFiniteSet(L) /\ Cardinality(L) \in Nat /\ Inner(b, L) = Drivers(b)
      /\ \A x \in L : b.depth[x] \in Nat
      /\ Drivers(b) \subseteq L
  BY CoreFacts
<1>1. i \in Nat /\ i \notin L
  BY NextSlotDead
<1>2. /\ DOMAIN c.entries = D \cup {i} /\ DOMAIN c.prev = D \cup {i} /\ DOMAIN c.next = D \cup {i} /\ DOMAIN c.depth = D \cup {i}
      /\ \A x \in D : c.prev[x] = b.prev[x] /\ c.next[x] = b.next[x]
      /\ i \notin D => c.prev[i] = NormalOrderID /\ c.next[i] = NormalOrderID
  BY DEF Allocated, GrownArray
<1>3. Linking(c.prev, c.next, D \cup {i})
  BY <1>0, <1>2 DEF Arrays, Linking
<1>4. Arrays(c)
  BY <1>0, <1>1, <1>2, <1>3 DEF Arrays, Allocated
<1>5. \A x \in L : /\ c.entries[x].type = b.entries[x].type /\ c.entries[x].links = b.entries[x].links
                   /\ c.depth[x] = b.depth[x]
  <2>1. SameCells(Linked(b.entries, ls), b.entries)
    BY LinkedCells DEF Core
  <2> QED BY <2>1, <1>0, <1>1 DEF Allocated, SameCells
<1>6. Ordered(c, L, p)
  <2>1. Ordered(b, L, p) /\ L \subseteq DOMAIN c.entries
    BY <1>0, <1>2 DEF Core
  <2>2. c.begin = b.begin /\ c.end = b.end /\ c.depthBounds = b.depthBounds
    BY DEF Allocated
  <2> QED BY <2>1, <2>2, <1>0, <1>2, <1>4, <1>5, OrderedOn
<1>7. IsDepthOver(b, ls, d)
  <2>1. PICK m \in Nat : \A x \in Drivers(b) : b.depth[x] < m
    BY CoreFacts
  <2>2. \A j \in DOMAIN ls : ls[j].idx \in Drivers(b)
    BY LinkSeq
  <2>3. \A j \in DOMAIN ls : b.depth[ls[j].idx] \in Nat /\ b.depth[ls[j].idx] < m
    BY <2>1, <2>2, <1>0
  <2> QED BY <2>3, DepthOverIs
<1>8. c.depth[i] = d /\ c.entries[i].type = t /\ i \in DOMAIN c.entries
  BY <1>2 DEF Allocated, Cell
<1>9. MayAdd(c, L, i)
  <2> HIDE DEF d
  <2>1. d \in Nat
    BY <1>7 DEF IsDepthOver
  <2>2. \A j \in DOMAIN ls : ls[j].idx \in Drivers(b) /\ ls[j].idx \in L /\ b.depth[ls[j].idx] \in Nat
    BY <1>0, LinkSeq
  <2>3. t = "IN" => d = 0
    BY <2>1, <1>7 DEF IsDepthOver, Arity
  <2>4. t # "OUT" /\ d = 0 => t \in {"IN", "ZERO", "ONE"}
    BY <2>2, <1>7 DEF IsDepthOver, Arity
  <2>5. d > 0 => \E x \in Inner(c, L) : c.depth[x] = d - 1
    <3>1. Inner(c, L) = Drivers(b)
      BY <1>0, <1>5 DEF Inner
    <3> QED BY <3>1, <2>2, <1>5, <1>7 DEF IsDepthOver
  <2> QED BY <2>1, <2>3, <2>4, <2>5, <1>1, <1>8 DEF MayAdd
<1>10. Size(c.entries) \in Nat /\ Cardinality(L) <= Size(c.entries)
  <2>1. PICK n \in Nat : D \cup {i} = 0 .. n - 1
    BY NextSlotDead
  <2>2. Size(c.entries) = n /\ IsFiniteSet(DOMAIN c.entries)
    BY <2>1, <1>2, SizeIs
  <2>3. Cardinality(L) <= Cardinality(DOMAIN c.entries)
    BY <2>2, <1>0, <1>2, FS_Subset
  <2> QED BY <2>2, <2>3 DEF Size
<1> QED BY <1>6, <1>7, <1>9, <1>10

\* The cells with the new one.
LEMMA AllocatedCells ==
  ASSUME NEW b, NEW W, NEW T, NEW p, NEW z, Core(b, W, T, p, z), NEW t \in CellTypes,
         NEW ls \in Seq(LinkSet(Drivers(b))),
         NEW i, i = NextSlot(b), NEW c, Allocated(c, b, t, ls, i), NEW V, NEW T2, NEW g, Tokens(V, T2, W, T, g, i, ls)
  PROVE  /\ CellsOK(c.entries)
         /\ Refs(c.entries, Drivers(b), V, T2)
         /\ Fan(c.fanoutsEnabled, c.fanouts, V, T2)
         /\ c.entries[i].type = t /\ c.entries[i].links = ls
         /\ \A x \in Live(b) : c.entries[x].type = b.entries[x].type /\ c.entries[x].links = b.entries[x].links
         /\ \A x \in Live(b) : c.depth[x] = b.depth[x]
<1> DEFINE D == DOMAIN b.entries
           e == Linked(b.entries, ls)
<1>0. Drivers(b) \subseteq Live(b) /\ Live(b) \subseteq D /\ D \subseteq Nat
  BY CoreFacts
<1>1. i \in Nat /\ i \notin Live(b)
  BY NextSlotDead
<1>2. CellsOK(e) /\ SameCells(e, b.entries)
  BY LinkedCells DEF Core
<1>3. Refs(e, Drivers(b), V, T2)
  BY RefsLinked DEF Core
<1> HIDE DEF e
<1>4. /\ DOMAIN c.entries = D \cup {i} /\ c.entries[i] = Cell(t, ls)
      /\ \A x \in D \ {i} : c.entries[x] = e[x]
      /\ \A x \in D \ {i} : c.depth[x] = b.depth[x]
  BY DEF Allocated, e
<1>5. c.entries[i].type = t /\ c.entries[i].links = ls /\ c.entries[i].refcount = 0
  BY <1>4 DEF Cell
<1>6. \A x \in Live(b) : c.entries[x].type = b.entries[x].type /\ c.entries[x].links = b.entries[x].links /\ c.depth[x] = b.depth[x]
  BY <1>0, <1>1, <1>2, <1>4 DEF SameCells
<1>7. CellsOK(c.entries)
  <2>1. \E n \in Nat : D \cup {i} = 0 .. n - 1
    BY NextSlotDead
  <2>2. DOMAIN e = D
    BY <1>2 DEF SameCells
  <2>3. \A x \in D : e[x] \in CellRec(D)
    BY <1>2, <2>2 DEF CellsOK
  <2>4. Seq(LinkSet(D)) \subseteq Seq(LinkSet(D \cup {i}))
    <3>1. \A s \in Seq(LinkSet(D)) : s \in Seq(LinkSet(D \cup {i}))
      BY SeqMono
    <3> QED BY <3>1
  <2>5. \A x \in D \ {i} : c.entries[x] \in CellRec(D \cup {i})
    BY <2>3, <2>4, <1>4 DEF CellRec
  <2>6. ls \in Seq(LinkSet(D \cup {i}))
    <3>1. Drivers(b) \subseteq D \cup {i}
      BY <1>0
    <3> QED BY <3>1, SeqMono
  <2>7. c.entries[i] \in CellRec(D \cup {i})
    BY <2>6, <1>4 DEF CellRec, Cell
  <2> QED BY <2>1, <2>5, <2>7, <1>4 DEF CellsOK
<1>8. Refs(c.entries, Drivers(b), V, T2)
  <2>1. To(V, T2, i) = {}
    BY <1>0, <1>1, <1>3 DEF Refs, To
  <2>2. Cardinality(To(V, T2, i)) = 0
    BY <2>1, FS_EmptySet
  <2>3. DOMAIN e = D
    BY <1>2 DEF SameCells
  <2>4. \A s \in D \cup {i} : c.entries[s].refcount = Cardinality(To(V, T2, s))
    BY <2>2, <2>3, <1>3, <1>4, <1>5 DEF Refs
  <2> QED BY <2>4, <1>3, <1>4 DEF Refs
<1>9. Fan(c.fanoutsEnabled, c.fanouts, V, T2)
  <2>1. Drivers(b) \subseteq Nat
    BY <1>0
  <2>2. ls \in Seq(LinkSet(Nat))
    BY <2>1, SeqMono
  <2>3. IsFiniteSet(W) /\ Fan(b.fanoutsEnabled, b.fanouts, W, T)
    BY DEF Core, Refs
  <2>4. Fan(b.fanoutsEnabled, IF b.fanoutsEnabled THEN PushFanouts(b.fanouts, i, ls) ELSE b.fanouts, V, T2)
    BY <2>2, <2>3, <1>1, FanLinked
  <2> QED BY <2>4 DEF Allocated
<1> QED BY <1>5, <1>6, <1>7, <1>8, <1>9

\* The hash is right when the new cell has been entered.
LEMMA AllocatedKeys ==
  ASSUME NEW b, NEW L, KeysOf(b.strash, b.entries, L), NEW t, NEW ls, NEW i,
         NEW c, Allocated(c, b, t, ls, i), i \notin L,
         SameOn(c.entries, b.entries, L)
  PROVE  /\ KeysOf(c.strash, c.entries, L \cup {i})
         /\ KeysFrom(c.strash, b.strash, i)
<1>1. c.entries[i].type = t /\ c.entries[i].links = ls
  BY DEF Allocated, Cell
<1> DEFINE key0 == StrashKey(t, ls)
<1> HIDE DEF key0
<1>2. c.strash = IF StrashEnabled(t) THEN StrashWith(b.strash, key0, i) ELSE b.strash
  BY DEF Allocated, key0
<1>3. \A key \in DOMAIN c.strash : \/ key \in DOMAIN b.strash /\ c.strash[key] = b.strash[key]
                                   \/ key = key0 /\ StrashEnabled(t) /\ c.strash[key] = i
  BY <1>2 DEF StrashWith
<1>4. KeysOf(c.strash, c.entries, L \cup {i})
  <2> SUFFICES ASSUME NEW key \in DOMAIN c.strash
               PROVE  /\ c.strash[key] \in L \cup {i}
                      /\ StrashKey(c.entries[c.strash[key]].type, c.entries[c.strash[key]].links) = key
                      /\ StrashEnabled(c.entries[c.strash[key]].type)
    BY DEF KeysOf
  <2>1. CASE key \in DOMAIN b.strash /\ c.strash[key] = b.strash[key]
    BY <2>1 DEF KeysOf, SameOn
  <2>2. CASE key = key0 /\ StrashEnabled(t) /\ c.strash[key] = i
    BY <2>2, <1>1 DEF key0
  <2> QED BY <2>1, <2>2, <1>3
<1> QED BY <1>3, <1>4 DEF KeysFrom

\* Builders with the same links have the same wires.
LEMMA WiresSame ==
  ASSUME NEW b, NEW r, Live(r) = Live(b), \A x \in Live(b) : r.entries[x].links = b.entries[x].links
  PROVE  Wires(r) = Wires(b) /\ Targets(r) = Targets(b)
<1>1. Wires(r) = Wires(b)
  BY DEF Wires
<1>2. \A w \in Wires(b) : w[1] \in Live(b)
  BY WiresWired
<1>3. \A w \in Wires(b) : WireTo(r, w) = WireTo(b, w)
  BY <1>2 DEF WireTo
<1> QED BY <1>1, <1>3 DEF Targets

\* The exactness of depths depends on links and depths only.
LEMMA ExactSame ==
  ASSUME NEW b, NEW r,
         NEW K, ExactOn(b, K), \A x \in K : r.entries[x].links = b.entries[x].links /\ r.depth[x] = b.depth[x],
         \A x \in K : \A j \in DOMAIN b.entries[x].links : r.depth[b.entries[x].links[j].idx] = b.depth[b.entries[x].links[j].idx]
  PROVE  ExactOn(r, K)
BY DEF ExactOn, IsDepthOver

\* The log is no part of the network.
LEMMA NetLog ==
  ASSUME NEW b, NEW r, NEW p, Net(b, p), Same(r, b, {"log"})
  PROVE  /\ Net(r, p) /\ Live(r) = Live(b) /\ Drivers(r) = Drivers(b)
         /\ r.entries = b.entries /\ r.depth = b.depth /\ r.strash = b.strash
<1>1. /\ Core(r, Wires(b), Targets(b), p, 0) /\ Live(r) = Live(b) /\ Drivers(r) = Drivers(b)
      /\ r.entries = b.entries /\ r.depth = b.depth
  BY CoreLog DEF Net
<1>2. Wires(r) = Wires(b) /\ Targets(r) = Targets(b)
  BY <1>1, WiresSame
<1>3. ExactOn(r, Live(r)) /\ Arities(r.entries, Live(r))
  BY <1>1 DEF Net, ExactOn, IsDepthOver, Arities
<1>4. r.strash = b.strash
  <2>1. IsRec(b)
    BY CoreFacts DEF Net
  <2> QED BY <2>1 DEF Same, IsRec, EmptyBuilder
<1> QED BY <1>1, <1>2, <1>3, <1>4 DEF Net

\* addCell of a cell that the hash knows returns that cell and changes nothing.
LEMMA AddFound ==
  ASSUME NEW b, NEW p, Net(b, p), NEW t, NEW ls, StrashEnabled(t), StrashKey(t, ls) \in DOMAIN b.strash
  PROVE  /\ Same(addCell(b, t, ls).b, b, {"log"}) /\ addCell(b, t, ls).idx = b.strash[StrashKey(t, ls)]
<1> DEFINE key == StrashKey(t, ls)
           fixed == [b EXCEPT !.begin = getSubnetBegin(b), !.end = getSubnetEnd(b)]
<1>1. IsRec(b) /\ b.begin # NormalOrderID /\ b.end # NormalOrderID /\ DOMAIN b.entries \subseteq Nat /\ Live(b) \subseteq DOMAIN b.entries
  BY CoreFacts DEF Net
<1>2. b.strash[key] # InvalidID
  BY <1>1 DEF Net, Core, KeysOf, InvalidID
<1>3. StrashFind(b, key) = b.strash[key]
  BY DEF StrashFind
<1>4. t # "IN" /\ t # "OUT"
  BY DEF StrashEnabled
<1> HIDE DEF key
<1>5. /\ addCell(b, t, ls).idx = b.strash[key]
      /\ addCell(b, t, ls).b = [fixed EXCEPT !.nIn = @, !.nOut = @]
  BY <1>2, <1>3, <1>4 DEF addCell, key
<1>6. Same(fixed, b, {}) /\ IsRec(fixed)
  BY <1>1 DEF Same, IsRec, EmptyBuilder, getSubnetBegin, getSubnetEnd
<1> HIDE DEF fixed
<1>7. Same([fixed EXCEPT !.nIn = @, !.nOut = @], fixed, {})
  BY <1>6 DEF Same, IsRec, EmptyBuilder
<1>8. Same(addCell(b, t, ls).b, b, {"log"})
  BY <1>5, <1>6, <1>7 DEF Same
<1> QED BY <1>5, <1>8 DEF key

\* The builder r counts the new cell i of type t.
Counted(r, b, i, t) ==
  /\ Live(r) = Live(b) \cup {i} /\ SameOn(r.entries, b.entries, Live(b)) /\ r.entries[i].type = t
  /\ r.nCell = b.nCell + 1
  /\ r.nIn = IF t = "IN" THEN b.nIn + 1 ELSE b.nIn
  /\ r.nOut = IF t = "OUT" THEN b.nOut + 1 ELSE b.nOut
  /\ r.nBuf = IF t = "BUF" THEN b.nBuf + 1 ELSE b.nBuf

\* A counter that follows the new cell is right.
LEMMA NumOne ==
  ASSUME NEW L, IsFiniteSet(L), NEW i, i \notin L, NEW e, NEW e2, SameOn(e2, e, L), NEW t, NEW u, NEW n,
         NEW n2, n = Num(e, L, u),
         e2[i].type = t, n2 = IF t = u THEN n + 1 ELSE n
  PROVE  n2 = Num(e2, L \cup {i}, u)
<1>1. /\ e2[i].type = u => Num(e2, L \cup {i}, u) = Num(e, L, u) + 1
      /\ e2[i].type # u => Num(e2, L \cup {i}, u) = Num(e, L, u)
  BY ONLY IsFiniteSet(L), i \notin L, SameOn(e2, e, L), NumAdd
<1>2. e2[i].type # u => Num(e2, L \cup {i}, u) = Num(e, L, u)
  BY <1>1
<1>3. CASE t = u
  BY <1>3, <1>1
<1>4. CASE t # u
  BY <1>4, <1>2
<1> QED BY <1>3, <1>4

\* The counters after an addition are right.
LEMMA CountsAdd ==
  ASSUME NEW b, Counts(b, 0), IsFiniteSet(Live(b)), NEW r, NEW i, i \notin Live(b), NEW t, Counted(r, b, i, t)
  PROVE  Counts(r, 0)
<1> DEFINE L == Live(b)
<1>1. /\ Live(r) = L \cup {i} /\ SameOn(r.entries, b.entries, L) /\ r.entries[i].type = t /\ IsFiniteSet(L) /\ i \notin L
  BY DEF Counted
<1>2. r.nIn = (IF t = "IN" THEN b.nIn + 1 ELSE b.nIn) /\ b.nIn = Num(b.entries, L, "IN")
  BY DEF Counted, Counts
<1>3. r.nOut = (IF t = "OUT" THEN b.nOut + 1 ELSE b.nOut) /\ b.nOut = Num(b.entries, L, "OUT")
  BY DEF Counted, Counts
<1>4a. Num(b.entries, L, "BUF") \in Nat
  BY NumType
<1>4b. b.nBuf = Num(b.entries, L, "BUF") + 0
  BY DEF Counts
<1>4. r.nBuf = (IF t = "BUF" THEN b.nBuf + 1 ELSE b.nBuf) /\ b.nBuf = Num(b.entries, L, "BUF")
  BY <1>4a, <1>4b DEF Counted
<1>5. r.nCell = Cardinality(L \cup {i})
  <2>1. r.nCell = b.nCell + 1 /\ b.nCell = Cardinality(L)
    BY DEF Counted, Counts
  <2> QED BY <2>1, <1>1, FS_AddElement, FS_CardinalityType
<1> HIDE DEF L
<1>6. r.nIn = Num(r.entries, L \cup {i}, "IN")
  BY <1>1, <1>2, NumOne
<1>7. r.nOut = Num(r.entries, L \cup {i}, "OUT")
  BY <1>1, <1>3, NumOne
<1>8. r.nBuf = Num(r.entries, L \cup {i}, "BUF")
  BY <1>1, <1>4, NumOne
<1>9. Num(r.entries, L \cup {i}, "BUF") \in Nat
  <2>1. IsFiniteSet(L \cup {i})
    BY <1>1, FS_AddElement
  <2> QED BY <2>1, NumType
<1> QED BY <1>1, <1>5, <1>6, <1>7, <1>8, <1>9 DEF Counts

\* addCell of a cell that the hash does not know adds it in the next slot.
LEMMA AddNew ==
  ASSUME NEW b, NEW p, Net(b, p), NEW t \in CellTypes, NEW ls \in Seq(LinkSet(Drivers(b))), Arity(t, ls),
         t # "IN" => Live(b) # {}, ~(StrashEnabled(t) /\ StrashKey(t, ls) \in DOMAIN b.strash)
  PROVE  Extended(addCell(b, t, ls).b, b, p, NextSlot(b), t, ls) /\ addCell(b, t, ls).idx = NextSlot(b)
<1> DEFINE L == Live(b)
           i == NextSlot(b)
           r == addCell(b, t, ls).b
<1>0. Core(b, Wires(b), Targets(b), p, 0) /\ ExactOn(b, L) /\ Arities(b.entries, L)
  BY DEF Net
<1>1. /\ IsRec(b) /\ b.begin # NormalOrderID /\ b.end # NormalOrderID /\ DOMAIN b.entries \subseteq Nat /\ L \subseteq DOMAIN b.entries
      /\ Size(b.entries) \in Nat /\ DOMAIN b.entries = 0 .. Size(b.entries) - 1 /\ Arrays(b) /\ IsFiniteSet(L) /\ Drivers(b) \subseteq L
      /\ Cardinality(L) \in Nat
  BY <1>0, CoreFacts
<1>2. i \in Nat /\ i \notin L /\ (b.empty # << >> => i \in DOMAIN b.entries) /\ i \notin Drivers(b)
  BY <1>0, <1>1, NextSlotDead
<1>3. \A j \in DOMAIN ls : ls[j].idx \in Drivers(b) /\ ls[j].idx \in DOMAIN b.entries \ {i} /\ b.entries[ls[j].idx].type # "OUT"
  <2>1. \A j \in DOMAIN ls : ls[j].idx \in Drivers(b)
    BY LinkSeq
  <2> QED BY <2>1, <1>1, <1>2 DEF Drivers
<1>4. PICK c : NewEntry(b, t, ls) = addDepthBounds(c, i) /\ Allocated(c, b, t, ls, i)
  <2>1. DOMAIN b.prev = 0 .. Size(b.entries) - 1 /\ DOMAIN b.next = 0 .. Size(b.entries) - 1 /\ DOMAIN b.depth = 0 .. Size(b.entries) - 1
    BY <1>1 DEF Arrays
  <2> DEFINE n == Size(b.entries)
  <2>2. n \in Nat /\ Size(b.entries) = n /\ DOMAIN b.entries = 0 .. n - 1 /\ DOMAIN b.prev = 0 .. n - 1
        /\ DOMAIN b.next = 0 .. n - 1 /\ DOMAIN b.depth = 0 .. n - 1 /\ (b.empty # << >> => i \in 0 .. n - 1)
    BY <2>1, <1>1, <1>2
  <2> HIDE DEF n, i
  <2>3. i = NextSlot(b)
    BY DEF i
  <2> QED BY <2>2, <2>3, <1>1, <1>3, NewEntryFields
<1>5. /\ Ordered(c, L, p) /\ MayAdd(c, L, i)
      /\ Size(c.entries) \in Nat /\ Cardinality(L) <= Size(c.entries)
      /\ IsDepthOver(b, ls, DepthOver(b, ls))
  BY <1>0, <1>4, AllocatedMayAdd
<1> DEFINE s == addDepthBounds(c, i)
<1>6. PICK k \in Nat : AddedAt(s, c, L, p, i, k)
  BY <1>5, AddBounds
<1> DEFINE q == Inserted(L, p, i, k)
<1>7. Same(s, c, BoundFields) /\ Ordered(s, L \cup {i}, q)
  BY <1>6 DEF AddedAt
<1>8. addCell(b, t, ls).idx = i /\ r = [s EXCEPT !.nIn = IF t = "IN" THEN @ + 1 ELSE @, !.nOut = IF t = "OUT" THEN @ + 1 ELSE @]
  <2>1. (IF StrashEnabled(t) THEN StrashFind(b, StrashKey(t, ls)) ELSE InvalidID) = InvalidID
    BY DEF StrashFind
  <2> QED BY <2>1, <1>4 DEF addCell
<1> HIDE DEF i, s, r, q
<1>8a. IsRec(c) /\ IsRec(s)
  BY <1>4, <1>7 DEF Allocated, Same, IsRec
<1>9. /\ IsRec(r) /\ Same(r, s, {"nIn", "nOut"})
      /\ r.nIn = IF t = "IN" THEN s.nIn + 1 ELSE s.nIn
      /\ r.nOut = IF t = "OUT" THEN s.nOut + 1 ELSE s.nOut
  BY <1>8, <1>8a DEF Same, IsRec, EmptyBuilder
<1>10. /\ r.entries = c.entries /\ r.depth = c.depth /\ r.strash = c.strash /\ r.empty = c.empty
       /\ r.fanouts = c.fanouts /\ r.fanoutsEnabled = c.fanoutsEnabled /\ r.fault = c.fault
       /\ r.nCell = c.nCell /\ r.nBuf = c.nBuf
       /\ r.nIn = IF t = "IN" THEN c.nIn + 1 ELSE c.nIn
       /\ r.nOut = IF t = "OUT" THEN c.nOut + 1 ELSE c.nOut
  BY <1>7, <1>8a, <1>9 DEF Same, IsRec, EmptyBuilder, BoundFields, OrderFields
<1>11. s.entries = r.entries /\ s.depth = r.depth /\ s.prev = r.prev /\ s.next = r.next /\ s.begin = r.begin /\ s.end = r.end
       /\ s.depthBounds = r.depthBounds
  BY <1>8a, <1>9 DEF Same, IsRec, EmptyBuilder
<1>12. Ordered(r, L \cup {i}, q)
  <2>1. SameCells(r.entries, s.entries)
    BY <1>11 DEF SameCells
  <2> QED BY <2>1, <1>7, <1>9, <1>11, OrderedSame
<1> DEFINE V == Wires(r)
           T2 == Targets(r)
           g == [j \in DOMAIN ls |-> <<i, j>>]
<1>13. /\ DOMAIN c.entries = DOMAIN b.entries \cup {i} /\ c.entries[i].type = t /\ c.entries[i].links = ls
       /\ c.depth[i] = DepthOver(b, ls)
  BY <1>4 DEF Allocated, Cell
<1>14. /\ \A x \in L : c.entries[x].type = b.entries[x].type /\ c.entries[x].links = b.entries[x].links
       /\ \A x \in DOMAIN b.entries \ {i} : c.depth[x] = b.depth[x]
  <2>1. SameCells(Linked(b.entries, ls), b.entries)
    BY <1>0, LinkedCells DEF Core
  <2> QED BY <2>1, <1>1, <1>2, <1>4 DEF Allocated, SameCells
<1>15. Live(r) = L \cup {i} /\ DepthOver(b, ls) \in Nat
  <2>1. DepthOver(b, ls) \in Nat
    BY <1>5 DEF IsDepthOver
  <2> QED BY <2>1, <1>2, <1>10, <1>13, <1>14 DEF Live, InvalidDepth
<1>16. Tokens(V, T2, Wires(b), Targets(b), g, i, ls)
  <2>1. V = Wires(b) \cup {<<i, j>> : j \in DOMAIN ls}
    BY <1>10, <1>13, <1>14, <1>15 DEF Wires
  <2>2. \A w \in Wires(b) : w[1] \in L
    BY WiresWired
  <2>3. \A w \in Wires(b) : T2[w] = Targets(b)[w]
    BY <2>1, <2>2, <1>10, <1>14 DEF Targets, WireTo
  <2>4. \A j \in DOMAIN ls : <<i, j>> \in V /\ <<i, j>> \notin Wires(b) /\ T2[<<i, j>>] = ls[j].idx
    BY <2>1, <2>2, <1>2, <1>10, <1>13 DEF Targets, WireTo
  <2>5. V = Wires(b) \cup {g[j] : j \in DOMAIN ls}
    BY <2>1
  <2> HIDE DEF V, T2
  <2> QED BY <2>3, <2>4, <2>5 DEF Tokens
<1> HIDE DEF g
<1>17. /\ CellsOK(c.entries)
       /\ Refs(c.entries, Drivers(b), V, T2)
       /\ Fan(c.fanoutsEnabled, c.fanouts, V, T2)
  <2> HIDE DEF V, T2
  <2> QED BY <1>0, <1>4, <1>16, AllocatedCells DEF i
<1>18. /\ KeysOf(c.strash, c.entries, L \cup {i})
       /\ KeysFrom(c.strash, b.strash, i)
  <2>1. KeysOf(b.strash, b.entries, L)
    BY <1>0 DEF Core
  <2>2. SameOn(c.entries, b.entries, L)
    BY <1>14 DEF SameOn
  <2>3. Allocated(c, b, t, ls, i) /\ i \notin L
    BY <1>2, <1>4
  <2> HIDE DEF L
  <2> QED BY <2>1, <2>2, <2>3, AllocatedKeys
<1>19. FreeOf(r.empty, DOMAIN r.entries, Live(r))
  <2>1. c.empty = IF b.empty # << >> THEN Front(b.empty) ELSE b.empty
    BY <1>4 DEF Allocated
  <2> QED BY <2>1, <1>0, <1>10, <1>13, <1>15, FreeAlloc DEF i
<1>20. Refs(r.entries, Drivers(r), V, T2)
  <2>1. Drivers(b) \subseteq Drivers(r)
    BY <1>1, <1>10, <1>14, <1>15 DEF Drivers
  <2> QED BY <2>1, <1>10, <1>17 DEF Refs
<1>21. DepthsOK(r.depth, DOMAIN r.entries)
  <2>1. DepthsOK(b.depth, DOMAIN b.entries)
    BY <1>0 DEF Core
  <2> QED BY <2>1, <1>10, <1>13, <1>14, <1>15 DEF DepthsOK
<1>22. Counts(r, 0)
  <2>1. Counts(b, 0)
    BY <1>0 DEF Core
  <2>2. SameOn(r.entries, b.entries, L) /\ r.entries[i].type = t
    BY <1>10, <1>13, <1>14 DEF SameOn
  <2>3. /\ r.nCell = b.nCell + 1
        /\ r.nIn = IF t = "IN" THEN b.nIn + 1 ELSE b.nIn
        /\ r.nOut = IF t = "OUT" THEN b.nOut + 1 ELSE b.nOut
        /\ r.nBuf = IF t = "BUF" THEN b.nBuf + 1 ELSE b.nBuf
    BY <1>4, <1>10 DEF Allocated
  <2>4. Counted(r, b, i, t)
    BY <2>2, <2>3, <1>15 DEF Counted
  <2>5. IsFiniteSet(Live(b)) /\ i \notin Live(b)
    BY <1>1, <1>2
  <2> QED BY <2>1, <2>4, <2>5, CountsAdd
<1>23. r.fault = FALSE
  <2>1. b.fault = FALSE
    BY <1>0 DEF Core
  <2> QED BY <2>1, <1>4, <1>10 DEF Allocated
<1>24. Core(r, V, T2, q, 0)
  BY <1>10, <1>12, <1>15, <1>17, <1>18, <1>19, <1>20, <1>21, <1>22, <1>23 DEF Core
<1>25. ExactOn(r, L \cup {i})
  <2>1. \A x \in L : \A j \in DOMAIN b.entries[x].links : b.entries[x].links[j].idx \in Drivers(b)
    BY NetLinks
  <2>2. \A y \in L : r.depth[y] = b.depth[y]
    BY <1>1, <1>2, <1>10, <1>14
  <2>3. \A x \in L : \A j \in DOMAIN b.entries[x].links : r.depth[b.entries[x].links[j].idx] = b.depth[b.entries[x].links[j].idx]
    BY <2>1, <2>2, <1>1
  <2>4. ExactOn(r, L)
    BY <2>2, <2>3, <1>0, <1>10, <1>14, ExactSame
  <2>5. IsDepthOver(r, ls, DepthOver(b, ls))
    <3>1. \A j \in DOMAIN ls : r.depth[ls[j].idx] = b.depth[ls[j].idx]
      BY <2>2, <1>1, <1>3
    <3> QED BY <3>1, <1>5 DEF IsDepthOver
  <2> QED BY <2>4, <2>5, <1>10, <1>13 DEF ExactOn
<1>26. Arities(r.entries, L \cup {i})
  BY <1>0, <1>10, <1>13, <1>14 DEF Arities
<1>27. Net(r, q)
  BY <1>15, <1>24, <1>25, <1>26 DEF Net
<1>28. SameOrder(q, p, L)
  <2>1. IsOrder(L, p)
    BY <1>0, <1>1 DEF Core, Ordered, Thread, IsOrder
  <2> QED BY <2>1, <1>2, InsertedOrder DEF SameOrder, q
<1>29. Extended(r, b, p, i, t, ls)
  BY <1>2, <1>10, <1>13, <1>14, <1>15, <1>18, <1>27, <1>28 DEF Extended
<1> QED BY <1>8, <1>29 DEF r, i

-----------------------------------------------------------------------------
(* Dropping a link.                                                        *)

\* The builder r is b with other reference counters and fanouts.
Recounted(r, b) == Same(r, b, {"entries", "fanouts"}) /\ SameCells(r.entries, b.entries)

\* delFanout removes the token's occurrence from the list of its target.
LEMMA FanDropped ==
  ASSUME NEW f, NEW W, IsFiniteSet(W), NEW T, Fan(TRUE, f, W, T), NEW v \in W, v[1] \in Nat, T[v] \in Nat
  PROVE  /\ T[v] \in DOMAIN f
         /\ Fan(TRUE, SetAt(f, T[v], RemoveFirst(f[T[v]], v[1])), W \ {v}, T)
<1> DEFINE s == T[v]
           i == v[1]
           h == SetAt(f, s, RemoveFirst(f[s], i))
           V == W \ {v}
<1>1. /\ DOMAIN f \subseteq Nat /\ Lists(f) /\ \A x, k \in Nat : Occ(ListOf(f, x), k) = Cardinality(From(W, T, k, x))
  BY DEF Fan
<1>2a. s \in Nat /\ i \in Nat
  OBVIOUS
<1>2b. WithoutToken(V, W, T, i, s)
  BY TokenDropped
<1> HIDE DEF V, s, i
<1>2. /\ \A k, x : (k # i \/ x # s) => From(V, T, k, x) = From(W, T, k, x)
      /\ Cardinality(From(W, T, i, s)) > 0
      /\ Cardinality(From(V, T, i, s)) = Cardinality(From(W, T, i, s)) - 1
  BY <1>2b DEF WithoutToken
<1>3. Occ(ListOf(f, s), i) > 0 /\ ListOf(f, s) \in Seq(Nat)
  <2>1. Occ(ListOf(f, s), i) = Cardinality(From(W, T, i, s))
    BY <1>1, <1>2a
  <2> QED BY <2>1, <1>1, <1>2, <1>2a DEF Lists
<1>4. s \in DOMAIN f
  <2> SUFFICES ASSUME s \notin DOMAIN f PROVE FALSE
    OBVIOUS
  <2>1. Occ(<< >>, i) = 0 /\ ListOf(f, s) = << >>
    BY OccEmpty DEF ListOf
  <2> QED BY <2>1, <1>3
<1>5. /\ RemoveFirst(f[s], i) \in Seq(Nat)
      /\ \A x : Occ(RemoveFirst(f[s], i), x) = Occ(f[s], x) - (IF i = x THEN 1 ELSE 0)
  <2>1. ListOf(f, s) = f[s]
    BY <1>4 DEF ListOf
  <2> QED BY <2>1, <1>3, OccRemoveFirst
<1>6. DOMAIN h = DOMAIN f /\ \A x \in DOMAIN f : h[x] = IF x = s THEN RemoveFirst(f[s], i) ELSE f[x]
  BY DEF SetAt
<1> HIDE DEF h
<1>7. /\ ListOf(h, s) = RemoveFirst(f[s], i) /\ ListOf(f, s) = f[s]
      /\ \A x \in Nat : x # s => ListOf(h, x) = ListOf(f, x)
  BY <1>4, <1>6 DEF ListOf
<1>8. Lists(h)
  BY <1>1, <1>5, <1>7 DEF Lists
<1>9. ASSUME NEW x \in Nat, NEW k \in Nat PROVE Occ(ListOf(h, x), k) = Cardinality(From(V, T, k, x))
  <2>1. Occ(ListOf(f, x), k) = Cardinality(From(W, T, k, x))
    BY <1>1
  <2>2. CASE x # s
    BY <2>1, <2>2, <1>2, <1>7
  <2>3. CASE x = s /\ k # i
    <3>1. Occ(ListOf(h, x), k) = Occ(f[s], k) - 0
      BY <2>3, <1>5, <1>7
    <3>2. Occ(f[s], k) \in Nat
      BY <1>3, <1>7, OccType
    <3> QED BY <3>1, <3>2, <2>1, <2>3, <1>2, <1>7
  <2>4. CASE x = s /\ k = i
    <3>1. Occ(ListOf(h, x), k) = Occ(f[s], k) - 1
      BY <2>4, <1>5, <1>7
    <3> QED BY <3>1, <2>1, <2>4, <1>2, <1>7
  <2> QED BY <2>2, <2>3, <2>4
<1>10. Fan(TRUE, h, V, T)
  BY <1>1, <1>6, <1>8, <1>9 DEF Fan
<1> QED BY <1>4, <1>10 DEF h, V, s, i

\* decRefCount counts one token less, and its counter was positive.
LEMMA RefsDropped ==
  ASSUME NEW e, CellsOK(e), NEW D, D \subseteq DOMAIN e, NEW W, NEW T, Refs(e, D, W, T), NEW v \in W, NEW e2,
         e2 = SetAt(e, T[v], [e[T[v]] EXCEPT !.refcount = e[T[v]].refcount - 1])
  PROVE  /\ T[v] \in D /\ e[T[v]].refcount > 0
         /\ CellsOK(e2) /\ SameCells(e2, e) /\ Refs(e2, D, W \ {v}, T)
<1> DEFINE s == T[v]
           V == W \ {v}
<1>1. IsFiniteSet(W) /\ s \in D /\ s \in DOMAIN e /\ (\A w \in W : T[w] \in D) /\ \A x \in DOMAIN e : e[x].refcount = Cardinality(To(W, T, x))
  BY DEF Refs
<1>1a. IsFiniteSet(V) /\ WithoutToken(V, W, T, v[1], s)
  BY <1>1, TokenDropped
<1> HIDE DEF V, s
<1>2. /\ IsFiniteSet(V) /\ (\A x : x # s => To(V, T, x) = To(W, T, x)) /\ Cardinality(To(W, T, s)) > 0
      /\ Cardinality(To(V, T, s)) = Cardinality(To(W, T, s)) - 1
  BY <1>1a DEF WithoutToken
<1>3. e[s].refcount > 0 /\ e[s].refcount \in Nat /\ e[s].refcount - 1 \in Nat
  <2>1. e[s].refcount \in Nat
    BY <1>1, CellFields
  <2>2. e[s].refcount > 0
    BY <1>1, <1>2
  <2> QED BY <2>1, <2>2
<1> DEFINE n == e[s].refcount - 1
<1>4. /\ DOMAIN e2 = DOMAIN e /\ e2[s] = [e[s] EXCEPT !.refcount = n] /\ \A x \in DOMAIN e : x # s => e2[x] = e[x]
  BY <1>1 DEF SetAt, s
<1>4a. n \in Nat
  BY <1>3
<1>4b. n = Cardinality(To(V, T, s))
  BY <1>1, <1>2
<1> HIDE DEF n, V, s
<1>5. /\ e2[s].type = e[s].type /\ e2[s].links = e[s].links /\ e2[s].refcount = n /\ e2[s] \in CellRec(DOMAIN e)
  <2>1. /\ [e[s] EXCEPT !.refcount = n] \in CellRec(DOMAIN e)
        /\ [e[s] EXCEPT !.refcount = n].type = e[s].type
        /\ [e[s] EXCEPT !.refcount = n].links = e[s].links
        /\ [e[s] EXCEPT !.refcount = n].refcount = n
    BY <1>1, <1>4a, CellFields
  <2> QED BY <2>1, <1>4
<1>6. CellsOK(e2)
  BY <1>4, <1>5 DEF CellsOK
<1>7. SameCells(e2, e)
  BY <1>4, <1>5 DEF SameCells
<1>8. \A x \in DOMAIN e2 : e2[x].refcount = Cardinality(To(V, T, x))
  BY <1>1, <1>2, <1>4, <1>4b, <1>5
<1>9. Refs(e2, D, V, T)
  BY <1>1, <1>2, <1>8 DEF Refs, V
<1> QED BY <1>1, <1>3, <1>6, <1>7, <1>9 DEF V, s

\* A link that goes takes its fanout and its reference with it.
LEMMA DropToken ==
  ASSUME NEW b, NEW W, NEW T, NEW p, NEW z, Core(b, W, T, p, z), NEW v \in W, v[1] \in Nat, NEW r,
         r = decRefCount(delFanout(b, T[v], v[1]), T[v])
  PROVE  Core(r, W \ {v}, T, p, z) /\ Recounted(r, b) /\ Live(r) = Live(b) /\ Drivers(r) = Drivers(b)
<1> DEFINE s == T[v]
           i == v[1]
           c == delFanout(b, s, i)
<1>1. IsRec(b) /\ DOMAIN b.entries \subseteq Nat /\ Drivers(b) \subseteq DOMAIN b.entries
  BY CoreFacts
<1>2. CellsOK(b.entries) /\ Refs(b.entries, Drivers(b), W, T) /\ Fan(b.fanoutsEnabled, b.fanouts, W, T) /\ IsFiniteSet(W)
  BY DEF Core, Refs
<1>3. s \in Drivers(b) /\ s \in Nat /\ i \in Nat
  BY <1>1, <1>2 DEF Refs
<1>4. /\ Same(c, b, {"fanouts"}) /\ c.entries = b.entries /\ c.fanoutsEnabled = b.fanoutsEnabled
      /\ Fan(c.fanoutsEnabled, c.fanouts, W \ {v}, T)
  <2>1. CASE ~b.fanoutsEnabled
    <3>1. c = b
      BY <2>1 DEF delFanout
    <3>2. b.fanoutsEnabled \in BOOLEAN /\ b.fanouts = << >>
      BY <2>1, <1>2 DEF Fan
    <3> QED BY <3>1, <3>2, <2>1 DEF Same, Fan
  <2>2. CASE b.fanoutsEnabled
    <3>1. b.fanoutsEnabled = TRUE
      BY <2>2, <1>2 DEF Fan
    <3>2. s \in DOMAIN b.fanouts /\ Fan(TRUE, SetAt(b.fanouts, s, RemoveFirst(b.fanouts[s], i)), W \ {v}, T)
      BY <3>1, <1>2, <1>3, FanDropped
    <3>3. c = [b EXCEPT !.fanouts = SetAt(b.fanouts, s, RemoveFirst(b.fanouts[s], i))]
      BY <2>2, <3>2 DEF delFanout
    <3> HIDE DEF c
    <3>4. /\ Same(c, b, {"fanouts"}) /\ c.entries = b.entries /\ c.fanoutsEnabled = b.fanoutsEnabled
          /\ c.fanouts = SetAt(b.fanouts, s, RemoveFirst(b.fanouts[s], i))
      BY <3>3, <1>1 DEF Same, IsRec, EmptyBuilder
    <3> QED BY <3>1, <3>2, <3>4
  <2> QED BY <2>1, <2>2
<1> DEFINE e2 == SetAt(b.entries, s, [b.entries[s] EXCEPT !.refcount = b.entries[s].refcount - 1])
<1>5. b.entries[s].refcount > 0 /\ CellsOK(e2) /\ SameCells(e2, b.entries) /\ Refs(e2, Drivers(b), W \ {v}, T)
  BY <1>1, <1>2, RefsDropped
<1>6. r = [c EXCEPT !.entries = e2]
  BY <1>4, <1>5 DEF decRefCount, SetRefCount
<1> HIDE DEF c, e2
<1>7. IsRec(c)
  BY <1>1, <1>4 DEF Same, IsRec
<1>8. Same(r, c, {"entries"}) /\ r.entries = e2 /\ r.fanouts = c.fanouts /\ r.fanoutsEnabled = c.fanoutsEnabled
  BY <1>6, <1>7 DEF Same, IsRec, EmptyBuilder
<1>9. Same(r, b, {"entries", "fanouts"}) /\ Same(r, b, {"entries", "fanouts", "fanoutsEnabled", "log"})
  BY <1>4, <1>8 DEF Same
<1>10. Recounted(r, b)
  BY <1>5, <1>8, <1>9 DEF Recounted
<1> QED BY <1>4, <1>5, <1>8, <1>9, <1>10, CoreSame

-----------------------------------------------------------------------------
(* Deleting cells.                                                         *)

\* The keys of st2 are keys of st.
KeysWithin(st2, st) == \A key \in DOMAIN st2 : key \in DOMAIN st /\ st2[key] = st[key]

\* destrashEntry removes the key of cell x, if that key leads to x.
LEMMA Destrash ==
  ASSUME NEW b, IsRec(b), NEW L, KeysOf(b.strash, b.entries, L), NEW x
  PROVE  /\ Same(destrashEntry(b, x), b, {"strash"})
         /\ KeysOf(destrashEntry(b, x).strash, b.entries, L \ {x})
         /\ KeysWithin(destrashEntry(b, x).strash, b.strash)
<1> DEFINE key0 == CellKey(b, x)
           st == b.strash
           r == destrashEntry(b, x)
<1>1. CASE StrashEnabled(b.entries[x].type) /\ StrashFind(b, key0) = x
  <2>1. r = [b EXCEPT !.strash = [k \in DOMAIN st \ {key0} |-> st[k]]]
    BY <1>1 DEF destrashEntry
  <2> HIDE DEF r, key0
  <2>2. Same(r, b, {"strash"}) /\ r.strash = [k \in DOMAIN st \ {key0} |-> st[k]]
    BY <2>1 DEF Same, IsRec, EmptyBuilder
  <2>3. DOMAIN r.strash = DOMAIN st \ {key0} /\ \A k \in DOMAIN st \ {key0} : r.strash[k] = st[k]
    BY <2>2
  <2>4. \A k \in DOMAIN r.strash : st[k] # x
    <3> SUFFICES ASSUME NEW k \in DOMAIN r.strash, st[k] = x PROVE FALSE
      OBVIOUS
    <3>1. StrashKey(b.entries[x].type, b.entries[x].links) = k
      BY <2>3 DEF KeysOf
    <3> QED BY <3>1, <2>3 DEF key0, CellKey
  <2> QED BY <2>2, <2>3, <2>4 DEF KeysOf, KeysWithin, r
<1>2. CASE ~(StrashEnabled(b.entries[x].type) /\ StrashFind(b, key0) = x)
  <2>1. r = b
    BY <1>2 DEF destrashEntry
  <2>2. \A k \in DOMAIN st : st[k] # x
    <3> SUFFICES ASSUME NEW k \in DOMAIN st, st[k] = x PROVE FALSE
      OBVIOUS
    <3>1. StrashKey(b.entries[x].type, b.entries[x].links) = k /\ StrashEnabled(b.entries[x].type)
      BY DEF KeysOf
    <3>2. k = key0
      BY <3>1 DEF CellKey
    <3> QED BY <3>1, <3>2, <1>2 DEF StrashFind
  <2> QED BY <2>1, <2>2 DEF Same, KeysOf, KeysWithin
<1> QED BY <1>1, <1>2

\* A deleted cell's slot goes to the end of the free list.
LEMMA FreeOne ==
  ASSUME NEW empty, NEW D, NEW L, L \subseteq D, FreeOf(empty, D, L), NEW x \in L
  PROVE  FreeOf(Append(empty, x), D, L \ {x})
<1> DEFINE s == Append(empty, x)
           n == Len(empty)
<1>1. /\ empty \in Seq(D) /\ n \in Nat /\ s \in Seq(D) /\ Len(s) = n + 1 /\ s[n + 1] = x
      /\ \A j \in 1 .. n : s[j] = empty[j]
  BY DEF FreeOf
<1>2. 1 .. n + 1 = (1 .. n) \cup {n + 1} /\ n + 1 \notin 1 .. n
  BY <1>1
<1> HIDE DEF s, n
<1>3. /\ \A j, k \in 1 .. n : empty[j] = empty[k] => j = k
      /\ \A j \in 1 .. n : empty[j] \notin L
      /\ \A y \in D \ L : \E j \in 1 .. n : empty[j] = y
  BY DEF FreeOf, n
<1>4. \A j, k \in 1 .. Len(s) : s[j] = s[k] => j = k
  BY <1>1, <1>2, <1>3
<1>5. \A j \in 1 .. Len(s) : s[j] \notin L \ {x}
  BY <1>1, <1>2, <1>3
<1>6. \A y \in D \ (L \ {x}) : \E j \in 1 .. Len(s) : s[j] = y
  <2> TAKE y \in D \ (L \ {x})
  <2>1. CASE y = x
    BY <2>1, <1>1, <1>2
  <2>2. CASE y # x
    <3>1. PICK j \in 1 .. n : empty[j] = y
      BY <2>2, <1>3
    <3> QED BY <3>1, <1>1, <1>2
  <2> QED BY <2>1, <2>2
<1> QED BY <1>1, <1>4, <1>5, <1>6 DEF FreeOf, s

\* One cell less is one cell less of its type.
LEMMA NumRemove ==
  ASSUME NEW L, IsFiniteSet(L), NEW x \in L, NEW e, NEW u
  PROVE  /\ Num(e, L \ {x}, u) \in Nat /\ Num(e, L, u) \in Nat
         /\ Num(e, L, u) = IF e[x].type = u THEN Num(e, L \ {x}, u) + 1 ELSE Num(e, L \ {x}, u)
<1> DEFINE M == L \ {x}
<1>1. IsFiniteSet(M) /\ x \notin M /\ M \cup {x} = L
  BY FS_RemoveElement
<1>2. SameOn(e, e, M)
  BY DEF SameOn
<1> HIDE DEF M
<1>3. /\ e[x].type = u => Num(e, M \cup {x}, u) = Num(e, M, u) + 1
      /\ e[x].type # u => Num(e, M \cup {x}, u) = Num(e, M, u)
  BY ONLY <1>1, <1>2, NumAdd
<1>4. Num(e, M, u) \in Nat /\ Num(e, L, u) \in Nat
  BY <1>1, NumType
<1>5. Num(e, L, u) = IF e[x].type = u THEN Num(e, M, u) + 1 ELSE Num(e, M, u)
  BY <1>1, <1>3
<1> QED BY <1>4, <1>5 DEF M

\* The fields that deallocEntry changes.
DeallocFields == BoundFields \cup {"strash", "depth", "empty", "nCell", "nBuf"}

\* The builder r is b without cell x.
Without(r, b, x) ==
  /\ Same(r, b, DeallocFields)
  /\ Live(r) = Live(b) \ {x} /\ Drivers(r) = Drivers(b) \ {x}
  /\ r.entries = b.entries
  /\ \A y \in DOMAIN b.entries \ {x} : r.depth[y] = b.depth[y]
  /\ KeysWithin(r.strash, b.strash)

\* The builder r is b with the order of c, and another depth of x at most.
OrderOf(r, c, b, x) ==
  /\ IsRec(r) /\ r.entries = b.entries
  /\ DOMAIN r.depth = DOMAIN b.depth /\ \A y \in DOMAIN b.entries \ {x} : r.depth[y] = b.depth[y]
  /\ r.prev = c.prev /\ r.next = c.next /\ r.begin = c.begin /\ r.end = c.end /\ r.depthBounds = c.depthBounds

\* The order without cell x.
LEMMA DeleteOrder ==
  ASSUME NEW b, NEW p, NEW L, Ordered(b, L, p), NEW x \in Inner(b, L), b.entries[x].type # "IN", NEW r,
         OrderOf(r, deleteDepthBounds(b, x), b, x)
  PROVE  Ordered(r, L \ {x}, Removed(L, p, x)) /\ SameOrder(Removed(L, p, x), p, L \ {x})
<1> DEFINE q == Removed(L, p, x)
           M == L \ {x}
           c == deleteDepthBounds(b, x)
<1>0. /\ IsRec(r) /\ r.entries = b.entries
      /\ DOMAIN r.depth = DOMAIN b.depth /\ \A y \in DOMAIN b.entries \ {x} : r.depth[y] = b.depth[y]
      /\ r.prev = c.prev /\ r.next = c.next /\ r.begin = c.begin /\ r.end = c.end /\ r.depthBounds = c.depthBounds
  BY DEF OrderOf
<1> USE <1>0
<1>1. /\ Arrays(b) /\ L \in SUBSET DOMAIN b.entries /\ IsFiniteSet(L) /\ Thread(b, L, p)
      /\ Levels(Inner(b, L), L, p, b.depth, b.depthBounds) /\ InsFirst(b, L, p) /\ x \in L
  BY DEF Ordered, Inner
<1>2. /\ Same(c, b, BoundFields) /\ Arrays(c) /\ Thread(c, M, q)
      /\ Levels(Inner(b, L) \ {x}, M, q, b.depth, c.depthBounds)
  BY ONLY <1>1, x \in Inner(b, L), DeleteBounds
<1> HIDE DEF c
<1>3. c.entries = b.entries /\ c.depth = b.depth
  BY <1>2 DEF Same, BoundFields, OrderFields, Arrays, IsRec, EmptyBuilder
<1>4. SameOrder(q, p, M)
  <2>1. IsOrder(L, p)
    <3>1. IsFiniteSet(L) => Cardinality(L) \in Nat
      BY FS_CardinalityType
    <3> QED BY <3>1, <1>1 DEF Thread, IsOrder
  <2> HIDE DEF q
  <2>2. \A y, w \in L \ {x} : q[y] < q[w] <=> p[y] < p[w]
    BY <2>1, <1>1, RemovedOrder DEF q
  <2> QED BY <2>2 DEF SameOrder
<1> HIDE DEF q, M
<1>5. IsFiniteSet(M) /\ M \subseteq L /\ M = L \ {x}
  BY <1>1, FS_RemoveElement DEF M
<1>6. Arrays(r)
  BY <1>2, <1>3 DEF Arrays
<1>7. Thread(r, M, q)
  BY <1>2, ThreadFields
<1>8. Inner(r, M) = Inner(b, L) \ {x}
  BY <1>5 DEF Inner
<1>9. Levels(Inner(r, M), M, q, r.depth, r.depthBounds)
  <2>1. \A y \in Inner(b, L) \ {x} : r.depth[y] = b.depth[y]
    BY <1>1 DEF Inner
  <2> QED BY <2>1, <1>2, <1>8, LevelsDepth
<1>10. InsFirst(r, M, q)
  <2>1. /\ \A y \in L : b.entries[y].type = "IN" => b.depth[y] = 0
        /\ \A y, w \in L : b.entries[y].type = "IN" /\ b.entries[w].type # "IN" => p[y] < p[w]
        /\ \A y \in L : b.entries[y].type # "OUT" /\ b.depth[y] = 0 => b.entries[y].type \in {"IN", "ZERO", "ONE"}
        /\ \E y \in L : b.entries[y].type = "IN"
    BY <1>1 DEF InsFirst
  <2>2. \A y \in M : r.depth[y] = b.depth[y]
    BY <1>1, <1>5
  <2>3. \A y, w \in M : r.entries[y].type = "IN" /\ r.entries[w].type # "IN" => q[y] < q[w]
    BY <2>1, <1>4, <1>5 DEF SameOrder
  <2>4. \E y \in M : r.entries[y].type = "IN"
    BY <2>1, <1>5
  <2> QED BY <2>1, <2>2, <2>3, <2>4, <1>5 DEF InsFirst
<1>11. M \subseteq DOMAIN r.entries
  BY <1>1, <1>5
<1>12. Ordered(r, M, q)
  BY <1>5, <1>6, <1>7, <1>9, <1>10, <1>11 DEF Ordered
<1> QED BY <1>4, <1>12 DEF q, M

\* The counters after a deletion are right.
LEMMA CountsRemove ==
  ASSUME NEW b, NEW z \in Int, Counts(b, z), IsFiniteSet(Live(b)), NEW x \in Live(b),
         NEW r, Live(r) = Live(b) \ {x}, r.entries = b.entries,
         r.nIn = b.nIn, r.nOut = b.nOut, r.nCell = b.nCell - 1, r.nBuf = IF b.entries[x].type = "BUF" THEN b.nBuf - 1 ELSE b.nBuf,
         b.entries[x].type # "IN", b.entries[x].type # "OUT"
  PROVE  Counts(r, z)
<1> DEFINE L == Live(b)
           e == b.entries
<1>1. /\ b.nCell = Cardinality(L) /\ b.nIn = Num(e, L, "IN") /\ b.nOut = Num(e, L, "OUT") /\ b.nBuf = Num(e, L, "BUF") + z
  BY DEF Counts
<1>2. r.nCell = Cardinality(L \ {x})
  BY <1>1, FS_RemoveElement
<1> HIDE DEF L, e
<1>3. IsFiniteSet(L) /\ x \in L /\ e[x].type # "IN" /\ e[x].type # "OUT"
  BY DEF L, e
<1>4. r.nIn = Num(e, L \ {x}, "IN")
  <2>1. /\ Num(e, L, "IN") = IF e[x].type = "IN" THEN Num(e, L \ {x}, "IN") + 1 ELSE Num(e, L \ {x}, "IN")
    BY <1>3, NumRemove
  <2> QED BY <2>1, <1>1, <1>3
<1>5. r.nOut = Num(e, L \ {x}, "OUT")
  <2>1. /\ Num(e, L, "OUT") = IF e[x].type = "OUT" THEN Num(e, L \ {x}, "OUT") + 1 ELSE Num(e, L \ {x}, "OUT")
    BY <1>3, NumRemove
  <2> QED BY <2>1, <1>1, <1>3
<1>6. r.nBuf = Num(e, L \ {x}, "BUF") + z
  <2>1. /\ Num(e, L, "BUF") = IF e[x].type = "BUF" THEN Num(e, L \ {x}, "BUF") + 1 ELSE Num(e, L \ {x}, "BUF")
        /\ Num(e, L \ {x}, "BUF") \in Nat
    BY <1>3, NumRemove
  <2>2. CASE e[x].type = "BUF"
    <3>1. r.nBuf = b.nBuf - 1
      BY <2>2 DEF e
    <3> QED BY <2>1, <2>2, <3>1, <1>1
  <2>3. CASE e[x].type # "BUF"
    <3>1. r.nBuf = b.nBuf
      BY <2>3 DEF e
    <3> QED BY <2>1, <2>3, <3>1, <1>1
  <2> QED BY <2>2, <2>3
<1> QED BY <1>2, <1>4, <1>5, <1>6 DEF Counts, L, e

\* deallocEntry of a cell without references keeps all parts in agreement, and the assert
\* that there are no references holds.
LEMMA Dealloc ==
  ASSUME NEW b, NEW W, NEW T, NEW p, NEW z \in Int, Core(b, W, T, p, z),
         NEW x \in Drivers(b), b.entries[x].type # "IN",
         b.entries[x].refcount = 0, NEW r, r = deallocEntry(b, x)
  PROVE  /\ Core(r, W, T, Removed(Live(b), p, x), z) /\ Without(r, b, x)
         /\ SameOrder(Removed(Live(b), p, x), p, Live(b) \ {x})
<1> DEFINE L == Live(b)
           a == destrashEntry(b, x)
           c == deleteDepthBounds(a, x)
           q == Removed(L, p, x)
<1>1. IsRec(b) /\ Arrays(b) /\ L \subseteq DOMAIN b.entries /\ Drivers(b) = Inner(b, L) /\ x \in L /\ DOMAIN b.entries \subseteq Nat /\ IsFiniteSet(L)
  BY CoreFacts
<1>2. Require(b, b.entries[x].refcount = 0) = b
  BY DEF Require
<1>3. r = [c EXCEPT !.depth = SetAt(@, x, InvalidDepth), !.empty = Append(@, x),
                    !.nCell = @ - 1, !.nBuf = IF b.entries[x].type = "BUF" THEN @ - 1 ELSE @]
  BY <1>2 DEF deallocEntry
<1>4. Same(a, b, {"strash"}) /\ KeysOf(a.strash, b.entries, L \ {x}) /\ KeysWithin(a.strash, b.strash)
  BY <1>1, Destrash DEF Core
<1>5. /\ IsRec(a) /\ a.entries = b.entries /\ a.prev = b.prev /\ a.next = b.next /\ a.begin = b.begin /\ a.end = b.end
      /\ a.depth = b.depth /\ a.depthBounds = b.depthBounds
  BY <1>1, <1>4 DEF Same, IsRec, EmptyBuilder
<1> HIDE DEF a
<1>6. Ordered(a, L, p) /\ Inner(a, L) = Drivers(b)
  <2>1. Ordered(b, L, p)
    BY DEF Core
  <2>2. SameCells(a.entries, b.entries)
    BY <1>5 DEF SameCells
  <2>3. Inner(a, L) = Inner(b, L)
    BY <1>5 DEF Inner
  <2> QED BY <2>1, <2>2, <2>3, <1>1, <1>5, OrderedSame
<1>7. Same(c, a, BoundFields)
  <2>1. Arrays(a) /\ L \in SUBSET DOMAIN a.entries /\ IsFiniteSet(L) /\ Thread(a, L, p) /\ Levels(Inner(a, L), L, p, a.depth, a.depthBounds)
    BY <1>6 DEF Ordered
  <2> QED BY <2>1, <1>6, DeleteBounds
<1>8. /\ IsRec(c) /\ c.entries = b.entries /\ c.depth = b.depth /\ c.strash = a.strash /\ c.empty = b.empty /\ c.fanouts = b.fanouts
      /\ c.fanoutsEnabled = b.fanoutsEnabled /\ c.fault = b.fault /\ c.nCell = b.nCell /\ c.nBuf = b.nBuf /\ c.nIn = b.nIn /\ c.nOut = b.nOut
      /\ Same(c, b, BoundFields \cup {"strash"})
  BY <1>1, <1>4, <1>5, <1>7 DEF Same, IsRec, EmptyBuilder, BoundFields, OrderFields
<1>8a. c = deleteDepthBounds(a, x)
  OBVIOUS
<1> HIDE DEF c
<1>9. /\ IsRec(r) /\ r.entries = b.entries /\ r.depth = SetAt(b.depth, x, InvalidDepth) /\ r.strash = a.strash /\ r.empty = Append(b.empty, x)
      /\ r.fanouts = b.fanouts /\ r.fanoutsEnabled = b.fanoutsEnabled /\ r.fault = b.fault
      /\ r.nCell = b.nCell - 1 /\ r.nBuf = (IF b.entries[x].type = "BUF" THEN b.nBuf - 1 ELSE b.nBuf) /\ r.nIn = b.nIn /\ r.nOut = b.nOut
      /\ r.prev = c.prev /\ r.next = c.next /\ r.begin = c.begin /\ r.end = c.end /\ r.depthBounds = c.depthBounds
      /\ Same(r, c, {"depth", "empty", "nCell", "nBuf"})
  <2> DEFINE d2 == SetAt(c.depth, x, InvalidDepth)
             e2 == Append(c.empty, x)
             n2 == c.nCell - 1
             m2 == IF b.entries[x].type = "BUF" THEN c.nBuf - 1 ELSE c.nBuf
  <2>1. r = [c EXCEPT !.depth = d2, !.empty = e2, !.nCell = n2, !.nBuf = m2]
    BY <1>3
  <2>2. d2 = SetAt(b.depth, x, InvalidDepth) /\ e2 = Append(b.empty, x) /\ n2 = b.nCell - 1
        /\ m2 = IF b.entries[x].type = "BUF" THEN b.nBuf - 1 ELSE b.nBuf
    BY <1>8
  <2> HIDE DEF d2, e2, n2, m2
  <2>3. /\ IsRec(r) /\ Same(r, c, {"depth", "empty", "nCell", "nBuf"})
        /\ r.depth = d2 /\ r.empty = e2 /\ r.nCell = n2 /\ r.nBuf = m2
    BY <2>1, <1>8 DEF Same, IsRec, EmptyBuilder
  <2>4. /\ r.entries = c.entries /\ r.strash = c.strash /\ r.fanouts = c.fanouts /\ r.fanoutsEnabled = c.fanoutsEnabled /\ r.fault = c.fault
        /\ r.nIn = c.nIn /\ r.nOut = c.nOut
        /\ r.prev = c.prev /\ r.next = c.next /\ r.begin = c.begin /\ r.end = c.end /\ r.depthBounds = c.depthBounds
    BY <2>3, <1>8 DEF Same, IsRec, EmptyBuilder
  <2> QED BY <2>2, <2>3, <2>4, <1>8
<1>10. Same(r, b, DeallocFields)
  BY <1>8, <1>9 DEF Same, DeallocFields
<1>11. /\ DOMAIN r.depth = DOMAIN b.entries /\ r.depth[x] = InvalidDepth /\ \A y \in DOMAIN b.entries \ {x} : r.depth[y] = b.depth[y]
  BY <1>1, <1>9 DEF SetAt, Arrays
<1>12. Live(r) = L \ {x} /\ Drivers(r) = Drivers(b) \ {x}
  BY <1>1, <1>9, <1>11 DEF Live, Drivers
<1>13. Without(r, b, x)
  BY <1>4, <1>9, <1>10, <1>11, <1>12 DEF Without
<1>14. Ordered(r, L \ {x}, q) /\ SameOrder(q, p, L \ {x})
  <2>1. r.entries = a.entries /\ DOMAIN r.depth = DOMAIN a.depth /\ \A y \in DOMAIN a.entries \ {x} : r.depth[y] = a.depth[y]
    BY <1>1, <1>5, <1>9, <1>11 DEF Arrays
  <2>2. x \in Inner(a, L) /\ a.entries[x].type # "IN"
    BY <1>5, <1>6
  <2>3. /\ IsRec(r) /\ r.prev = c.prev /\ r.next = c.next /\ r.begin = c.begin /\ r.end = c.end /\ r.depthBounds = c.depthBounds
    BY <1>9
  <2>4. Ordered(a, L, p)
    BY <1>6
  <2>5. OrderOf(r, deleteDepthBounds(a, x), a, x)
    BY ONLY <2>1, <2>3, <1>8a DEF OrderOf
  <2> HIDE DEF L
  <2> QED BY ONLY <2>2, <2>4, <2>5, DeleteOrder DEF q
<1>15. Refs(r.entries, Drivers(r), W, T)
  <2>1. Refs(b.entries, Drivers(b), W, T)
    BY DEF Core
  <2>2. Cardinality(To(W, T, x)) = 0 /\ IsFiniteSet(W)
    BY <2>1, <1>1 DEF Refs
  <2>3. IsFiniteSet(To(W, T, x))
    BY <2>2, TokensFinite
  <2>4. To(W, T, x) = {}
    BY <2>2, <2>3, FS_EmptySet
  <2>5. \A w \in W : T[w] # x
    BY <2>4 DEF To
  <2> QED BY <2>1, <2>5, <1>9, <1>12 DEF Refs
<1>16. FreeOf(r.empty, DOMAIN r.entries, Live(r))
  BY <1>1, <1>9, <1>12, FreeOne DEF Core
<1>17. Counts(r, z)
  BY <1>1, <1>9, <1>12, CountsRemove DEF Core, Drivers
<1>18. DepthsOK(r.depth, DOMAIN r.entries)
  BY <1>9, <1>11 DEF Core, DepthsOK
<1>19. Core(r, W, T, q, z)
  BY <1>4, <1>9, <1>12, <1>14, <1>15, <1>16, <1>17, <1>18 DEF Core
<1> QED BY <1>13, <1>14, <1>19

-----------------------------------------------------------------------------
(* The queue of deleteCell.                                                *)

\* Recounting twice.
LEMMA RecountedTrans ==
  ASSUME NEW a, NEW b, NEW c, Recounted(b, a), Recounted(c, b)
  PROVE  Recounted(c, a)
BY DEF Recounted, Same, SameCells

\* What recounting keeps.
LEMMA RecountedFields ==
  ASSUME NEW b, IsRec(b), NEW r, Recounted(r, b)
  PROVE  /\ IsRec(r) /\ r.depth = b.depth /\ r.strash = b.strash /\ DOMAIN r.entries = DOMAIN b.entries
         /\ r.begin = b.begin /\ r.end = b.end /\ r.prev = b.prev /\ r.next = b.next /\ r.fanoutsEnabled = b.fanoutsEnabled
         /\ \A x \in DOMAIN b.entries : r.entries[x].type = b.entries[x].type /\ r.entries[x].links = b.entries[x].links
BY DEF Recounted, SameCells, Same, IsRec, EmptyBuilder

\* The cells to be deleted: each once, unused, above no cell of depth dm.
Doomed(b, x, dm) == x \in Drivers(b) /\ b.entries[x].refcount = 0 /\ b.entries[x].type # "IN" /\ b.depth[x] < dm

\* The queue of deleteCell holds cells to be deleted, each once.
QueueOK(b, q, dm) ==
  /\ q \in Seq(Nat)
  /\ \A j \in 1 .. Len(q) : Doomed(b, q[j], dm)
  /\ \A j, k \in 1 .. Len(q) : q[j] = q[k] => j = k

\* The pair bq of a builder and a queue, while the inputs of a deleted cell are dropped.
DropState(bq, b, W, T, p, z, dm) ==
  /\ bq = <<bq[1], bq[2]>>
  /\ Core(bq[1], W, T, p, z) /\ Recounted(bq[1], b) /\ QueueOK(bq[1], bq[2], dm)

\* Dropping one input: its counter and its fanouts follow, and it is queued if it was
\* the last reference.
LEMMA DropInputStep ==
  ASSUME NEW c, NEW bq, NEW W, NEW T, NEW p, NEW z, NEW dm, DropState(bq, c, W, T, p, z, dm),
         IsRec(c), NEW v \in W, v[1] \in Nat, NEW l, l.idx = T[v], c.depth[T[v]] < dm
  PROVE  DropState(DropInput(bq, v[1], l), c, W \ {v}, T, p, z, dm)
<1> DEFINE b == bq[1]
           q == bq[2]
           s == T[v]
           r == decRefCount(delFanout(b, s, v[1]), s)
           q2 == IF r.entries[s].refcount = 0 /\ r.entries[s].type # "IN" THEN Append(q, s) ELSE q
           V == W \ {v}
<1>1. DropInput(bq, v[1], l) = <<r, q2>>
  BY DEF DropInput
<1>2. Core(b, W, T, p, z) /\ Recounted(b, c) /\ QueueOK(b, q, dm)
  BY DEF DropState
<1>3. Core(r, V, T, p, z) /\ Recounted(r, b) /\ Live(r) = Live(b) /\ Drivers(r) = Drivers(b)
  BY <1>2, DropToken
<1> HIDE DEF b, q, r
<1>4. Recounted(r, c)
  BY <1>2, <1>3, RecountedTrans
<1>5. r.depth = c.depth /\ b.depth = c.depth
  BY <1>2, <1>4, RecountedFields
<1>6. /\ Refs(b.entries, Drivers(b), W, T) /\ Refs(r.entries, Drivers(b), V, T) /\ Drivers(b) \subseteq DOMAIN b.entries
      /\ Drivers(b) \subseteq DOMAIN r.entries /\ Drivers(b) \subseteq Nat
  <2>1. Drivers(b) \subseteq DOMAIN b.entries /\ DOMAIN b.entries \subseteq Nat
    BY <1>2, CoreFacts
  <2>2. Drivers(r) \subseteq DOMAIN r.entries
    BY <1>3, CoreFacts
  <2> QED BY <2>1, <2>2, <1>2, <1>3 DEF Core
<1>7. s \in Drivers(b) /\ IsFiniteSet(W)
  BY <1>6 DEF Refs
<1>8. WithoutToken(V, W, T, v[1], s)
  BY <1>7, TokenDropped
<1> HIDE DEF V, s
<1>9. \A y \in Drivers(b) : y # s => r.entries[y].refcount = b.entries[y].refcount
  BY <1>6, <1>8 DEF Refs, WithoutToken
<1>10. b.entries[s].refcount # 0
  <2>1. b.entries[s].refcount = Cardinality(To(W, T, s)) /\ Cardinality(To(W, T, s)) > 0
    BY <1>6, <1>7, <1>8 DEF Refs, WithoutToken
  <2> QED BY <2>1
<1>11. \A y \in Drivers(b) : r.entries[y].type = b.entries[y].type
  BY <1>3, <1>6 DEF Recounted, SameCells
<1>12. \A y : Doomed(b, y, dm) => Doomed(r, y, dm) /\ y # s
  BY <1>3, <1>5, <1>9, <1>10, <1>11 DEF Doomed
<1>13. QueueOK(r, q, dm) /\ \A j \in 1 .. Len(q) : q[j] # s
  BY <1>2, <1>12 DEF QueueOK
<1>14. QueueOK(r, q2, dm)
  <2>1. CASE r.entries[s].refcount = 0 /\ r.entries[s].type # "IN"
    <3>1. Doomed(r, s, dm) /\ s \in Nat
      BY <2>1, <1>3, <1>5, <1>6, <1>7 DEF Doomed, s
    <3>2. q2 = Append(q, s) /\ q \in Seq(Nat)
      BY <2>1, <1>13 DEF QueueOK
    <3> DEFINE n == Len(q)
    <3>3. n \in Nat /\ q2 \in Seq(Nat) /\ Len(q2) = n + 1 /\ q2[n + 1] = s /\ \A j \in 1 .. n : q2[j] = q[j]
      BY <3>1, <3>2
    <3>4. 1 .. n + 1 = (1 .. n) \cup {n + 1}
      BY <3>3
    <3>5. /\ \A j \in 1 .. n : Doomed(r, q[j], dm) /\ q[j] # s
          /\ \A j, k \in 1 .. n : q[j] = q[k] => j = k
      BY <1>13 DEF QueueOK
    <3> HIDE DEF n, q2
    <3> QED BY <3>1, <3>3, <3>4, <3>5 DEF QueueOK
  <2>2. CASE ~(r.entries[s].refcount = 0 /\ r.entries[s].type # "IN")
    <3>1. q2 = q
      BY <2>2
    <3> QED BY <3>1, <1>13
  <2> QED BY <2>1, <2>2
<1> HIDE DEF q2
<1>15. DropState(<<r, q2>>, c, V, T, p, z, dm)
  BY <1>3, <1>4, <1>14 DEF DropState
<1> QED BY <1>1, <1>15 DEF V

\* One iteration of DropInputs.
DropLoop(c, bq, j) == DropInput(bq, c[1], c[2][j])

\* The loop of DropInputs has runs.
Drops == INSTANCE LoopProofs WITH Step <- DropLoop

\* drop is the run of DropInputs(bq, i, ls).
IsDropping(drop, bq, i, ls) ==
  /\ drop[0] = bq
  /\ \A j \in 1 .. Len(ls) : drop[j] = DropInput(drop[j - 1], i, ls[j])
  /\ DropInputs(bq, i, ls) = drop[Len(ls)]

\* DropInputs is the last state of a run of its loop.
LEMMA DropInputsRun ==
  ASSUME NEW bq, NEW i, NEW ls, Len(ls) \in Nat
  PROVE  \E drop : IsDropping(drop, bq, i, ls)
<1> DEFINE N == Len(ls)
           drop == CHOOSE g : g = [j \in 0 .. N |-> IF j = 0 THEN bq ELSE DropInput(g[j - 1], i, ls[j])]
<1>1. \E g : g = [j \in 0 .. N |-> IF j = 0 THEN bq ELSE DropInput(g[j - 1], i, ls[j])]
  <2>1. \E g : Drops!IsRun(g, <<i, ls>>, bq, N)
    BY Drops!RunExists, LeastNumbers DEF Drops!WellOrdered
  <2> QED BY <2>1 DEF Drops!IsRun, DropLoop
<1>2. drop = [j \in 0 .. N |-> IF j = 0 THEN bq ELSE DropInput(drop[j - 1], i, ls[j])]
  BY <1>1
<1>3. DropInputs(bq, i, ls) = drop[N]
  BY DEF DropInputs
<1> HIDE DEF drop
<1>4. /\ drop[0] = bq
      /\ \A j \in 1 .. N : drop[j] = DropInput(drop[j - 1], i, ls[j])
  BY <1>2
<1>5. IsDropping(drop, bq, i, ls)
  BY <1>3, <1>4 DEF IsDropping
<1> QED BY <1>5

\* The tokens of x, of which the first j have gone.
Spent(W, x, j) == W \ {<<x, m>> : m \in 1 .. j}

\* One more token is spent.
LEMMA SpentStep ==
  ASSUME NEW W, NEW x, NEW j \in Nat
  PROVE  Spent(W, x, 0) = W /\ Spent(W, x, j + 1) = Spent(W, x, j) \ {<<x, j + 1>>} /\ (<<x, j + 1>> \in W => <<x, j + 1>> \in Spent(W, x, j))
<1>1. 1 .. j + 1 = (1 .. j) \cup {j + 1} /\ j + 1 \notin 1 .. j /\ 1 .. 0 = {}
  OBVIOUS
<1> QED BY <1>1 DEF Spent

\* All inputs of a deleted cell are dropped.
LEMMA DropAll ==
  ASSUME NEW c, NEW bq, NEW W, NEW T, NEW p, NEW z, NEW dm, DropState(bq, c, W, T, p, z, dm), IsRec(c), NEW x \in Nat,
         NEW D, NEW ls \in Seq(LinkSet(D)), \A j \in DOMAIN ls : <<x, j>> \in W /\ T[<<x, j>>] = ls[j].idx /\ c.depth[ls[j].idx] < dm
  PROVE  DropState(DropInputs(bq, x, ls), c, Spent(W, x, Len(ls)), T, p, z, dm)
<1> DEFINE N == Len(ls)
<1>1. N \in Nat /\ DOMAIN ls = 1 .. N
  BY LinkSeq
<1>2. PICK drop : IsDropping(drop, bq, x, ls)
  BY <1>1, DropInputsRun
<1> DEFINE S == {j \in 0 .. N : DropState(drop[j], c, Spent(W, x, j), T, p, z, dm)}
<1>3. 0 \in S
  <2>1. Spent(W, x, 0) = W
    BY SpentStep
  <2>2. drop[0] = bq
    BY <1>2 DEF IsDropping
  <2> QED BY <2>1, <2>2, <1>1
<1>4. ASSUME NEW j \in 0 .. N - 1, j \in S PROVE j + 1 \in S
  <2> DEFINE v == <<x, j + 1>>
  <2>1. j + 1 \in 1 .. N /\ j + 1 \in 0 .. N /\ j + 1 - 1 = j /\ j \in Nat
    BY <1>1
  <2>2. Spent(W, x, j + 1) = Spent(W, x, j) \ {v} /\ v \in Spent(W, x, j)
    BY <2>1, <1>1, SpentStep
  <2>3. drop[j + 1] = DropInput(drop[j], x, ls[j + 1])
    BY <2>1, <1>2 DEF IsDropping
  <2>4. v[1] = x /\ T[v] = ls[j + 1].idx /\ c.depth[T[v]] < dm
    BY <2>1, <1>1
  <2>5. DropState(drop[j], c, Spent(W, x, j), T, p, z, dm)
    BY <1>4
  <2> HIDE DEF v, N
  <2>6. DropState(DropInput(drop[j], v[1], ls[j + 1]), c, Spent(W, x, j) \ {v}, T, p, z, dm)
    BY <2>2, <2>4, <2>5, DropInputStep
  <2> QED BY <2>1, <2>2, <2>3, <2>4, <2>6
<1> HIDE DEF S
<1>5. \A j \in 0 .. N : j \in S
  BY <1>1, <1>3, <1>4, IntervalInduction
<1>6. N \in S
  BY <1>1, <1>5
<1>7. DropState(drop[N], c, Spent(W, x, N), T, p, z, dm)
  BY <1>6 DEF S
<1> QED BY <1>2, <1>7 DEF IsDropping

\* The builder b is b0 without some cells of depths below dm.
Pruned(b, b0, p, p0, dm) ==
  /\ IsRec(b) /\ Live(b) \subseteq Live(b0)
  /\ \A x \in Live(b0) \ Live(b) : b0.depth[x] < dm /\ b0.entries[x].type \notin {"IN", "OUT"}
  /\ SameCells(b.entries, b0.entries)
  /\ \A x \in Live(b) : b.depth[x] = b0.depth[x]
  /\ SameOrder(p, p0, Live(b))
  /\ KeysWithin(b.strash, b0.strash)
  /\ b.log = b0.log /\ b.fanoutsEnabled = b0.fanoutsEnabled

\* Pruning twice.
LEMMA PrunedTrans ==
  ASSUME NEW a, NEW b, NEW c, NEW p, NEW q, NEW r,
         NEW dm, Pruned(b, a, q, p, dm), Pruned(c, b, r, q, dm), Live(a) \subseteq DOMAIN a.entries
  PROVE  Pruned(c, a, r, p, dm)
<1>1. Live(c) \subseteq Live(b) /\ Live(b) \subseteq Live(a) /\ IsRec(c)
  BY DEF Pruned
<1>2. \A x \in Live(a) \ Live(c) : a.depth[x] < dm /\ a.entries[x].type \notin {"IN", "OUT"}
  BY <1>1 DEF Pruned, SameCells
<1>3. SameCells(c.entries, a.entries)
  BY DEF Pruned, SameCells
<1>4. SameOrder(r, p, Live(c))
  BY <1>1 DEF Pruned, SameOrder
<1>5. KeysWithin(c.strash, a.strash)
  BY DEF Pruned, KeysWithin
<1> QED BY <1>1, <1>2, <1>3, <1>4, <1>5 DEF Pruned

\* The tokens that the cells of L hold.
Held(W, L) == {w \in W : w[1] \in L}

\* The deletion with the queue q.  The cells of R are being rewritten.
Deleting(b, q, W, T, p, z, dm, R) ==
  /\ Core(b, W, T, p, z) /\ QueueOK(b, q, dm)
  /\ Wired(b.entries, Live(b) \ R, W, T) /\ (\A w \in W : w[1] \in Live(b))
  /\ ExactOn(b, Live(b) \ R) /\ \A x \in R \cap Live(b) : b.depth[x] >= dm

\* The elements of the tail of a queue.
LEMMA TailQueue ==
  ASSUME NEW q \in Seq(Nat), q # << >>
  PROVE  /\ Head(q) = q[1] /\ 1 \in 1 .. Len(q) /\ Tail(q) \in Seq(Nat) /\ Len(Tail(q)) = Len(q) - 1 /\ Len(q) \in Nat
         /\ \A j \in 1 .. Len(Tail(q)) : Tail(q)[j] = q[j + 1] /\ j + 1 \in 1 .. Len(q)
OBVIOUS

\* The queue is right when its first cell has been deleted.
LEMMA QueueTail ==
  ASSUME NEW b, NEW c, NEW q,
         NEW dm, QueueOK(b, q, dm), q # << >>, Without(c, b, Head(q)), Drivers(b) \subseteq DOMAIN b.entries
  PROVE  QueueOK(c, Tail(q), dm)
<1> DEFINE t == Tail(q)
<1>1. q \in Seq(Nat)
  BY DEF QueueOK
<1>2. /\ Head(q) = q[1] /\ 1 \in 1 .. Len(q) /\ t \in Seq(Nat) /\ Len(t) = Len(q) - 1 /\ Len(q) \in Nat
      /\ \A j \in 1 .. Len(t) : t[j] = q[j + 1] /\ j + 1 \in 1 .. Len(q)
  BY <1>1, TailQueue
<1> HIDE DEF t
<1>3. \A j \in 1 .. Len(t) : Doomed(b, t[j], dm) /\ t[j] # Head(q)
  <2> TAKE j \in 1 .. Len(t)
  <2>1. t[j] = q[j + 1] /\ j + 1 \in 1 .. Len(q) /\ j + 1 # 1
    BY <1>2
  <2> QED BY <2>1, <1>2 DEF QueueOK
<1>4. \A y : Doomed(b, y, dm) /\ y # Head(q) => Doomed(c, y, dm)
  BY DEF Doomed, Without
<1>5. \A j, k \in 1 .. Len(t) : t[j] = t[k] => j = k
  <2> TAKE j, k \in 1 .. Len(t)
  <2>1. t[j] = q[j + 1] /\ j + 1 \in 1 .. Len(q) /\ t[k] = q[k + 1] /\ k + 1 \in 1 .. Len(q)
    BY <1>2
  <2>2. q[j + 1] = q[k + 1] => j + 1 = k + 1
    BY <2>1 DEF QueueOK
  <2>3. j \in Nat /\ k \in Nat
    BY <1>2
  <2> QED BY <2>1, <2>2, <2>3
<1> QED BY <1>2, <1>3, <1>4, <1>5 DEF QueueOK, t

\* One iteration of deleteCell deletes the first cell of the queue.
LEMMA DeleteOne ==
  ASSUME NEW b, NEW q, NEW W, NEW T, NEW p, NEW z \in Int, NEW dm \in Nat,
         NEW R, Deleting(b, q, W, T, p, z, dm, R), NEW s, s = DeleteStep(<<b, q>>)
  PROVE  /\ s = <<s[1], s[2]>>
         /\ \E p2 : Deleting(s[1], s[2], Held(W, Live(s[1])), T, p2, z, dm, R) /\ Pruned(s[1], b, p2, p, dm)
<1>1. Core(b, W, T, p, z) /\ QueueOK(b, q, dm) /\ Wired(b.entries, Live(b) \ R, W, T) /\ (\A w \in W : w[1] \in Live(b)) /\ ExactOn(b, Live(b) \ R)
  BY DEF Deleting
<1>2. /\ IsRec(b) /\ Live(b) \subseteq DOMAIN b.entries /\ Drivers(b) \subseteq Live(b) /\ DOMAIN b.entries \subseteq Nat /\ b.fault = FALSE
      /\ \A x \in Live(b) : b.depth[x] \in Nat
  BY <1>1, CoreFacts DEF Core
<1>3. CASE q = << >>
  <2>1. s = <<b, q>>
    BY <1>3 DEF DeleteStep
  <2>2. Held(W, Live(b)) = W
    BY <1>1 DEF Held
  <2>3. Pruned(b, b, p, p, dm)
    BY <1>2 DEF Pruned, SameCells, SameOrder, KeysWithin
  <2> QED BY <2>1, <2>2, <2>3
<1>4. CASE q # << >>
  <2> DEFINE x == Head(q)
             t == Tail(q)
             c == deallocEntry(b, x)
             ls == b.entries[x].links
             p2 == Removed(Live(b), p, x)
             V == Spent(W, x, Len(ls))
  <2>1. s = DropInputs(<<c, t>>, x, ls)
    BY <1>2, <1>4 DEF DeleteStep
  <2>2. Doomed(b, x, dm) /\ x \in Nat
    <3>1. q \in Seq(Nat)
      BY <1>1 DEF QueueOK
    <3>2. x = q[1] /\ 1 \in 1 .. Len(q)
      BY <3>1, <1>4, TailQueue
    <3> QED BY <3>1, <3>2, <1>1 DEF QueueOK
  <2>3. x \in Drivers(b) /\ b.entries[x].type # "IN" /\ b.entries[x].refcount = 0 /\ b.depth[x] < dm
    BY <2>2 DEF Doomed
  <2>4. Core(c, W, T, p2, z) /\ Without(c, b, x) /\ SameOrder(p2, p, Live(b) \ {x})
    BY <2>3, <1>1, Dealloc
  <2>5. QueueOK(c, t, dm)
    BY <2>4, <1>1, <1>2, <1>4, QueueTail
  <2> HIDE DEF x, t, c, p2
  <2>6. DropState(<<c, t>>, c, W, T, p2, z, dm) /\ IsRec(c)
    <3>1. Recounted(c, c)
      BY DEF Recounted, Same, SameCells
    <3>2. IsRec(c)
      BY <2>4, CoreFacts
    <3> QED BY <3>1, <3>2, <2>4, <2>5 DEF DropState
  <2>7. x \in Live(b) \ R
    <3>1. b.depth[x] \in Nat
      BY <2>3, <1>2
    <3>2. ~(b.depth[x] >= dm)
      BY <3>1, <2>3
    <3> QED BY <3>2, <2>3, <1>2 DEF Deleting
  <2>8. /\ ls \in Seq(LinkSet(DOMAIN b.entries)) /\ Len(ls) \in Nat /\ DOMAIN ls = 1 .. Len(ls)
        /\ \A j \in DOMAIN ls : <<x, j>> \in W /\ T[<<x, j>>] = ls[j].idx
        /\ \A w \in W : w[1] = x => \E j \in DOMAIN ls : w = <<x, j>>
    <3>1. CellsOK(b.entries)
      BY <1>1 DEF Core
    <3>2. ls \in Seq(LinkSet(DOMAIN b.entries))
      BY <3>1, <2>7, <1>2, CellFields
    <3> QED BY <3>2, <2>7, <1>1, LinkSeq DEF Wired
  <2>9. \A w \in W : T[w] \in Drivers(c) /\ T[w] # x /\ T[w] \in Drivers(b)
    BY <2>4 DEF Core, Refs, Without
  <2>10. \A j \in DOMAIN ls : c.depth[ls[j].idx] < dm
    <3> TAKE j \in DOMAIN ls
    <3>1. ls[j].idx \in Drivers(b) /\ ls[j].idx # x
      BY <2>8, <2>9
    <3>2. c.depth[ls[j].idx] = b.depth[ls[j].idx] /\ b.depth[ls[j].idx] \in Nat /\ b.depth[x] \in Nat
      BY <3>1, <2>4, <2>7, <1>2 DEF Without
    <3>3. b.depth[ls[j].idx] < b.depth[x]
      BY <2>7, <1>1 DEF ExactOn, IsDepthOver
    <3> QED BY <3>2, <3>3, <2>3
  <2> DEFINE d == s[1]
  <2>11. DropState(s, c, V, T, p2, z, dm)
    <3> HIDE DEF ls
    <3> QED BY <2>1, <2>2, <2>6, <2>8, <2>10, DropAll
  <2>12. s = <<d, s[2]>> /\ Core(d, V, T, p2, z) /\ Recounted(d, c) /\ QueueOK(d, s[2], dm)
    BY <2>11 DEF DropState
  <2> HIDE DEF d
  <2>13. /\ IsRec(d) /\ d.depth = c.depth /\ d.strash = c.strash /\ d.fanoutsEnabled = c.fanoutsEnabled
         /\ SameCells(d.entries, b.entries) /\ Live(d) = Live(b) \ {x} /\ d.log = b.log /\ d.fanoutsEnabled = b.fanoutsEnabled
    <3>1. c.entries = b.entries /\ Live(c) = Live(b) \ {x} /\ c.log = b.log /\ c.fanoutsEnabled = b.fanoutsEnabled
      BY <2>4, <1>2 DEF Without, Same, DeallocFields, BoundFields, OrderFields, IsRec, EmptyBuilder
    <3>2. d.log = c.log
      BY <2>6, <2>12 DEF Recounted, Same, IsRec, EmptyBuilder
    <3>3. /\ IsRec(d) /\ d.depth = c.depth /\ d.strash = c.strash /\ d.fanoutsEnabled = c.fanoutsEnabled
      BY <2>6, <2>12, RecountedFields
    <3>4. Live(d) = Live(c)
      BY <3>3, <2>12, LiveSame DEF Recounted
    <3>5. SameCells(d.entries, b.entries)
      BY <3>1, <2>12 DEF Recounted
    <3> QED BY <3>1, <3>2, <3>3, <3>4, <3>5
  <2>14. V = Held(W, Live(d))
    <3>1. V = {w \in W : w[1] # x}
      BY <2>8 DEF Spent
    <3> QED BY <3>1, <2>13, <1>1 DEF Held
  <2>15. \A y \in Live(d) : d.depth[y] = b.depth[y]
    BY <2>4, <2>13, <1>2 DEF Without
  <2>16. Pruned(d, b, p2, p, dm)
    <3>1. \A y \in Live(b) \ Live(d) : y = x
      BY <2>13
    <3>2. b.entries[x].type # "OUT"
      BY <2>3 DEF Drivers
    <3>3. KeysWithin(d.strash, b.strash)
      BY <2>4, <2>13 DEF Without
    <3> QED BY <3>1, <3>2, <3>3, <2>3, <2>4, <2>13, <2>15 DEF Pruned
  <2> DEFINE K == Live(d) \ R
  <2>17. K \subseteq Live(b) \ R /\ K \subseteq DOMAIN b.entries
    BY <2>13, <1>2
  <2>18. Wired(d.entries, K, V, T)
    <3>1. \A k \in K : d.entries[k].links = b.entries[k].links
      BY <2>13, <2>17 DEF SameCells
    <3>2. \A k \in K : /\ \A j \in DOMAIN b.entries[k].links : <<k, j>> \in V /\ T[<<k, j>>] = b.entries[k].links[j].idx
                       /\ \A w \in V : w[1] = k => \E j \in DOMAIN b.entries[k].links : w = <<k, j>>
      BY <2>14, <2>17, <1>1 DEF Wired, Held
    <3> QED BY <3>1, <3>2 DEF Wired
  <2>19. ExactOn(d, K)
    <3>1. ExactOn(b, K)
      BY <2>17, <1>1 DEF ExactOn
    <3>2. \A k \in K : d.entries[k].links = b.entries[k].links /\ d.depth[k] = b.depth[k]
      BY <2>13, <2>15, <2>17 DEF SameCells
    <3>3. \A k \in K : \A j \in DOMAIN b.entries[k].links : d.depth[b.entries[k].links[j].idx] = b.depth[b.entries[k].links[j].idx]
      <4> TAKE k \in K
      <4> TAKE j \in DOMAIN b.entries[k].links
      <4>1. b.entries[k].links[j].idx \in Drivers(b) /\ b.entries[k].links[j].idx # x
        BY <2>9, <2>17, <1>1 DEF Wired
      <4> QED BY <4>1, <2>13, <2>15, <1>2
    <3> QED BY <3>1, <3>2, <3>3, ExactSame
  <2>20. /\ \A w \in V : w[1] \in Live(d)
         /\ \A y \in R \cap Live(d) : d.depth[y] >= dm
    BY <2>13, <2>14, <2>15 DEF Held, Deleting
  <2>21. Deleting(d, s[2], V, T, p2, z, dm, R)
    BY <2>12, <2>18, <2>19, <2>20 DEF Deleting
  <2> QED BY <2>12, <2>14, <2>16, <2>21 DEF d
<1> QED BY <1>3, <1>4

\* The pair s is what deletions have left of b.
DeletedTo(s, b, W, T, p, z, dm, R) ==
  /\ s = <<s[1], s[2]>>
  /\ \E p2 : Deleting(s[1], s[2], Held(W, Live(s[1])), T, p2, z, dm, R) /\ Pruned(s[1], b, p2, p, dm)

\* One iteration of deleteCell.
DeleteLoop(c, bq, k) == DeleteStep(bq)

\* The loop of deleteCell has runs.
Deletes == INSTANCE LoopProofs WITH Step <- DeleteLoop

\* del is the run of deleteCell(b, i).
IsDeleting(del, b, i) ==
  /\ del[0] = <<b, <<i>>>>
  /\ \A k \in 1 .. Size(b.entries) : del[k] = DeleteStep(del[k - 1])
  /\ deleteCell(b, i) = del[Size(b.entries)][1]

\* deleteCell is the last state of a run of its loop.
LEMMA DeleteCellRun ==
  ASSUME NEW b, NEW i, Size(b.entries) \in Nat
  PROVE  \E del : IsDeleting(del, b, i)
<1> DEFINE N == Size(b.entries)
           base == <<b, <<i>>>>
           del == CHOOSE g : g = [k \in 0 .. N |-> IF k = 0 THEN <<b, <<i>>>> ELSE DeleteStep(g[k - 1])]
<1>1. \E g : g = [k \in 0 .. N |-> IF k = 0 THEN base ELSE DeleteStep(g[k - 1])]
  <2>1. \E g : Deletes!IsRun(g, b, base, N)
    <3> HIDE DEF base
    <3> QED BY Deletes!RunExists, LeastNumbers DEF Deletes!WellOrdered
  <2> QED BY <2>1 DEF Deletes!IsRun, DeleteLoop
<1>2. del = [k \in 0 .. N |-> IF k = 0 THEN base ELSE DeleteStep(del[k - 1])]
  BY <1>1
<1>3. deleteCell(b, i) = del[N][1]
  BY DEF deleteCell
<1> HIDE DEF del
<1>4. /\ del[0] = base
      /\ \A k \in 1 .. N : del[k] = DeleteStep(del[k - 1])
  <2>1. N \in Nat
    OBVIOUS
  <2> HIDE DEF N, base
  <2>2. \A k \in 0 .. N : del[k] = IF k = 0 THEN base ELSE DeleteStep(del[k - 1])
    BY <1>2
  <2> QED BY <2>1, <2>2
<1>5. IsDeleting(del, b, i)
  BY <1>3, <1>4 DEF IsDeleting
<1> QED BY <1>5

\* The tokens of a part of a part.
LEMMA HeldHeld ==
  ASSUME NEW W, NEW L, NEW M, M \subseteq L
  PROVE  Held(Held(W, L), M) = Held(W, M)
BY DEF Held

\* The deletion starts with its builder.
LEMMA DeletedStart ==
  ASSUME NEW b, NEW q, NEW W, NEW T, NEW p, NEW z \in Int, NEW dm \in Nat, NEW R, Deleting(b, q, W, T, p, z, dm, R)
  PROVE  DeletedTo(<<b, q>>, b, W, T, p, z, dm, R)
<1>1. IsRec(b)
  BY CoreFacts DEF Deleting
<1>2. Pruned(b, b, p, p, dm)
  BY <1>1 DEF Pruned, SameCells, SameOrder, KeysWithin
<1>3. Held(W, Live(b)) = W
  BY DEF Held, Deleting
<1> QED BY <1>2, <1>3 DEF DeletedTo

\* An iteration of deleteCell keeps its invariant.
LEMMA DeletedStep ==
  ASSUME NEW b, NEW s, NEW W, NEW T, NEW p, NEW z \in Int, NEW dm \in Nat, NEW R, DeletedTo(s, b, W, T, p, z, dm, R),
         Live(b) \subseteq DOMAIN b.entries
  PROVE  DeletedTo(DeleteStep(s), b, W, T, p, z, dm, R)
<1> DEFINE c == s[1]
           q == s[2]
           r == DeleteStep(s)
<1>1. s = <<c, q>>
  BY DEF DeletedTo
<1>2. PICK p2 : Deleting(c, q, Held(W, Live(c)), T, p2, z, dm, R) /\ Pruned(c, b, p2, p, dm)
  BY DEF DeletedTo
<1>3. r = DeleteStep(<<c, q>>)
  BY <1>1
<1> HIDE DEF c, q, r
<1>4. /\ r = <<r[1], r[2]>>
      /\ \E p3 : Deleting(r[1], r[2], Held(Held(W, Live(c)), Live(r[1])), T, p3, z, dm, R) /\ Pruned(r[1], c, p3, p2, dm)
  BY <1>2, <1>3, DeleteOne
<1>5. PICK p3 : Deleting(r[1], r[2], Held(Held(W, Live(c)), Live(r[1])), T, p3, z, dm, R) /\ Pruned(r[1], c, p3, p2, dm)
  BY <1>4
<1>6. Held(Held(W, Live(c)), Live(r[1])) = Held(W, Live(r[1]))
  BY <1>5, HeldHeld DEF Pruned
<1>7. Pruned(r[1], b, p3, p, dm)
  BY <1>2, <1>5, PrunedTrans
<1>8. DeletedTo(r, b, W, T, p, z, dm, R)
  BY <1>4, <1>5, <1>6, <1>7 DEF DeletedTo
<1> QED BY <1>8 DEF r

\* The empty queue is right.
LEMMA EmptyQueue ==
  ASSUME NEW b, NEW dm
  PROVE  QueueOK(b, << >>, dm)
<1>1. << >> \in Seq(Nat) /\ Len(<< >>) = 0
  OBVIOUS
<1>2. 1 .. 0 = {}
  OBVIOUS
<1> QED BY <1>1, <1>2 DEF QueueOK

\* A queue of one doomed cell is right.
LEMMA OneQueue ==
  ASSUME NEW b, NEW dm, NEW x \in Nat, Doomed(b, x, dm)
  PROVE  QueueOK(b, <<x>>, dm)
<1>1. <<x>> \in Seq(Nat) /\ Len(<<x>>) = 1 /\ <<x>>[1] = x
  OBVIOUS
<1>2. 1 .. 1 = {1}
  OBVIOUS
<1> QED BY <1>1, <1>2 DEF QueueOK

\* The builder r is b after the deletion of cells of depths below dm, none of them in R.
Cleaned(r, b, W, T, p, z, dm, R) ==
  \E p2 : Deleting(r, << >>, Held(W, Live(r)), T, p2, z, dm, R) /\ Pruned(r, b, p2, p, dm)

\* deleteCell keeps everything in agreement.
LEMMA DeleteCell ==
  ASSUME NEW b, NEW W, NEW T, NEW p, NEW z \in Int, NEW dm \in Nat, NEW R, Deleting(b, << >>, W, T, p, z, dm, R),
         NEW x, Doomed(b, x, dm)
  PROVE  Cleaned(deleteCell(b, x), b, W, T, p, z, dm, R)
<1> DEFINE N == Size(b.entries)
<1>1. N \in Nat /\ Live(b) \subseteq DOMAIN b.entries /\ x \in Nat
  BY CoreFacts DEF Deleting, Doomed
<1>2. PICK del : IsDeleting(del, b, x)
  BY <1>1, DeleteCellRun
<1> HIDE DEF N
<1> DEFINE S == {k \in 0 .. N : DeletedTo(del[k], b, W, T, p, z, dm, R)}
<1>3. 0 \in S
  <2>1. QueueOK(b, <<x>>, dm)
    BY <1>1, OneQueue
  <2>2. Deleting(b, <<x>>, W, T, p, z, dm, R)
    BY <2>1 DEF Deleting
  <2>3. DeletedTo(<<b, <<x>>>>, b, W, T, p, z, dm, R)
    BY <2>2, DeletedStart
  <2>4. del[0] = <<b, <<x>>>> /\ 0 \in 0 .. N
    BY <1>1, <1>2 DEF IsDeleting
  <2> QED BY <2>3, <2>4
<1>4. ASSUME NEW k \in 0 .. N - 1, k \in S PROVE k + 1 \in S
  <2>1. k + 1 \in 1 .. N /\ k + 1 \in 0 .. N /\ k + 1 - 1 = k
    BY <1>1
  <2>2. del[k + 1] = DeleteStep(del[k])
    BY <2>1, <1>2 DEF IsDeleting, N
  <2>3. DeletedTo(DeleteStep(del[k]), b, W, T, p, z, dm, R)
    BY <1>1, <1>4, DeletedStep
  <2> QED BY <2>1, <2>2, <2>3
<1> HIDE DEF S
<1>5. \A k \in 0 .. N : k \in S
  BY <1>1, <1>3, <1>4, IntervalInduction
<1>6. DeletedTo(del[N], b, W, T, p, z, dm, R)
  BY <1>1, <1>5 DEF S
<1> DEFINE r == del[N][1]
<1>7. PICK p2 : Deleting(r, del[N][2], Held(W, Live(r)), T, p2, z, dm, R) /\ Pruned(r, b, p2, p, dm)
  BY <1>6 DEF DeletedTo
<1>8. deleteCell(b, x) = r
  BY <1>2 DEF IsDeleting, N
<1> HIDE DEF r
<1>9. Deleting(r, << >>, Held(W, Live(r)), T, p2, z, dm, R)
  BY <1>7, EmptyQueue DEF Deleting
<1> QED BY <1>7, <1>8, <1>9 DEF Cleaned

-----------------------------------------------------------------------------
(* Dropping the old inputs of a replaced cell.                             *)

\* The builder c is b without a token, the other ones being V.
LostToken(c, b, V, T, p, z) == Core(c, V, T, p, z) /\ Recounted(c, b) /\ Live(c) = Live(b) /\ Drivers(c) = Drivers(b)

\* delFanout and decRefCount take one token away.
LEMMA LoseToken ==
  ASSUME NEW b, NEW W, NEW T, NEW p, NEW z, Core(b, W, T, p, z), NEW v \in W, NEW i \in Nat, v[1] = i, NEW s, T[v] = s
  PROVE  LostToken(decRefCount(delFanout(b, s, i), s), b, W \ {v}, T, p, z)
<1> DEFINE r == decRefCount(delFanout(b, T[v], v[1]), T[v])
<1>1. Core(r, W \ {v}, T, p, z) /\ Recounted(r, b) /\ Live(r) = Live(b) /\ Drivers(r) = Drivers(b)
  BY DropToken
<1>2. r = decRefCount(delFanout(b, s, i), s)
  OBVIOUS
<1> HIDE DEF r
<1>3. LostToken(r, b, W \ {v}, T, p, z)
  BY <1>1 DEF LostToken
<1> QED BY <1>2, <1>3

\* A token of cell i goes; the rest of the network stays as it is.
LEMMA DropOwn ==
  ASSUME NEW b, NEW W, NEW T, NEW p, NEW z, NEW dm, NEW i, Deleting(b, << >>, W, T, p, z, dm, {i}),
         NEW v \in W, v[1] = i, i \in Nat,
         NEW c, LostToken(c, b, W \ {v}, T, p, z)
  PROVE  Deleting(c, << >>, W \ {v}, T, p, z, dm, {i}) /\ Recounted(c, b) /\ Live(c) = Live(b) /\ Drivers(c) = Drivers(b)
<1>1. Core(b, W, T, p, z) /\ Wired(b.entries, Live(b) \ {i}, W, T) /\ (\A w \in W : w[1] \in Live(b)) /\ ExactOn(b, Live(b) \ {i})
      /\ \A x \in {i} \cap Live(b) : b.depth[x] >= dm
  BY DEF Deleting
<1>2. Core(c, W \ {v}, T, p, z) /\ Recounted(c, b) /\ Live(c) = Live(b) /\ Drivers(c) = Drivers(b)
  BY DEF LostToken
<1>3. IsRec(b) /\ Live(b) \subseteq DOMAIN b.entries
  BY <1>1, CoreFacts
<1>4. c.depth = b.depth /\ \A x \in DOMAIN b.entries : c.entries[x].links = b.entries[x].links
  BY <1>2, <1>3, RecountedFields
<1>5. Wired(c.entries, Live(c) \ {i}, W \ {v}, T)
  BY <1>1, <1>2, <1>3, <1>4 DEF Wired
<1>6. ExactOn(c, Live(c) \ {i})
  BY <1>1, <1>2, <1>3, <1>4 DEF ExactOn, IsDepthOver
<1>7. QueueOK(c, << >>, dm)
  BY EmptyQueue
<1> QED BY <1>1, <1>2, <1>4, <1>5, <1>6, <1>7 DEF Deleting

\* Pruning after recounting.
LEMMA PrunedRecounted ==
  ASSUME NEW a, NEW b, NEW c, NEW p, NEW dm, Recounted(b, a), IsRec(a), Live(b) = Live(a),
         NEW q, Pruned(c, b, q, p, dm), Live(a) \subseteq DOMAIN a.entries
  PROVE  Pruned(c, a, q, p, dm)
<1>1. /\ IsRec(b) /\ b.depth = a.depth /\ b.strash = a.strash /\ b.fanoutsEnabled = a.fanoutsEnabled
      /\ \A x \in DOMAIN a.entries : b.entries[x].type = a.entries[x].type /\ b.entries[x].links = a.entries[x].links
  BY RecountedFields
<1>2. b.log = a.log
  BY DEF Recounted, Same, IsRec, EmptyBuilder
<1>3. SameCells(c.entries, a.entries)
  BY DEF Recounted, Pruned, SameCells
<1> QED BY <1>1, <1>2, <1>3 DEF Pruned

\* Cleaning after recounting.
LEMMA CleanedRecounted ==
  ASSUME NEW a, NEW b, NEW c, NEW W, NEW T, NEW p, NEW z, NEW dm,
         NEW R, Recounted(b, a), IsRec(a), Live(b) = Live(a), Live(a) \subseteq DOMAIN a.entries,
         Cleaned(c, b, W, T, p, z, dm, R)
  PROVE  Cleaned(c, a, W, T, p, z, dm, R)
<1>1. PICK q : Deleting(c, << >>, Held(W, Live(c)), T, q, z, dm, R) /\ Pruned(c, b, q, p, dm)
  BY DEF Cleaned
<1>2. Pruned(c, a, q, p, dm)
  BY <1>1, PrunedRecounted
<1> QED BY <1>1, <1>2 DEF Cleaned

\* A builder is clean of nothing.
LEMMA CleanedSame ==
  ASSUME NEW b, NEW W, NEW T, NEW p, NEW z, NEW dm, NEW R, Deleting(b, << >>, W, T, p, z, dm, R)
  PROVE  Cleaned(b, b, W, T, p, z, dm, R)
<1>1. IsRec(b)
  BY CoreFacts DEF Deleting
<1>2. Pruned(b, b, p, p, dm)
  BY <1>1 DEF Pruned, SameCells, SameOrder, KeysWithin
<1>3. Held(W, Live(b)) = W
  BY DEF Held, Deleting
<1> QED BY <1>2, <1>3 DEF Cleaned

\* An old input goes, and what only it has used.
LEMMA DropOldOne ==
  ASSUME NEW b, NEW W, NEW T, NEW p, NEW z \in Int, NEW dm \in Nat,
         NEW i \in Nat, Deleting(b, << >>, W, T, p, z, dm, {i}), NEW v \in W, v[1] = i,
         NEW l, l.idx = T[v], b.depth[T[v]] < dm, NEW del
  PROVE  Cleaned(DropOldInput(b, i, l, del), b, W \ {v}, T, p, z, dm, {i})
<1> DEFINE c == decRefCount(delFanout(b, T[v], i), T[v])
           s == T[v]
           dies == c.entries[s].refcount = 0 /\ c.entries[s].type # "IN" /\ del
           r == DropOldInput(b, i, l, del)
<1>1. Deleting(c, << >>, W \ {v}, T, p, z, dm, {i}) /\ Recounted(c, b) /\ Live(c) = Live(b) /\ Drivers(c) = Drivers(b)
  <2>1. Core(b, W, T, p, z)
    BY DEF Deleting
  <2>2. LostToken(c, b, W \ {v}, T, p, z)
    BY <2>1, LoseToken
  <2>3. Deleting(b, << >>, W, T, p, z, dm, {i}) /\ v \in W /\ v[1] = i /\ i \in Nat
    OBVIOUS
  <2> HIDE DEF c
  <2>4. Deleting(c, << >>, W \ {v}, T, p, z, dm, {i})
    BY ONLY <2>2, <2>3, DropOwn
  <2>5. Recounted(c, b)
    BY ONLY <2>2, <2>3, DropOwn
  <2> QED BY <2>4, <2>2 DEF LostToken
<1>2. IsRec(b) /\ Live(b) \subseteq DOMAIN b.entries /\ s \in Drivers(b)
  BY CoreFacts DEF Deleting, Core, Refs
<1>3. r = IF dies THEN deleteCell(c, s) ELSE c
  BY DEF DropOldInput
<1>4. c.depth = b.depth
  BY <1>1, <1>2, RecountedFields
<1> HIDE DEF c, r
<1>5. CASE dies
  <2>1. Doomed(c, s, dm)
    BY <1>1, <1>2, <1>4, <1>5 DEF Doomed
  <2>2. Cleaned(deleteCell(c, s), c, W \ {v}, T, p, z, dm, {i})
    <3> HIDE DEF s
    <3> QED BY <2>1, <1>1, DeleteCell
  <2> HIDE DEF s, dies
  <2>3. Cleaned(r, c, W \ {v}, T, p, z, dm, {i})
    BY <2>2, <1>3, <1>5
  <2>4. Cleaned(r, b, W \ {v}, T, p, z, dm, {i})
    BY <2>3, <1>1, <1>2, CleanedRecounted
  <2> QED BY <2>4 DEF r
<1>6. CASE ~dies
  <2> HIDE DEF s, dies
  <2>1. r = c
    BY <1>3, <1>6
  <2>2. Cleaned(r, c, W \ {v}, T, p, z, dm, {i})
    BY <2>1, <1>1, CleanedSame
  <2>3. Cleaned(r, b, W \ {v}, T, p, z, dm, {i})
    BY <2>2, <1>1, <1>2, CleanedRecounted
  <2> QED BY <2>3 DEF r
<1> QED BY <1>5, <1>6

\* One iteration of DropOldInputs.
DropOldLoop(c, b, j) == DropOldInput(b, c[1], c[2][j], c[3])

\* The loop of DropOldInputs has runs.
OldDrops == INSTANCE LoopProofs WITH Step <- DropOldLoop

\* drop is the run of DropOldInputs(b, i, ls, del).
IsDroppingOld(drop, b, i, ls, del) ==
  /\ drop[0] = b
  /\ \A j \in 1 .. Len(ls) : drop[j] = DropOldInput(drop[j - 1], i, ls[j], del)
  /\ DropOldInputs(b, i, ls, del) = drop[Len(ls)]

\* DropOldInputs is the last state of a run of its loop.
LEMMA DropOldRun ==
  ASSUME NEW b, NEW i, NEW ls, NEW del, Len(ls) \in Nat
  PROVE  \E drop : IsDroppingOld(drop, b, i, ls, del)
<1> DEFINE N == Len(ls)
           drop == CHOOSE g : g = [j \in 0 .. N |-> IF j = 0 THEN b ELSE DropOldInput(g[j - 1], i, ls[j], del)]
<1>1. \E g : g = [j \in 0 .. N |-> IF j = 0 THEN b ELSE DropOldInput(g[j - 1], i, ls[j], del)]
  <2>1. \E g : OldDrops!IsRun(g, <<i, ls, del>>, b, N)
    BY OldDrops!RunExists, LeastNumbers DEF OldDrops!WellOrdered
  <2> QED BY <2>1 DEF OldDrops!IsRun, DropOldLoop
<1>2. drop = [j \in 0 .. N |-> IF j = 0 THEN b ELSE DropOldInput(drop[j - 1], i, ls[j], del)]
  BY <1>1
<1>3. DropOldInputs(b, i, ls, del) = drop[N]
  BY DEF DropOldInputs
<1> HIDE DEF drop
<1>4. /\ drop[0] = b
      /\ \A j \in 1 .. N : drop[j] = DropOldInput(drop[j - 1], i, ls[j], del)
  BY <1>2
<1>5. IsDroppingOld(drop, b, i, ls, del)
  BY <1>3, <1>4 DEF IsDroppingOld
<1> QED BY <1>5

\* One more old input goes, with the cells that only it has used.
LEMMA CleanedTrans ==
  ASSUME NEW a, NEW b, NEW W, NEW T, NEW p, NEW z \in Int, NEW dm \in Nat,
         NEW i \in Live(a), Cleaned(b, a, W, T, p, z, dm, {i}),
         a.depth[i] >= dm, a.depth[i] \in Nat, Live(a) \subseteq DOMAIN a.entries,
         NEW v \in W, v[1] = i, i \in Nat, NEW l, l.idx = T[v], \A x \in Live(b) : x = T[v] => a.depth[x] < dm,
         NEW del
  PROVE  Cleaned(DropOldInput(b, i, l, del), a, W \ {v}, T, p, z, dm, {i})
<1> DEFINE r == DropOldInput(b, i, l, del)
<1>1. PICK q : Deleting(b, << >>, Held(W, Live(b)), T, q, z, dm, {i}) /\ Pruned(b, a, q, p, dm)
  BY DEF Cleaned
<1>2. i \in Live(b)
  <2>1. ~(a.depth[i] < dm)
    OBVIOUS
  <2> QED BY <2>1, <1>1 DEF Pruned
<1>3. v \in Held(W, Live(b))
  BY <1>2 DEF Held
<1>4. b.depth[T[v]] < dm
  <2>1. T[v] \in Live(b)
    BY <1>1, <1>3 DEF Deleting, Core, Refs, Drivers
  <2> QED BY <2>1, <1>1 DEF Pruned
<1>5. Cleaned(r, b, Held(W, Live(b)) \ {v}, T, q, z, dm, {i})
  BY <1>1, <1>3, <1>4, DropOldOne
<1> HIDE DEF r
<1>6. PICK q2 : Deleting(r, << >>, Held(Held(W, Live(b)) \ {v}, Live(r)), T, q2, z, dm, {i}) /\ Pruned(r, b, q2, q, dm)
  BY <1>5 DEF Cleaned
<1>7. Held(Held(W, Live(b)) \ {v}, Live(r)) = Held(W \ {v}, Live(r))
  <2>1. Live(r) \subseteq Live(b)
    BY <1>6 DEF Pruned
  <2> QED BY <2>1 DEF Held
<1>8. Pruned(r, a, q2, p, dm)
  BY <1>1, <1>6, PrunedTrans
<1>9. Cleaned(r, a, W \ {v}, T, p, z, dm, {i})
  BY <1>6, <1>7, <1>8 DEF Cleaned
<1> QED BY <1>9 DEF r

\* All old inputs of cell i go.
LEMMA DropOld ==
  ASSUME NEW a, NEW W, NEW T, NEW p, NEW z \in Int, NEW dm \in Nat,
         NEW i \in Live(a), Deleting(a, << >>, W, T, p, z, dm, {i}),
         NEW D, NEW ls \in Seq(LinkSet(D)), \A j \in DOMAIN ls : <<i, j>> \in W /\ T[<<i, j>>] = ls[j].idx /\ a.depth[ls[j].idx] < dm, NEW del
  PROVE  Cleaned(DropOldInputs(a, i, ls, del), a, Spent(W, i, Len(ls)), T, p, z, dm, {i})
<1> DEFINE N == Len(ls)
<1>1. N \in Nat /\ DOMAIN ls = 1 .. N
  BY LinkSeq
<1>2. i \in Nat /\ a.depth[i] >= dm /\ a.depth[i] \in Nat /\ Live(a) \subseteq DOMAIN a.entries
  BY CoreFacts DEF Deleting
<1>3. PICK drop : IsDroppingOld(drop, a, i, ls, del)
  BY <1>1, DropOldRun
<1> DEFINE S == {j \in 0 .. N : Cleaned(drop[j], a, Spent(W, i, j), T, p, z, dm, {i})}
<1>4. 0 \in S
  <2>1. Spent(W, i, 0) = W
    BY SpentStep
  <2>2. drop[0] = a /\ 0 \in 0 .. N
    BY <1>1, <1>3 DEF IsDroppingOld
  <2>3. Cleaned(a, a, W, T, p, z, dm, {i})
    BY CleanedSame
  <2> QED BY <2>1, <2>2, <2>3
<1>5. ASSUME NEW j \in 0 .. N - 1, j \in S PROVE j + 1 \in S
  <2> DEFINE v == <<i, j + 1>>
  <2>1. j + 1 \in 1 .. N /\ j + 1 \in 0 .. N /\ j + 1 - 1 = j /\ j \in Nat
    BY <1>1
  <2>2. Spent(W, i, j + 1) = Spent(W, i, j) \ {v} /\ v \in Spent(W, i, j)
    BY <2>1, <1>1, SpentStep
  <2>3. drop[j + 1] = DropOldInput(drop[j], i, ls[j + 1], del)
    BY <2>1, <1>3 DEF IsDroppingOld
  <2>4. v[1] = i /\ T[v] = ls[j + 1].idx /\ a.depth[T[v]] < dm
    BY <2>1, <1>1
  <2>5. Cleaned(drop[j], a, Spent(W, i, j), T, p, z, dm, {i})
    BY <1>5
  <2> HIDE DEF v, N
  <2>6. Cleaned(DropOldInput(drop[j], i, ls[j + 1], del), a, Spent(W, i, j) \ {v}, T, p, z, dm, {i})
    BY <2>2, <2>4, <2>5, <1>2, CleanedTrans
  <2> QED BY <2>1, <2>2, <2>3, <2>6
<1> HIDE DEF S
<1>6. \A j \in 0 .. N : j \in S
  BY <1>1, <1>4, <1>5, IntervalInduction
<1>7. Cleaned(drop[N], a, Spent(W, i, N), T, p, z, dm, {i})
  <2>1. N \in 0 .. N
    BY <1>1
  <2>2. N \in S
    BY <2>1, <1>6
  <2> QED BY <2>2 DEF S
<1> QED BY <1>3, <1>7 DEF IsDroppingOld
=============================================================================
