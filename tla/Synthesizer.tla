---------------------------- MODULE Synthesizer ----------------------------
(***************************************************************************)
(* The synthesizers of word-level cells (gate/synthesizer): a soft block   *)
(* of a net, such as an adder of given widths, becomes a subnet of gates.  *)
(*                                                                         *)
(* A word is a sequence of bits, the least significant one first.  A link  *)
(* stands for its value under given values of the inputs: a gate that is   *)
(* added is the function of its inputs, and the parameter z, in the place  *)
(* of the builder, is the value of entry 0 (the first input bit), which a  *)
(* link that has never been assigned refers to.                            *)
(*                                                                         *)
(* An operator marked "Bug:" is a faulty variant of the operator after it. *)
(***************************************************************************)
EXTENDS Integers, Sequences, FiniteSets, FiniteSetsExt, SequencesExt

CONSTANTS
  Blocks,   \* the soft blocks: operation, widths of the operands and of the output
  Words(_)  \* the words of a given width that are tried as operands

VARIABLES
  block,  \* a soft block
  args,   \* the values of its operands
  outs,   \* the outputs of its subnet, none for OBJ_NULL_ID
  done    \* whether the block has been visited

vars == <<block, args, outs, done>>

NullSubnet == << >>

-----------------------------------------------------------------------------
(* utils.cpp                                                               *)

resize(w, n, bit) == [i \in 1 .. n |-> IF i <= Len(w) THEN w[i] ELSE bit]

Least(m, n) == IF m <= n THEN m ELSE n

\* Differences of uint16_t that are used as sizes.
Size16(n) == n % 65536

extend(w, width, signExtend) ==
  IF Len(w) >= width THEN w ELSE resize(w, width, signExtend /\ Last(w))

extendOutput(bit, width) == resize(<<bit>>, width, FALSE)

-----------------------------------------------------------------------------
(* addition.cpp: the parallel prefix adder.  p and g are the propagate and *)
(* generate bits, nz (isNotZero) tells which generate bits exist; the bits *)
(* of the operands are numbered from 0.                                    *)

\* 1, 2, 4, ... below n.
BasicSteps(n) == SelectSeq(<<1, 2, 4, 8, 16>>, LAMBDA k : k < n)

\* Every (2 * step)-th position up to n, from step - 1 on; never 0.
BatchesOf(n, step) ==
  SelectSeq([j \in 1 .. (n + 1 + step) \div (2 * step) |-> step - 1 + 2 * step * (j - 1)],
            LAMBDA batch : batch # 0)

\* From the end of the batch to its center in steps of two.
ChildrenOf(n, step, batch) ==
  LET pos == Least(step - 1 + batch, n - 1 - (IF n % 2 = 0 THEN 1 ELSE 0))
  IN  [j \in 1 .. (pos - batch + 2) \div 2 |-> pos - 2 * (j - 1)]

\* Bug: a generate bit is replaced by the carry of its parent.
WithParent_Lost(s, step, batch, child) ==
  [s EXCEPT !.p[child] = IF batch + 1 # step THEN @ /\ s.p[batch - 1] ELSE @,
            !.g[child] = IF s.nz[batch - 1] THEN s.p[child] /\ s.g[batch - 1] ELSE @,
            !.nz[child] = @ \/ s.nz[batch - 1]]

WithParent(s, step, batch, child) ==
  [s EXCEPT !.p[child] = IF batch + 1 # step THEN @ /\ s.p[batch - 1] ELSE @,
            !.g[child] = IF s.nz[batch - 1] THEN (s.p[child] /\ s.g[batch - 1]) \/ (s.nz[child] /\ @) ELSE @,
            !.nz[child] = @ \/ s.nz[batch - 1]]

PrefixTree(s, n) ==
  FoldLeft(LAMBDA x, step :
             FoldLeft(LAMBDA y, batch :
                        FoldLeft(LAMBDA t, child : WithParent(t, step, batch, child), y,
                                 ChildrenOf(n, step, batch)), x, BatchesOf(n, step)), s, BasicSteps(n))

\* The generate bits at odd positions; that of the last output is not needed.
LastLevel(s, n, outSize) ==
  FoldLeft(LAMBDA x, pos :
             IF ~x.nz[pos - 1] \/ pos = outSize - 1 THEN x
             ELSE [x EXCEPT !.g[pos] = (x.p[pos] /\ x.g[pos - 1]) \/ (x.nz[pos] /\ @), !.nz[pos] = TRUE],
           s, [j \in 1 .. n \div 2 |-> 2 * j - 1])

\* What the outputs beyond the operands are.
Fill(z, s, top, a, b, outSize, useSign, isUnsignedSub) ==
  LET carry == s.g[Len(a) - 1]
  IN  CASE ~useSign -> IF ~s.nz[Len(a) - 1] \/ outSize > Len(a) + 1 THEN FALSE ELSE z
        [] isUnsignedSub -> top \/ (top /\ carry)
        [] OTHER -> \/ top /\ (Last(a) \/ Last(b) \/ carry)
                    \/ carry /\ Last(a) /\ Last(b)

\* Without a sign the output after the last bit of the sum is the carry, if there is one.
FillOutputs(s, sum, top, fill, outSize, useSign) ==
  resize(Append(sum, IF s.nz[top] /\ ~useSign THEN s.g[top] ELSE fill), outSize, fill)

Outputs(z, s, sum, a, b, outSize, useSign, isUnsignedSub) ==
  IF outSize > Len(a)
  THEN FillOutputs(s, sum, Len(a) - 1, Fill(z, s, Last(sum), a, b, outSize, useSign, isUnsignedSub), outSize, useSign)
  ELSE sum

SumBits(start, s, n) ==
  [i \in 1 .. n |-> IF i > 1 /\ s.nz[i - 2] THEN s.g[i - 2] # start[i - 1] ELSE start[i - 1]]

\* The propagate and the generate bits of the first n positions, both of which b has.
FirstLevel(z, a, b, n, both) ==
  [p  |-> [i \in 0 .. Len(a) - 1 |-> IF i < both THEN a[i + 1] # b[i + 1] ELSE IF i < n THEN a[i + 1] ELSE z],
   g  |-> [i \in 0 .. Len(a) - 1 |-> IF i < both THEN a[i + 1] /\ b[i + 1] ELSE z],
   nz |-> [i \in 0 .. Len(a) - 1 |-> i < both]]

AddPrefix(z, first, s, a, b, n, outSize, useSign, isUnsignedSub) ==
  Outputs(z, s, SumBits(first.p, s, n), a, b, outSize, useSign, isUnsignedSub)

AddLevels(z, first, a, b, n, outSize, useSign, isUnsignedSub) ==
  AddPrefix(z, first, LastLevel(PrefixTree(first, n), n, outSize), a, b, n, outSize, useSign, isUnsignedSub)

\* a is not shorter than b.
AddSorted(z, a, b, n, outSize, useSign, isUnsignedSub) ==
  AddLevels(z, FirstLevel(z, a, b, n, Least(n, Len(b))), a, b, n, outSize, useSign, isUnsignedSub)

synthLadnerFisherAdd(z, a, b, outSize, useSign, isUnsignedSub) ==
  AddSorted(z, IF Len(a) < Len(b) THEN b ELSE a, IF Len(a) < Len(b) THEN a ELSE b,
            Least(outSize, Max({Len(a), Len(b)})), outSize, useSign \/ isUnsignedSub, isUnsignedSub)

\* utils.cpp
twosComplement(z, w, width, signExtend) ==
  LET size == Least(Len(w), width)
      inverted == [i \in 1 .. width |-> IF i <= size THEN ~w[i] ELSE signExtend => ~w[size]]
  IN  synthLadnerFisherAdd(z, inverted, <<TRUE>>, width, TRUE, FALSE)

absoluteValue(z, w) ==
  synthLadnerFisherAdd(z, [i \in DOMAIN w |-> w[i] # Last(w)], <<Last(w)>>, Len(w), TRUE, FALSE)

\* The operands have the same width.
synthAddS(z, a, b, outSize) ==
  LET n == IF Len(a) < Len(b) THEN Len(b) ELSE Len(a)
  IN  synthLadnerFisherAdd(z, resize(a, n, Last(a)), resize(b, n, Last(b)), outSize, TRUE, FALSE)

synthAddU(z, a, b, outSize) == synthLadnerFisherAdd(z, a, b, outSize, FALSE, FALSE)

\* One more bit if the output has one.
MoreBits(a, b, outSize) == IF Len(a) < outSize /\ Len(b) < outSize THEN 1 ELSE 0

SubSWith(z, a, b, outSize, more) ==
  synthLadnerFisherAdd(z, resize(a, more + Max({Len(a), Len(b)}), Last(a)),
                       twosComplement(z, resize(b, Len(b) + more, Last(b)), more + Max({Len(a), Len(b)}), TRUE),
                       outSize, TRUE, FALSE)

synthSubS(z, a, b, outSize) == SubSWith(z, a, b, outSize, MoreBits(a, b, outSize))

\* The outputs are added twice.
Twice(w) == w \o w

synthSubU(z, a, b, outSize) ==
  Twice(synthLadnerFisherAdd(z, twosComplement(z, b, MoreBits(a, b, outSize) + Max({Len(a), Len(b)}), FALSE), a,
                             outSize, TRUE, TRUE))

-----------------------------------------------------------------------------
(* comparison.cpp: a > b is the disjunction over i of a[i] and not b[i]    *)
(* and all higher bits being equal.  P holds the equalities, end is the    *)
(* iterator endP (the number of elements before it).                       *)

AllOf(w) == \A i \in DOMAIN w : w[i]
OneOf(w) == \E i \in DOMAIN w : w[i]

generatePropagate(a, b, inverse) ==
  LET minSize == Least(Len(a), Len(b))
      bigger == IF Len(a) >= Len(b) THEN a ELSE b
  IN  [i \in 1 .. Len(bigger) |-> inverse # (IF i <= minSize THEN a[i] # b[i] ELSE bigger[i])]

\* Bug: three bits that only b has are taken for two.
HigherBits_Three(P, delta) == IF delta > 3 THEN AllOf(SubSeq(P, Len(P) - delta + 2, Len(P))) ELSE Last(P)

\* The bits that only b has are zero, without the lowest of several: the loop adds it.
HigherBits(P, delta) == IF delta > 2 THEN AllOf(SubSeq(P, Len(P) - delta + 2, Len(P))) ELSE Last(P)

\* Bit i (from 0) of the cascade; bits that only a has need no bit of b.
CompareBit(st, i, a, b, P) ==
  LET maxSize == Max({Len(a), Len(b)})
      and == IF i < maxSize - 2 THEN st.and /\ P[st.end + 1] ELSE st.and
      end == IF st.end > 0 THEN st.end - 1 ELSE 0
  IN  [more |-> st.more \/ (a[i + 1] /\ (i < Len(b) => ~b[i + 1]) /\ (i < maxSize - 1 => and)),
       and  |-> IF i = maxSize - 1 /\ end < Len(P) THEN P[end + 1] ELSE and,
       end  |-> end]

CompareFrom(z, a, b, P) ==
  LET delta == Len(b) - Len(a)
  IN  FoldLeft(LAMBDA st, i : CompareBit(st, i, a, b, P),
               [more |-> FALSE,
                and  |-> IF delta > 0 THEN HigherBits(P, delta) ELSE z,
                end  |-> IF delta > 0 THEN Len(P) - delta ELSE Len(P)],
               [j \in 1 .. Len(a) |-> Len(a) - j]).more

\* Without useEquality the lowest bit has no element of P.
PropagateFor(a, b, useEquality) ==
  IF useEquality THEN generatePropagate(a, b, TRUE) ELSE generatePropagate(Tail(a), Tail(b), TRUE)

generateComparison(z, a, b, useEquality) == CompareFrom(z, a, b, PropagateFor(a, b, useEquality))

generateSignedComparison(more, signA, signB) ==
  (more /\ signB) \/ (more /\ ~signA) \/ (~signA /\ signB)

fillBySignum(w, sign, size) == resize(w, size, sign)

synthXeqU(a, b, positive, width) == extendOutput(positive # OneOf(generatePropagate(a, b, FALSE)), width)

synthXeqS(a, b, positive, width) ==
  LET size == Max({Len(a), Len(b)})
  IN  synthXeqU(fillBySignum(a, Last(a), size), fillBySignum(b, Last(b), size), positive, width)

\* orEqual stands for the four functions that differ only in it.
GreaterU(z, a, b, orEqual) ==
  generateComparison(z, a, b, orEqual) \/ (orEqual /\ AllOf(PropagateFor(a, b, TRUE)))

GreaterS(z, a, b, orEqual) ==
  LET size == Max({Len(a), Len(b)}) - 1
      lowA == fillBySignum(Front(a), Last(a), size)
      lowB == fillBySignum(Front(b), Last(b), size)
  IN  \/ generateSignedComparison(generateComparison(z, lowA, lowB, orEqual), Last(a), Last(b))
      \/ orEqual /\ AllOf(PropagateFor(lowA, lowB, TRUE)) /\ Last(a) = Last(b)

synthXtU(z, a, b, makeSwap, orEqual, width) ==
  extendOutput(IF makeSwap THEN GreaterU(z, b, a, orEqual) ELSE GreaterU(z, a, b, orEqual), width)

\* Of two one-bit words the bigger one is 0.
synthXtS(z, a, b, makeSwap, orEqual, width) ==
  IF Len(a) = 1 /\ Len(b) = 1 THEN synthXtU(z, a, b, ~makeSwap, orEqual, width)
  ELSE extendOutput(IF makeSwap THEN GreaterS(z, b, a, orEqual) ELSE GreaterS(z, a, b, orEqual), width)

-----------------------------------------------------------------------------
(* multiplexer.cpp                                                         *)

addMux2(s, x, y) == (~s /\ x) \/ (s /\ y)

MuxWords(s, x, y) == [i \in DOMAIN x |-> addMux2(s, x[i], y[i])]

synthBMux(s, x, y) == [i \in DOMAIN x |-> addMux2(s[i], x[i], y[i])]

synthMux2(s, x, y) == MuxWords(s[1], x, y)

\* Bug: the last selecting bit chooses the half.
synthMux_LastFirst(s, x) ==
  FoldRight(LAMBDA bit, w : MuxWords(bit, SubSeq(w, 1, Len(w) \div 2), SubSeq(w, 1 + Len(w) \div 2, Len(w))), s, x)

\* The first selecting bit chooses the half, so it is the most significant one.
synthMux(s, x) ==
  FoldLeft(LAMBDA w, bit : MuxWords(bit, SubSeq(w, 1, Len(w) \div 2), SubSeq(w, 1 + Len(w) \div 2, Len(w))), x, s)

synthBDemux(s, x) == [i \in DOMAIN x |-> ~s[i] /\ x[i]] \o [i \in DOMAIN x |-> s[i] /\ x[i]]

synthDemux2(s, x) == [i \in DOMAIN x |-> ~s[1] /\ x[i]] \o [i \in DOMAIN x |-> s[1] /\ x[i]]

\* The upper half gets one element (Len(x) + 1, counted from 0), again and again.
addDemux2(z, s, x) ==
  [i \in 1 .. 2 * Len(x) |-> IF i <= Len(x) THEN ~s /\ x[i] ELSE IF i = Len(x) + 2 THEN s /\ Last(x) ELSE z]

synthDemux(z, s, x) == FoldLeft(LAMBDA w, bit : addDemux2(z, bit, w), x, s)

-----------------------------------------------------------------------------
(* shift.cpp                                                               *)

\* Element k + 1 tells whether the inputs spell k.
synthMuxForShift(muxInputs, n) ==
  [k \in 1 .. n |-> \A i \in DOMAIN muxInputs : muxInputs[i] = (((k - 1) \div 2 ^ (i - 1)) % 2 = 1)]

\* The window of the left shift at output o (from 0): the first input, the first
\* element of the multiplexer, and how many there are of both.
WindowL(o, in, ands) ==
  [input |-> Max({0, o - ands + 1}), and |-> Max({0, o - in + 1}),
   used  |-> Min({o + 1, in, ands, in + ands - 1 - o})]

OutputL(o, inputs, ands, useSign, w) ==
  \/ \E d \in 0 .. w.used - 1 : inputs[w.input + d + 1] /\ ands[w.and + w.used - d]
  \/ useSign /\ o >= Len(inputs) /\ Last(inputs) /\ \E k \in 1 .. w.and : ands[k]

ShiftedL(inputs, ands, size, useSign) ==
  [i \in 1 .. size |->
     IF i <= Len(ands) + Len(inputs) - 1
     THEN OutputL(i - 1, inputs, ands, useSign, WindowL(i - 1, Len(inputs), Len(ands)))
     ELSE useSign /\ Last(inputs)]

synthDefaultShiftL(inputs, muxInputs, size, useSign) ==
  ShiftedL(inputs, synthMuxForShift(muxInputs, Least(2 ^ Len(muxInputs), size)), size, useSign)

\* Output o (from 0) of the right shift: the inputs before end, the first elements
\* of the multiplexer, and the sign if none of these is chosen.
OutputR(o, inputs, ands, useSign) ==
  LET count == Len(inputs) - 1 - o
      used == Least(Len(ands), count + 1)
      end == Len(inputs) - Max({0, count - Len(ands) + 1})
  IN  \/ \E d \in 0 .. used - 1 : inputs[end - used + d + 1] /\ ands[d + 1]
      \/ useSign /\ Last(inputs) /\ \A k \in 1 .. used : ~ands[k]

ShiftedR(inputs, ands, size, useSign) ==
  [i \in 1 .. size |-> IF i <= Len(inputs) THEN OutputR(i - 1, inputs, ands, useSign)
                       ELSE useSign /\ Last(inputs)]

synthDefaultShiftR(inputs, muxInputs, size, useSign) ==
  ShiftedR(inputs, synthMuxForShift(muxInputs, Least(2 ^ Len(muxInputs), Len(inputs))), size, useSign)

ShiftBoth(a, b, shift, size, useSign) ==
  MuxWords(Last(b), synthDefaultShiftR(a, shift, size, useSign), synthDefaultShiftL(a, shift, size, useSign))

synthShift(z, a, b, size, useSign) == ShiftBoth(a, b, absoluteValue(z, b), size, useSign)

-----------------------------------------------------------------------------
(* multiplication.cpp: rows of adders for up to four bits, Karatsuba's     *)
(* method above.  a is not shorter than b.                                 *)

\* The sum and the carry of three bits; the carry of the last one may be left out.
synthFullAdder(z, x, y, c, noCarry) ==
  [sum |-> (x # y) # c, carry |-> IF noCarry THEN z ELSE (x /\ y) \/ (x /\ c) \/ (c /\ y)]

\* The i-th adder of a row: the sum becomes element i - 1 of the next partial sum.
AdderAt(z, st, i, row, fact, first) ==
  LET noCarry == Len(row) < fact /\ i + 1 = Len(row)
      last == first /\ i = fact - 1
      adder == IF last THEN [sum |-> st.carry # row[i + 1],
                             carry |-> IF noCarry THEN st.carry ELSE st.carry /\ row[i + 1]]
               ELSE synthFullAdder(z, st.ands[i + 1], row[i + 1], st.carry, noCarry)
  IN  [ands |-> [st.ands EXCEPT ![i] = adder.sum], carry |-> adder.carry]

AddRow(z, ands, row, fact, first) ==
  LET st == FoldLeft(LAMBDA s, i : AdderAt(z, s, i, row, fact, first),
                     [ands |-> ands, carry |-> ands[1] /\ row[1]], [i \in 1 .. Len(row) - 1 |-> i])
  IN  [st.ands EXCEPT ![Len(row)] = st.carry]

\* Bit j (from 1) of b: how many bits of the row are needed shrinks once the rows
\* have reached the target size.
MultiplyBy(z, st, j, a, b, fact, target) ==
  LET bits == IF fact + j > target THEN st.bits - 1 ELSE st.bits
      row == [i \in 1 .. bits |-> a[i] /\ b[j + 1]]
  IN  [bits |-> bits, outs |-> Append(st.outs, st.ands[1] # row[1]),
       ands |-> AddRow(z, st.ands, row, fact, j = 1)]

Rows(z, a, b, fact, target) ==
  FoldLeft(LAMBDA st, j : MultiplyBy(z, st, j, a, b, fact, target),
           [bits |-> fact, outs |-> <<a[1] /\ b[1]>>,
            ands |-> [i \in 1 .. fact |-> IF i < fact THEN a[i + 1] /\ b[1] ELSE z]],
           [j \in 1 .. Least(fact, Len(b)) - 1 |-> j])

\* The partial sum that is left, up to the target size, and what fills the rest.
SimpleOutputs(st, outSize, target, useSign) ==
  LET bits == IF Len(st.outs) = 1 THEN st.bits - 1 ELSE st.bits
      all == st.outs \o SubSeq(st.ands, 1, Least(bits, Max({0, target - Len(st.outs)})))
  IN  resize(all, outSize, useSign /\ Last(all))

synthSimpleMultipyer(z, a, b, outSize, useSign) ==
  LET fact == Least(outSize, Len(a))
      target == IF useSign THEN Len(a) ELSE outSize
  IN  SimpleOutputs(Rows(z, a, b, fact, target), outSize, target, useSign)

\* a - b, as wide as a.
SubtractFrom(z, a, b) ==
  synthLadnerFisherAdd(z, a, twosComplement(z, b, Len(a), FALSE), Len(a), TRUE, TRUE)

Zeroes(k) == [i \in 1 .. k |-> FALSE]

RECURSIVE synthKaratsubaMultiplyer(_, _, _, _, _)

Middle(z, middle, left, right) ==
  SubtractFrom(z, IF right # << >> THEN SubtractFrom(z, middle, left) ELSE middle, IF right # << >> THEN right ELSE left)

\* The product of the upper halves is added if it reaches the outputs.
WithUpper(z, left, right, k, real, outSize) ==
  IF right # << >> /\ outSize > 2 * k
  THEN synthLadnerFisherAdd(z, left, SubSeq(Zeroes(2 * k) \o right, 1, Least(real, 2 * k + Len(right))),
                            Least(real, outSize), FALSE, FALSE)
  ELSE left

\* left + 2^k * (middle - left - right) + 2^2k * right.
Combine(z, h, k, real, outSize) ==
  synthLadnerFisherAdd(z, WithUpper(z, h.left, h.right, k, real, outSize),
                       Zeroes(k) \o Middle(z, h.middle, h.left, h.right), Least(real, outSize), FALSE, FALSE)

\* The product of the sums of the halves.
MiddleProduct(z, sumA, sumB, rest) ==
  synthKaratsubaMultiplyer(z, sumA, sumB, Least(Len(sumA) + Len(sumB), rest), FALSE)

Halves(z, leftA, rightA, leftB, rightB, outSize, k, rest) ==
  [left   |-> synthKaratsubaMultiplyer(z, leftA, leftB, Least(Len(leftA) + Len(leftB), outSize), FALSE),
   right  |-> IF rightB = << >> THEN << >>
              ELSE synthKaratsubaMultiplyer(z, rightA, rightB, Least(Len(rightA) + Len(rightB), rest), FALSE),
   middle |-> MiddleProduct(z, synthLadnerFisherAdd(z, leftA, rightA, Least(k + 1, rest), FALSE, FALSE),
                            IF rightB = << >> THEN leftB
                            ELSE synthLadnerFisherAdd(z, leftB, rightB, Least(k + 1, rest), FALSE, FALSE), rest)]

SplitAt(z, a, b, outSize, useSign, k) ==
  Combine(z, Halves(z, SubSeq(a, 1, k), SubSeq(a, k + 1, Len(a)), SubSeq(b, 1, Least(k, Len(b))),
                    SubSeq(b, k + 1, Len(b)), outSize, k, Size16(outSize - k)),
          k, IF useSign THEN Len(a) ELSE 2 * Len(a), outSize)

FillProduct(product, outSize, useSign) == resize(product, outSize, useSign /\ Last(product))

synthKaratsubaMultiplyer(z, a, b, outSize, useSign) ==
  IF outSize = 1 THEN <<Last(a) /\ Last(b)>>
  ELSE IF Len(a) <= 4 THEN synthSimpleMultipyer(z, a, b, outSize, useSign)
  ELSE FillProduct(SplitAt(z, a, b, outSize, useSign, (Len(a) \div 2) + (Len(a) % 2)), outSize, useSign)

\* Both operands are extended by their signs, to at most twice the longer one.
MulSorted(z, a, b, outSize) ==
  LET size == IF Len(a) < outSize THEN Least(outSize, 2 * Len(a)) ELSE Len(a)
  IN  synthKaratsubaMultiplyer(z, resize(a, size, Last(a)), resize(b, size, Last(b)), outSize, TRUE)

synthMulS(z, a, b, outSize) == IF Len(a) < Len(b) THEN MulSorted(z, b, a, outSize) ELSE MulSorted(z, a, b, outSize)

synthMulU(z, a, b, outSize) ==
  IF Len(a) < Len(b) THEN synthKaratsubaMultiplyer(z, b, a, outSize, FALSE)
  ELSE synthKaratsubaMultiplyer(z, a, b, outSize, FALSE)

-----------------------------------------------------------------------------
(* bitwise.cpp, negation.cpp, reduction.cpp                                *)

Gate(symbol, x, y) == CASE symbol = "AND" -> x /\ y [] symbol = "OR" -> x \/ y [] symbol = "XOR" -> x # y

synthBOp2(symbol, a, b, width, signExtend, positive) ==
  LET lhs == extend(a, width, signExtend)
      rhs == extend(b, width, signExtend)
  IN  [i \in 1 .. width |-> positive = Gate(symbol, lhs[i], rhs[i])]

synthBNot(a, width, signExtend) == LET arg == extend(a, width, signExtend) IN [i \in 1 .. width |-> ~arg[i]]

synthNeg(z, a, width, signExtend) == twosComplement(z, a, width, signExtend)

synthROp(symbol, a, width, positive) ==
  extendOutput(positive = FoldLeft(LAMBDA x, y : Gate(symbol, x, y), a[1], Tail(a)), width)

-----------------------------------------------------------------------------
(* synthesizer.cpp.  A block has the symbol of its operation (op), a flag  *)
(* for the signed variants (signed), the widths of its three operands, 0   *)
(* for the ones it does not have (ins), and that of its output (width).    *)

synthArithmetic(z, k, a, b) ==
  CASE k.op = "NEG" -> synthNeg(z, a, k.width, k.signed)
    [] k.op = "ADD" -> IF k.signed THEN synthAddS(z, a, b, k.width) ELSE synthAddU(z, a, b, k.width)
    [] k.op = "SUB" -> IF k.signed THEN synthSubS(z, a, b, k.width) ELSE synthSubU(z, a, b, k.width)
    [] k.op = "MUL" -> IF k.signed THEN synthMulS(z, a, b, k.width) ELSE synthMulU(z, a, b, k.width)

synthComparison(z, k, a, b) ==
  LET less == k.op \in {"LT", "LTE"}
      orEqual == k.op \in {"LTE", "GTE"}
  IN  CASE k.op \in {"EQ", "NEQ"} -> IF k.signed THEN synthXeqS(a, b, k.op = "EQ", k.width)
                                     ELSE synthXeqU(a, b, k.op = "EQ", k.width)
        [] k.op \in {"LT", "LTE", "GT", "GTE"} -> IF k.signed THEN synthXtS(z, a, b, less, orEqual, k.width)
                                                  ELSE synthXtU(z, a, b, less, orEqual, k.width)

synthSelection(z, k, a, b, c) ==
  CASE k.op = "BNOT" -> synthBNot(a, k.width, k.signed)
    [] k.op \in {"BAND", "BNAND"} -> synthBOp2("AND", a, b, k.width, k.signed, k.op = "BAND")
    [] k.op \in {"BOR", "BNOR"} -> synthBOp2("OR", a, b, k.width, k.signed, k.op = "BOR")
    [] k.op \in {"BXOR", "BXNOR"} -> synthBOp2("XOR", a, b, k.width, k.signed, k.op = "BXOR")
    [] k.op \in {"RAND", "RNAND"} -> synthROp("AND", a, k.width, k.op = "RAND")
    [] k.op \in {"ROR", "RNOR"} -> synthROp("OR", a, k.width, k.op = "ROR")
    [] k.op \in {"RXOR", "RXNOR"} -> synthROp("XOR", a, k.width, k.op = "RXOR")
    [] k.op = "BMUX" -> synthBMux(a, b, c)
    [] k.op = "MUX2" -> synthMux2(a, b, c)
    [] k.op = "MUX" -> synthMux(a, b)
    [] k.op = "BDEMUX" -> synthBDemux(a, b)
    [] k.op = "DEMUX2" -> synthDemux2(a, b)
    [] k.op = "DEMUX" -> synthDemux(z, a, b)
    [] k.op = "SHL" -> synthDefaultShiftL(a, b, k.width, k.signed)
    [] k.op = "SHR" -> synthDefaultShiftR(a, b, k.width, k.signed)
    [] k.op = "SHIFT" -> synthShift(z, a, b, k.width, k.signed)

Arithmetic == {"NEG", "ADD", "SUB", "MUL"}
Comparisons == {"EQ", "NEQ", "LT", "LTE", "GT", "GTE"}
Division == {"DIV", "REM", "MOD"}

synthImpl(k, a, b, c) ==
  CASE k.op \in Division -> NullSubnet
    [] k.op \in Arithmetic -> synthArithmetic(a[1], k, a, b)
    [] k.op \in Comparisons -> synthComparison(a[1], k, a, b)
    [] OTHER -> synthSelection(a[1], k, a, b, c)

Init ==
  /\ block \in Blocks
  /\ \E a \in Words(block.ins[1]), b \in Words(block.ins[2]), c \in Words(block.ins[3]) : args = <<a, b, c>>
  /\ outs = NullSubnet
  /\ done = FALSE

\* A block that cannot be synthesized stays without a subnet.
synthSoftBlocks ==
  /\ ~done
  /\ done' = TRUE
  /\ outs' = synthImpl(block, args[1], args[2], args[3])
  /\ UNCHANGED <<block, args>>

Next == synthSoftBlocks

Spec == Init /\ [][Next]_vars

-----------------------------------------------------------------------------
(* The reference: operations on integers.                                  *)

Num(w) == FoldLeft(LAMBDA n, bit : 2 * n + (IF bit THEN 1 ELSE 0), 0, Reverse(w))

Value(w, signed) == IF w # << >> /\ signed /\ Last(w) THEN Num(w) - 2 ^ Len(w) ELSE Num(w)

Has(k, ops) == done /\ k.op \in ops

Integer(k, x, y) ==
  CASE k.op = "NEG" -> -x [] k.op = "ADD" -> x + y [] k.op = "SUB" -> x - y [] k.op = "MUL" -> x * y

RECURSIVE WideEnough(_, _, _)

\* Whether a product of operands of m and n bits, m >= n, to size bits asks nowhere for a
\* product of one bit, of which the code takes the most significant bits of the operands
\* (of words of one bit that is right), or of none, where an assert fails.
WideEnough(m, n, size) ==
  LET k == (m \div 2) + (m % 2)
      rest == Size16(size - k)
      sum == Least(k + 1, rest)
      sums == <<sum, IF n > k THEN sum ELSE n>>
  IN  \/ m = 1 /\ size > 0
      \/ m <= 4 /\ size > 1
      \/ /\ m > 4 /\ size > 1 /\ rest > 0
         /\ WideEnough(k, Least(k, n), Least(k + Least(k, n), size))
         /\ n > k => WideEnough(m - k, n - k, Least(m + n - 2 * k, rest))
         /\ WideEnough(Max({sums[1], sums[2]}), Min({sums[1], sums[2]}), Least(sums[1] + sums[2], rest))

\* The widths to which the operands of a product are extended.
ProductWideEnough(k) ==
  LET m == Max({k.ins[1], k.ins[2]})
      size == IF m < k.width THEN Least(k.width, 2 * m) ELSE m
  IN  IF k.signed THEN WideEnough(size, size, k.width) ELSE WideEnough(m, Min({k.ins[1], k.ins[2]}), k.width)

\* The outputs of an adder, a subtractor or a negation hold the exact result modulo
\* 2^width for all widths of operands and output, whichever operand is longer, also
\* where bits of the parallel prefix network are left out (addition.cpp).  So do those of
\* a multiplier, of rows of adders or assembled from smaller ones, if no product of a
\* single bit is asked for on the way (multiplication.cpp): that one is not exact.
ArithmeticExact ==
  Has(block, Arithmetic) /\ (block.op = "MUL" => ProductWideEnough(block)) =>
    Num(SubSeq(outs, 1, block.width)) =
      Integer(block, Value(args[1], block.signed), Value(args[2], block.signed)) % 2 ^ block.width

Holds(op, x, y) ==
  CASE op = "EQ" -> x = y [] op = "NEQ" -> x # y [] op = "LT" -> x < y [] op = "LTE" -> x <= y
    [] op = "GT" -> x > y [] op = "GTE" -> x >= y

\* A comparison tells the order of the two numbers, signed or not, also of words of
\* different lengths, where the cascade over the bits that both words have starts with
\* the bits of the longer one (comparison.cpp); the output is extended by zeros.
ComparisonsExact ==
  Has(block, Comparisons) =>
    Num(outs) = IF Holds(block.op, Value(args[1], block.signed), Value(args[2], block.signed))
                THEN 1 ELSE 0

Shifted(x, n) == IF n >= 0 THEN x * 2 ^ n ELSE x \div 2 ^ (-n)

ShiftExact(k) ==
  LET amount == Value(args[2], k.op = "SHIFT")
  IN  Num(outs) = Shifted(Value(args[1], k.signed), IF k.op = "SHL" THEN amount ELSE -amount) % 2 ^ k.width

\* Bit i of a number of any length.
Bit(w, i, signed) == IF i <= Len(w) THEN w[i] ELSE signed /\ w # << >> /\ Last(w)

Either(k, i) ==
  LET x == Bit(args[1], i, k.signed)
      y == Bit(args[2], i, k.signed)
  IN  CASE k.op = "BNOT" -> ~x [] k.op = "BAND" -> x /\ y [] k.op = "BNAND" -> ~(x /\ y) [] k.op = "BOR" -> x \/ y
        [] k.op = "BNOR" -> ~(x \/ y) [] k.op = "BXOR" -> x # y [] k.op = "BXNOR" -> x = y

Bitwise == {"BNOT", "BAND", "BNAND", "BOR", "BNOR", "BXOR", "BXNOR"}

Ones(w) == Cardinality({i \in DOMAIN w : w[i]})

Reduced(op, w) ==
  CASE op = "RAND" -> Ones(w) = Len(w) [] op = "RNAND" -> Ones(w) < Len(w) [] op = "ROR" -> Ones(w) > 0
    [] op = "RNOR" -> Ones(w) = 0 [] op = "RXOR" -> Ones(w) % 2 = 1 [] op = "RXNOR" -> Ones(w) % 2 = 0

\* Whether the words of k go where the selecting bits say.  The first selecting bit of
\* MUX is its most significant one.
Selected(k) ==
  LET s == args[1]
      x == args[2]
      y == args[3]
      n == Num(Reverse(s))
      bit(i) == s[Least(i, Len(s))]
  IN  /\ k.op = "MUX" => outs = SubSeq(x, 1 + n * k.width, (n + 1) * k.width)
      /\ k.op = "MUX2" => outs = IF s[1] THEN y ELSE x
      /\ k.op = "BMUX" => outs = [i \in DOMAIN x |-> IF s[i] THEN y[i] ELSE x[i]]
      /\ k.op \in {"BDEMUX", "DEMUX2"} =>
           /\ Len(outs) = 2 * Len(x)
           /\ \A i \in DOMAIN x, h \in {FALSE, TRUE} :
                outs[IF h THEN i + Len(x) ELSE i] = (bit(i) = h /\ x[i])

\* A shifter multiplies or divides its first operand by a power of two and keeps the
\* low bits: the windows over inputs and multiplexer elements (shift.cpp) meet every
\* amount, amounts beyond both widths too, and the sign fills exactly the bits that have
\* been vacated; a negative amount of SHIFT is a shift to the left.  Bitwise operations
\* apply to operands extended to the width of the output, by their sign if they are
\* signed, and reductions count the bits (bitwise.cpp, reduction.cpp).  The halvings of a
\* multiplexer over any number of selecting bits leave the word at the place that they
\* spell, the first bit being the most significant one, a bitwise one chooses bit by bit,
\* and a demultiplexer into two words has zeros in the word not chosen (multiplexer.cpp).
SelectionExact ==
  /\ Has(block, {"SHL", "SHR", "SHIFT"}) => ShiftExact(block)
  /\ Has(block, Bitwise) => outs = [i \in 1 .. block.width |-> Either(block, i)]
  /\ Has(block, {"RAND", "RNAND", "ROR", "RNOR", "RXOR", "RXNOR"}) =>
       Num(outs) = IF Reduced(block.op, args[1]) THEN 1 ELSE 0
  /\ Has(block, {"MUX", "MUX2", "BMUX", "BDEMUX", "DEMUX2"}) => Selected(block)

\* The documented meaning of a demultiplexer (multiplexer.cpp): the operand at the
\* place that the selecting bits spell, zeros elsewhere.  (The first selecting bit is the
\* least significant one here, other than in synthMux.)
DemuxIndexed ==
  Has(block, {"DEMUX"}) =>
    LET x == args[2]
    IN  outs = [i \in 1 .. Len(x) * 2 ^ Len(args[1]) |->
                  (i - 1) \div Len(x) = Num(args[1]) /\ x[1 + ((i - 1) % Len(x))]]
=============================================================================
