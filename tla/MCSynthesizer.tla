--------------------------- MODULE MCSynthesizer ---------------------------
(* Soft blocks of small widths.                                            *)
EXTENDS Synthesizer

\* All words of up to four bits; of the longer ones 0, 1, -1, -2, the least and the
\* greatest signed number and alternating bits.
MCWords(n) ==
  IF n <= 4 THEN [1 .. n -> BOOLEAN]
  ELSE {[i \in 1 .. n |-> FALSE], [i \in 1 .. n |-> TRUE], [i \in 1 .. n |-> i = 1], [i \in 1 .. n |-> i # 1],
        [i \in 1 .. n |-> i = n], [i \in 1 .. n |-> i # n], [i \in 1 .. n |-> i % 2 = 1], [i \in 1 .. n |-> i % 2 = 0]}

Two(ops, w, widths) ==
  {[op |-> op, signed |-> s, ins |-> <<a, b, 0>>, width |-> n] :
     op \in ops, s \in BOOLEAN, a \in 1 .. w, b \in 1 .. w, n \in widths}

\* Of given widths.
Wide(op, pairs, widths) ==
  {[op |-> op, signed |-> s, ins |-> <<p[1], p[2], 0>>, width |-> n] : s \in BOOLEAN, p \in pairs, n \in widths}

One(ops, w, widths) ==
  {[op |-> op, signed |-> s, ins |-> <<a, 0, 0>>, width |-> n] : op \in ops, s \in BOOLEAN, a \in 1 .. w, n \in widths}

Only(op, ins, n) == {[op |-> op, signed |-> FALSE, ins |-> ins, width |-> n]}

\* Products assembled from smaller ones, without the widths at which the code is wrong or
\* fails an assert.
Split(pairs, widths) == {k \in Wide("MUL", pairs, widths) : ProductWideEnough(k)}

MCBlocks ==
  UNION {Two({"ADD", "SUB"}, 4, 1 .. 6), One({"NEG"}, 4, 1 .. 5),
         Wide("ADD", {<<9, 9>>, <<16, 5>>, <<5, 8>>}, {7, 8, 10, 17}), Wide("SUB", {<<9, 9>>, <<16, 5>>, <<5, 8>>}, {7, 8, 10, 17}),
         Two({"MUL"}, 4, 1 .. 9),
         Split({<<5, 5>>, <<5, 6>>, <<8, 5>>, <<9, 9>>, <<10, 4>>, <<10, 10>>}, {2, 5, 6, 7, 8, 9, 10, 14, 18}),
         Two({"LT", "LTE", "GT", "GTE"}, 4, {1}), Two({"EQ", "NEQ", "GT"}, 3, {2}),
         Two({"SHL", "SHR", "SHIFT"}, 3, 1 .. 6),
         Two(Bitwise \ {"BNOT"}, 2, 1 .. 3), One({"BNOT"}, 2, 1 .. 3),
         One({"RAND", "RNAND", "ROR", "RNOR", "RXOR", "RXNOR"}, 3, 1 .. 2),
         Only("MUX", <<1, 4, 0>>, 2), Only("MUX", <<2, 4, 0>>, 1), Only("MUX", <<2, 8, 0>>, 2), Only("MUX", <<3, 8, 0>>, 1),
         Only("MUX2", <<1, 2, 2>>, 2), Only("BMUX", <<2, 2, 2>>, 2), Only("BMUX", <<3, 3, 3>>, 3),
         Only("BDEMUX", <<3, 3, 0>>, 6), Only("DEMUX2", <<1, 2, 0>>, 4),
         Wide("DIV", {<<2, 2>>}, {2}), Wide("REM", {<<2, 2>>}, {2}), Wide("MOD", {<<2, 2>>}, {2})}

\* One selecting bit and two bits to place.
MCDemux == Only("DEMUX", <<1, 2, 0>>, 4)
=============================================================================
