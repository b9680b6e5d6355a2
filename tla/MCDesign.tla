------------------------------ MODULE MCDesign ------------------------------
(* Nets with three gates, two outputs and a flip-flop: every way to link    *)
(* them that is listed below is decomposed.                                 *)
EXTENDS DesignNet

Gate(t, ls) == [type |-> t, links |-> ls]

\* x and y are inputs, q is a flip-flop, o1 and o2 are outputs.
MCNet(g1, g2, g3, o1, o2, d, clk) ==
  [type |-> [x |-> "IN", y |-> "IN", q |-> "DFF", o1 |-> "OUT", o2 |-> "OUT",
             g1 |-> g1.type, g2 |-> g2.type, g3 |-> g3.type],
   links |-> [g1 |-> g1.links, g2 |-> g2.links, g3 |-> g3.links,
              o1 |-> <<o1>>, o2 |-> <<o2>>, q |-> <<d, clk>>,
              x |-> << >>, y |-> << >>],
   inputs |-> <<"x", "y">>, outputs |-> <<"o1", "o2">>, flipFlops |-> <<"q">>]

First == {Gate("AND", <<"x", "x">>), Gate("XOR", <<"x", "q">>)}

Second == {Gate("NAND", <<"g1", "y">>), Gate("XOR", <<"y", "q">>), Gate("BUF", <<"q">>)}

Third == {Gate("OR", <<"g1", "g2">>), Gate("NOT", <<"g2">>), Gate("AND", <<"x", "y">>), Gate("ONE", << >>)}

MCNets ==
  {MCNet(g1, g2, g3, o1, o2, d, clk) :
     g1 \in First, g2 \in Second, g3 \in Third, o1 \in {"g1", "g2"}, o2 \in {"g2", "g3", "q"},
     d \in {"g1", "g3"}, clk \in {"x", "g2"}}

MCDesigns ==
  {n \in MCNets : n.links.q = <<"g3", "g2">> /\ n.links.o1 = <<"g1">> /\ n.links.o2 # <<"g3">>}

MCGateIDs == {"g1", "g2", "g3"}

\* The clock is the first pin of the library's flip-flop.
MCNewCells == [q2 |-> [old |-> "q", type |-> "LIBDFF", inputs |-> <<2, 1>>]]
=============================================================================
