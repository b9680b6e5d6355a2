------------------------------ MODULE MCPasses ------------------------------
(* Small networks for the passes.                                          *)
EXTENDS Passes

L(i) == Link(i, FALSE)
N(i) == Link(i, TRUE)
In == Cell("IN", << >>)

MCRhss ==
  {Rhs(1, << >>, L(0)), Rhs(1, << >>, N(0)),
   Rhs(1, <<Cell("ZERO", << >>)>>, L(1)),
   Rhs(2, <<Cell("AND", <<L(0), L(1)>>)>>, L(2)),
   Rhs(2, <<Cell("AND", <<L(0), N(1)>>)>>, L(2)),
   Rhs(2, <<Cell("AND", <<L(0), L(1)>>)>>, N(2)),
   Rhs(2, <<Cell("XOR", <<L(0), L(1)>>)>>, L(2)),
   Rhs(2, <<Cell("AND", <<L(0), L(1)>>), Cell("AND", <<L(2), N(0)>>)>>, L(3)),
   Rhs(3, <<Cell("AND", <<L(0), L(1)>>), Cell("AND", <<L(3), L(2)>>)>>, L(4)),
   Rhs(3, <<Cell("AND", <<L(0), L(2)>>), Cell("AND", <<L(3), L(1)>>)>>, L(4)),
   Rhs(3, <<Cell("AND", <<L(1), L(2)>>), Cell("AND", <<L(3), L(0)>>)>>, L(4))}

\* A deep implementation of a & b.  Its users have shallow inputs too, and move to
\* smaller depths with it; other cells have its depth or read the cells that die.
MCNets ==
  {<<In, In, In, Cell("OR", <<N(0), L(1)>>), Cell("XOR", <<L(1), L(2)>>), Cell("AND", <<L(3), L(0)>>),
     Cell("AND", <<L(4), L(0)>>), Cell("AND", <<L(5), L(0)>>), Cell("XOR", <<L(6), L(2)>>),
     Cell("AND", <<N(7), L(2)>>), Cell("AND", <<L(9), L(8)>>), Cell("OUT", <<L(10)>>),
     Cell("OUT", <<L(7)>>)>>,
   <<In, In, In, Cell("XOR", <<L(0), L(1)>>), Cell("AND", <<L(1), L(2)>>), Cell("AND", <<L(4), L(3)>>),
     Cell("OR", <<L(3), L(2)>>), Cell("AND", <<L(5), L(6)>>), Cell("XOR", <<L(5), L(0)>>),
     Cell("OUT", <<L(7)>>), Cell("OUT", <<N(8)>>)>>}
=============================================================================
