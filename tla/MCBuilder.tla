------------------------------ MODULE MCBuilder ------------------------------
(* Small instances of BuilderCalls.                                        *)
EXTENDS BuilderCalls

L(i) == Link(i, FALSE)
N(i) == Link(i, TRUE)

MCGates == {[type |-> "AND", arity |-> 2], [type |-> "BUF", arity |-> 1], [type |-> "ZERO", arity |-> 0]}

MCRhss ==
  {Rhs(1, << >>, L(0)),                                          \* a wire
   Rhs(1, <<Cell("ZERO", << >>)>>, L(1)),                        \* a constant
   Rhs(2, <<Cell("AND", <<L(0), L(1)>>)>>, N(2)),                \* an inverted gate
   Rhs(2, <<Cell("AND", <<L(0), L(1)>>), Cell("AND", <<L(2), N(0)>>)>>, L(3))}

\* Nothing but what the calls build.
MCEmpty == {<< >>}

\* Networks with shared and with chained cells, so that a replacement deletes
\* cones, moves cells to other depths and reuses slots.
MCNets ==
  {<<Cell("IN", << >>), Cell("IN", << >>),
     Cell("AND", <<L(0), L(1)>>), Cell("AND", <<N(0), L(2)>>), Cell("XOR", <<L(2), L(3)>>),
     Cell("AND", <<L(3), L(4)>>), Cell("OUT", <<L(4)>>), Cell("OUT", <<N(5)>>)>>,
   <<Cell("IN", << >>), Cell("IN", << >>),
     Cell("XOR", <<L(0), L(1)>>), Cell("AND", <<L(0), L(2)>>), Cell("BUF", <<N(3)>>),
     Cell("AND", <<L(1), L(4)>>), Cell("OUT", <<L(5)>>)>>}

MCNone == {}
=============================================================================
