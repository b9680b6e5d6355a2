------------------------------- MODULE MCMerge -------------------------------
(* Small networks for merging.                                             *)
EXTENDS MergeCalls

L(i) == Link(i, FALSE)
N(i) == Link(i, TRUE)
In == Cell("IN", << >>)

\* The network of the repository's merge tests with a shared gate on top of it;
\* a chain through a constant whose gates feed one another.
MCNets ==
  {<<In, In, Cell("AND", <<L(0), L(1)>>), Cell("OR", <<N(0), N(1)>>), Cell("BUF", <<N(3)>>),
     Cell("XOR", <<L(2), L(4)>>), Cell("OUT", <<L(2)>>), Cell("OUT", <<N(5)>>)>>,
   <<In, In, Cell("ONE", << >>), Cell("AND", <<L(0), L(2)>>), Cell("OR", <<L(3), N(1)>>),
     Cell("AND", <<L(3), L(4)>>), Cell("OUT", <<L(5)>>), Cell("OUT", <<L(4)>>)>>}
=============================================================================
