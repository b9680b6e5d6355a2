----------------------------- MODULE MCBalancer -----------------------------
(* Small networks for the balancer.                                        *)
EXTENDS Balancer

L(i) == Link(i, FALSE)
In == Cell("IN", << >>)
Ins == <<In, In, In, In>>

\* Chains of four gates over inputs 0 .. 3, of one type or of two types in turns, with
\* inverted links, a side input that is a gate, wide gates, and a second user of the
\* gate in the middle.
Chains ==
  {Ins \o <<Cell(t[1], <<L(0), L(1)>>), Cell(t[2], <<L(2), Link(4, v[1])>>),
            Cell(t[3], side \o <<Link(5, v[2])>>), Cell(t[4], <<L(2), Link(6, v[3])>>),
            Cell("OUT", <<L(7)>>), Cell("OUT", <<Link(k, TRUE)>>)>> :
     t \in {<<"AND", "AND", "AND", "AND">>, <<"XOR", "XOR", "XOR", "XOR">>, <<"AND", "OR", "OR", "OR">>,
            <<"XOR", "AND", "AND", "XOR">>, <<"XNOR", "XNOR", "XNOR", "XNOR">>},
     v \in {<<FALSE, FALSE, FALSE>>, <<TRUE, FALSE, FALSE>>, <<FALSE, TRUE, FALSE>>, <<FALSE, FALSE, TRUE>>},
     side \in {<<L(3)>>, <<L(4)>>, <<L(3), L(0)>>, <<L(1), L(4)>>},
     k \in {4, 5, 6, 7}}

\* AND gates 5 .. 8 over the gates and inputs below them, two or three operands each.
Operands(n) ==
  {<<L(a), L(n)>> : a \in {1, 2, n - 1}} \cup {<<L(a), L(n - 1)>> : a \in {0, 3}} \cup {<<L(1), L(2), L(n)>>}

Dags ==
  {Ins \o <<Cell("XOR", <<L(0), L(1)>>), Cell("AND", t[1]), Cell("AND", t[2]), Cell("AND", t[3]),
            Cell("AND", t[4]), Cell("OUT", <<L(8)>>), Cell("OUT", <<L(7)>>)>> :
     t \in {u \in {<<L(2), L(4)>>, <<L(2), L(3), L(4)>>} \X Operands(5) \X Operands(6) \X Operands(7) :
             IsInjective(u)}}

\* The gate in the middle is the first or the last operand of the gate above.
Maj(first, x, m, z) == Cell("MAJ", IF first THEN <<x, m, z>> ELSE <<z, m, x>>)

\* Chains of majority gates with the input 3 in the middle, plain or inverted.
Majorities(middles) ==
  {Ins \o <<Cell("AND", <<L(0), L(1)>>), Maj(f[1], Link(4, v[1]), Link(3, m[1]), L(2)),
            Maj(f[2], Link(5, v[2]), Link(3, m[2]), L(1)), Maj(f[3], L(6), Link(3, m[3]), L(z)),
            Cell("OUT", <<L(7)>>), Cell("OUT", <<L(k)>>)>> :
     f \in {<<x, y, z>> : x \in BOOLEAN, y \in BOOLEAN, z \in BOOLEAN},
     v \in BOOLEAN \X BOOLEAN,
     m \in middles,
     z \in {2, 4},
     k \in {4, 5, 7}}

\* Equal middle operands, as the law of majority gates needs.
MCNets == Chains \cup Dags \cup Majorities({<<FALSE, FALSE, FALSE>>, <<TRUE, TRUE, TRUE>>})

\* Middle operands that are the same cell.
MCSameCell == Majorities({<<FALSE, FALSE, TRUE>>})
=============================================================================
