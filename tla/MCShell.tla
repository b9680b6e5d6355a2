------------------------------- MODULE MCShell -------------------------------
(* Designs of two subnets.  The first one computes w, which takes wires     *)
(* only in the end; the second one computes g, which takes a gate.         *)
EXTENDS Shell, TLC

CONSTANTS d1, d2, p1, p2

MCStructures == {"w_buf", "w_wire", "w_cell", "g_buf", "g_gate", "g_cell"}
MCFun == [s \in MCStructures |-> IF s \in {"w_buf", "w_wire", "w_cell"} THEN "w" ELSE "g"]
MCKind == [s \in MCStructures |-> CASE s = "w_wire" -> "gateless"
                                    [] s \in {"w_cell", "g_cell"} -> "mapped"
                                    [] OTHER -> "logic"]
MCMade == [s \in MCStructures |-> CASE s = "w_buf" -> "w_wire"
                                    [] s = "g_buf" -> "g_gate"
                                    [] OTHER -> s]
MCFiles == {(0 :> a @@ 1 :> b) : a \in {"w_buf", "w_wire", "g_buf"}, b \in {"g_buf", "w_buf"}}
MCSymmetry == Permutations({d1, d2}) \cup Permutations({p1, p2})
=============================================================================
