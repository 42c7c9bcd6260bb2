--------------------------- MODULE MCWacFindings ---------------------------
(* A small graph on which the generated WAC is not what the documentation   *)
(* promises.  Per node of a graph: the providers <<of a, of b, of c>>.       *)
EXTENDS WacPlanInputs

Rank(i) == CHOOSE k \in DOMAIN IfaceOrder : IfaceOrder[k] = i
Graph(g) == [n \in Nodes |-> [i \in Ifaces |-> g[n][Rank(i)]]]
Export(p, q, r) == [i \in Ifaces |-> <<p, q, r>>[Rank(i)]]

(* 3 consumes a of 2, which consumes b of 1: no rule.                       *)
ThreeTier == <<{Input(Graph(<<<<0, 0, 0>>, <<0, 1, 0>>, <<2, 0, 0>>>>), Export(0, 0, 3), <<>>, NoShims)}>>
=============================================================================
