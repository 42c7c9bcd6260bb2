--------------------------- MODULE WacPlanInputs ---------------------------
(* Families of composition graphs and rule lists for the runs of WacPlan.   *)
EXTENDS WacPlan

ABC == <<"a", "b", "c">>

(* Every graph over the nodes: per interface, each node's provider.  Nobody *)
(* imports the last interface from a node: it can only be exported.         *)
Providers == {t \in [Nodes -> 0..NumNodes] : \A n \in Nodes : t[n] < n}
Graphs ==
  {[n \in Nodes |-> [i \in Ifaces |-> IF i = Last(IfaceOrder) THEN Host ELSE t[i][n]]] :
     t \in [Ifaces \ {Last(IfaceOrder)} -> Providers]}
Exports == {e \in [Ifaces -> 0..NumNodes] : \E i \in Ifaces : e[i] # Host}
NoShims == [n \in Nodes |-> None]

Before(i, p, ms) == [kind |-> "before", iface |-> i, provider |-> p, inner |-> 0, outer |-> 0, mdls |-> ms]
Between(i, p, q, ms) == [kind |-> "between", iface |-> i, provider |-> 0, inner |-> p, outer |-> q, mdls |-> ms]
Input(f, e, r, s) == [imports |-> f, exports |-> e, rules |-> r, shimOf |-> s]

(* Regular graphs: all consumers of an interface stand in one line, whose   *)
(* innermost node imports from the host only; a node that consumes several  *)
(* interfaces is the end of each of their lines.                            *)
ConsumersIn(f, i) == {n \in Nodes : f[n][i] # Host}
LineTo(f, i) == LET line[n \in Nodes] == IF f[n][i] = Host THEN {n} ELSE {n} \union line[f[n][i]]
                IN  IF ConsumersIn(f, i) = {} THEN {} ELSE line[Max(ConsumersIn(f, i))]
FanInsOf(f) == {n \in Nodes : Cardinality({i \in Ifaces : f[n][i] # Host}) > 1}
Regular(f) ==
  \A i \in Ifaces : LineTo(f, i) # {} =>
    /\ ConsumersIn(f, i) \subseteq LineTo(f, i)
    /\ \A j \in Ifaces : f[Min(LineTo(f, i))][j] = Host
    /\ FanInsOf(f) \intersect LineTo(f, i) \subseteq {Max(LineTo(f, i))}
(* An export comes from the end of its line, one export per node.           *)
RegularExports(f, e) ==
  /\ \A i \in Ifaces : e[i] # Host /\ LineTo(f, i) # {} => e[i] = Max(LineTo(f, i))
  /\ \A i, j \in Ifaces : i # j /\ e[i] # Host => e[i] # e[j]
(* No before-rule names a fan-in consumer that re-exports what it imports.  *)
RegularRule(f, r) == r.kind = "before" => r.provider \notin FanInsOf(f) \/ LineTo(f, r.iface) = {}

ExportsFor(f) == {e \in Exports : RegularExports(f, e)}

(* The rules that name a node of a line, an exported node or an edge.       *)
NamedRules(f, e, ms) ==
  {Before(x[1], x[2], ms) : x \in {y \in Ifaces \X Nodes : y[2] \in LineTo(f, y[1]) \union {e[y[1]]}}}
    \union {Between(x[1], x[2], x[3], ms) : x \in {y \in Ifaces \X Nodes \X Nodes : f[y[3]][y[1]] = y[2]}}
RulesFor(f, e, ms) == {r \in NamedRules(f, e, ms) : RegularRule(f, r)}
=============================================================================
