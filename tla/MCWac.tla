------------------------------- MODULE MCWac -------------------------------
(***************************************************************************)
(* Regular graphs of four nodes: with no rule and with one of two          *)
(* middleware, one interface exported; those of three nodes with two rules *)
(* as well, two exported.  And every graph of three nodes, shims among     *)
(* them, with every kind of rule.                                          *)
(***************************************************************************)
EXTENDS WacPlanInputs

Small(f) == \A i \in Ifaces : f[NumNodes][i] = Host
OneRule(f, e)  == {<<r>> : r \in RulesFor(f, e, <<"m1", "m2">>)}
TwoRules(f, e) == {<<r, q>> : r \in RulesFor(f, e, <<"m1", "m2">>), q \in RulesFor(f, e, <<"m3">>)}
RuleLists(f, e) == {<<>>} \union OneRule(f, e) \union (IF Small(f) THEN TwoRules(f, e) ELSE {})
SomeExports(f) ==
  {e \in ExportsFor(f) : /\ Small(f) => \A i \in Ifaces : e[i] # NumNodes
                         /\ Cardinality({i \in Ifaces : e[i] # Host}) <= (IF Small(f) THEN 2 ELSE 1)}
RegularWith(f) ==
  UNION {{Input(f, e, rs, NoShims) : rs \in RuleLists(f, e)} : e \in SomeExports(f)}

Shims == {NoShims, [NoShims EXCEPT ![1] = Root], [NoShims EXCEPT ![1] = Root, ![2] = Root],
          [NoShims EXCEPT ![1] = 2], [NoShims EXCEPT ![2] = 3], [NoShims EXCEPT ![3] = 1]}
OneExport == {e \in Exports : /\ \A i, j \in Ifaces : i # j => e[i] = Host \/ e[j] = Host
                              /\ \A i \in Ifaces : e[i] # NumNodes}
AnyRules == {<<>>, <<Before("a", AnyNode, <<"m1", "m2">>)>>, <<Before("c", 3, <<"m1", "m2">>)>>,
             <<Between("a", 1, 3, <<"m2", "m3">>)>>}
AllWith(f) == {Input(f, e, rs, s) : e \in OneExport, s \in Shims, rs \in AnyRules}

AllInputs ==
  [f \in Graphs |-> UNION {IF Regular(f) THEN RegularWith(f) ELSE {},
                           IF Small(f) THEN AllWith(f) ELSE {}}]
=============================================================================
