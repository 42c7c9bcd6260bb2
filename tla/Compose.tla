------------------------------ MODULE Compose ------------------------------
(***************************************************************************)
(* build_graph_from_components (src/src/compose.rs): from N components to  *)
(* a composition graph whose node ids rise from providers to consumers.    *)
(*                                                                         *)
(* A component is its name and, per interface, the fingerprint of its      *)
(* export and of its import: Absent, Unknown (no fingerprint) or a type.   *)
(* The fingerprint an edge carries into the graph is left out.             *)
(***************************************************************************)
EXTENDS Integers, Sequences, FiniteSets

CONSTANTS
  NumComps,   \* how many components are given
  Ifaces,     \* the interfaces they import and export
  Names,      \* their names
  Types,      \* the known fingerprints
  Inputs,     \* the components given: [name, exports, imports]
  Absent, Unknown, Host, None

Comps  == 1..NumComps
Prints == Types \union {Absent, Unknown}
Kinds  == {"name", "ambiguous", "self", "types", "cycle"}   \* of errors

ASSUME SizeAssumption == NumComps \in Nat \ {0}
ASSUME NoneAssumption == None \notin Int \union Kinds /\ Host \notin Int \union {None}
ASSUME InputsAssumption ==
  \A x \in Inputs : /\ x.name \in [Comps -> Names]
                    /\ x.exports \in [Comps -> [Ifaces -> Prints]]
                    /\ x.imports \in [Comps -> [Ifaces -> Prints]]

VARIABLES
  name, exports, imports,   \* the components
  pc,        \* the phase
  at,        \* its loop index
  index,     \* export_index: per interface the component that exports it
  pending,   \* imports of component `at' not yet resolved
  resolved,  \* per component: its imports that another component provides
  indeg,     \* in_degree
  queue,     \* components with no provider left to place
  order,     \* topo_order
  graph,     \* per node and interface: the node that provides it, Host or None
  outs,      \* component_exports: per interface the node, or None
  error      \* why it bailed, or None

given == <<name, exports, imports>>
sort  == <<indeg, queue, order>>
made  == <<graph, outs>>
vars  == <<name, exports, imports, pc, at, index, pending, resolved, indeg, queue, order,
           graph, outs, error>>

Exported(c) == {i \in Ifaces : exports[c][i] # Absent}
Imported(c) == {i \in Ifaces : imports[c][i] # Absent}
Mismatch(p, q) == p \in Types /\ q \in Types /\ p # q

Init ==
  /\ \E x \in Inputs : name = x.name /\ exports = x.exports /\ imports = x.imports
  /\ pc = "names"
  /\ at = 1
  /\ index = [i \in Ifaces |-> None]
  /\ pending = {}
  /\ resolved = [c \in Comps |-> {}]
  /\ indeg = [c \in Comps |-> 0]
  /\ queue = <<>>
  /\ order = <<>>
  /\ graph = [n \in Comps |-> [i \in Ifaces |-> None]]
  /\ outs = [i \in Ifaces |-> None]
  /\ error = None

Bail(why) ==
  /\ pc' = "failed"
  /\ error' = why
  /\ UNCHANGED <<given, at, index, pending, resolved, sort, made>>

-----------------------------------------------------------------------------
(* 0. No two components share a name.                                       *)
Clash == \E c, d \in Comps : c # d /\ name[c] = name[d]
CheckNames ==
  /\ pc = "names"
  /\ IF Clash THEN Bail("name")
     ELSE pc' = "index" /\ UNCHANGED <<given, at, index, pending, resolved, sort, made, error>>

(* 2. One component after the other enters its exports.                     *)
IndexExports ==
  /\ pc = "index" /\ at <= NumComps
  /\ IF \E i \in Exported(at) : index[i] # None THEN Bail("ambiguous")
     ELSE /\ index' = [i \in Ifaces |-> IF i \in Exported(at) THEN at ELSE index[i]]
          /\ at' = at + 1
          /\ UNCHANGED <<given, pc, pending, resolved, sort, made, error>>

StartResolve ==
  /\ pc = "index" /\ at > NumComps
  /\ pc' = "resolve"
  /\ at' = 1
  /\ pending' = Imported(1)
  /\ UNCHANGED <<given, index, resolved, sort, made, error>>

(* 3. An import is the host's if no component exports it.                   *)
ResolvedAlways(i) == TRUE   \* mutant: host imports are resolved too
Resolved(i) == index[i] # None
ResolveImport(i) ==
  /\ pc = "resolve" /\ i \in pending
  /\ CASE index[i] = at -> Bail("self")
       [] index[i] \in Comps \ {at} /\ Mismatch(imports[at][i], exports[index[i]][i]) -> Bail("types")
       [] OTHER ->
            /\ resolved' = IF Resolved(i) THEN [resolved EXCEPT ![at] = @ \union {i}] ELSE resolved
            /\ pending' = pending \ {i}
            /\ UNCHANGED <<given, pc, at, index, sort, made, error>>

NextComponent ==
  /\ pc = "resolve" /\ pending = {} /\ at < NumComps
  /\ at' = at + 1
  /\ pending' = Imported(at + 1)
  /\ UNCHANGED <<given, pc, index, resolved, sort, made, error>>

-----------------------------------------------------------------------------
(* 4. Kahn's algorithm.  The in-degree counts distinct providers.           *)
Deps(c) == {index[i] : i \in resolved[c]}
DegreePerImport(c) == Cardinality(resolved[c])   \* mutant
Degree(c) == Cardinality(Deps(c))

CountProviders ==
  /\ pc = "resolve" /\ pending = {} /\ at = NumComps
  /\ indeg' = [c \in Comps |-> Degree(c)]
  /\ pc' = "seed"
  /\ at' = 1
  /\ UNCHANGED <<given, index, pending, resolved, queue, order, made, error>>

\* The loops over all components: `phase' goes on up to the last one.
LoopIn(phase, after) ==
  /\ at' = IF at < NumComps THEN at + 1 ELSE 1
  /\ pc' = IF at < NumComps THEN phase ELSE after

Seed ==
  /\ pc = "seed"
  /\ queue' = IF indeg[at] = 0 THEN Append(queue, at) ELSE queue
  /\ LoopIn("seed", "sort")
  /\ UNCHANGED <<given, index, pending, resolved, indeg, order, made, error>>

LeftAfterKeep == queue        \* mutant: the head is read, not taken
LeftAfter == Tail(queue)
Pop ==
  /\ pc = "sort" /\ queue # <<>>
  /\ order' = Append(order, Head(queue))
  /\ queue' = LeftAfter
  /\ pc' = "relax"
  /\ UNCHANGED <<given, at, index, pending, resolved, indeg, made, error>>

Popped == order[Len(order)]
Relax ==
  /\ pc = "relax"
  /\ IF Popped \in Deps(at)
     THEN /\ indeg' = [indeg EXCEPT ![at] = @ - 1]
          /\ queue' = IF indeg[at] = 1 THEN Append(queue, at) ELSE queue
     ELSE UNCHANGED <<indeg, queue>>
  /\ LoopIn("relax", "sort")
  /\ UNCHANGED <<given, index, pending, resolved, order, made, error>>

FinishSort ==
  /\ pc = "sort" /\ queue = <<>>
  /\ IF Len(order) # NumComps THEN Bail("cycle")
     ELSE pc' = "build" /\ UNCHANGED <<given, at, index, pending, resolved, sort, made, error>>

-----------------------------------------------------------------------------
(* 5. and 6. Nodes are numbered by their place in `order'.                  *)
NodeOfIndex(c) == c                  \* mutant: the component's own number
NodeOf(c) == CHOOSE n \in Comps : order[n] = c

BuildNode ==
  /\ pc = "build"
  /\ graph' = [graph EXCEPT ![at] = [i \in Ifaces |->
                 IF i \in resolved[order[at]] THEN NodeOf(index[i])
                 ELSE IF i \in Imported(order[at]) THEN Host ELSE None]]
  /\ LoopIn("build", "exports")
  /\ UNCHANGED <<given, index, pending, resolved, sort, outs, error>>

ConsumedHere == resolved[order[at]]   \* mutant: only the exporter's own imports
Consumed == UNION {resolved[c] : c \in Comps}
SetExports ==
  /\ pc = "exports"
  /\ outs' = [i \in Ifaces |-> IF i \in Exported(order[at]) \ Consumed THEN at ELSE outs[i]]
  /\ LoopIn("exports", "done")
  /\ UNCHANGED <<given, index, pending, resolved, sort, graph, error>>

Terminated == pc \in {"done", "failed"} /\ UNCHANGED vars

Step ==
  \/ CheckNames \/ IndexExports \/ StartResolve
  \/ \E i \in Ifaces : ResolveImport(i)
  \/ NextComponent \/ CountProviders \/ Seed \/ Pop \/ Relax \/ FinishSort
  \/ BuildNode \/ SetExports
Next == Step \/ Terminated

Spec == Init /\ [][Next]_vars

-----------------------------------------------------------------------------
GraphType == graph \in [Comps -> [Ifaces -> Comps \union {Host, None}]]
LoopsType ==
  /\ name \in [Comps -> Names]
  /\ exports \in [Comps -> [Ifaces -> Prints]] /\ imports \in [Comps -> [Ifaces -> Prints]]
  /\ pc \in {"names", "index", "resolve", "seed", "sort", "relax", "build", "exports",
             "done", "failed"}
  /\ at \in 1..NumComps + 1 /\ (pc # "failed" /\ pc # "index" => at \in Comps)
  /\ index \in [Ifaces -> Comps \union {None}]
  /\ pending \in SUBSET Ifaces
  /\ resolved \in [Comps -> SUBSET {i \in Ifaces : index[i] # None}]
  /\ indeg \in [Comps -> Int]
  /\ queue \in Seq(Comps) /\ order \in Seq(Comps)
  /\ outs \in [Ifaces -> Comps \union {None}]
  /\ error \in Kinds \union {None}

\* The variables stay in their types: every resolved import has a component
\* that provides it and every such provider a node.
TypeOK == LoopsType /\ GraphType

\* What component c needs from the others, and when the components compose.
Needs(c) == {d \in Comps \ {c} : Imported(c) \cap Exported(d) # {}}
Acyclic == \A S \in SUBSET Comps : S # {} => \E c \in S : Needs(c) \cap S = {}
Unambiguous == \A c, d \in Comps : c # d => Exported(c) \cap Exported(d) = {}
TypesAgree ==
  \A c, d \in Comps : \A i \in Imported(c) \cap Exported(d) :
    c # d => ~Mismatch(imports[c][i], exports[d][i])
NoSelfImport == \A c \in Comps : Imported(c) \cap Exported(c) = {}

\* Providers that are in `order' and were taken off c's in-degree.
Counted(c) ==
  {order[k] : k \in {n \in 1..Len(order) : pc = "relax" /\ at <= c => n < Len(order)}}

\* During the sort the in-degree of a component is the number of its providers
\* not yet taken off: it reaches 0 once, with the last of them, and the
\* unsigned decrement never underflows.
CountsExact ==
  pc \in {"seed", "sort", "relax"} =>
    \A c \in Comps : indeg[c] = Cardinality(Deps(c) \ Counted(c))

\* Providers receive lower ids than their consumers: what generate_wac's pass
\* over ascending ids relies on (the assumption WacPlan makes of its graphs).
ProvidersFirst ==
  \A n \in Comps, i \in Ifaces : graph[n][i] \in Comps => graph[n][i] < n

\* The verdict: a graph is built only of components that compose, and each
\* error is reported only of components that have it.
Verdict ==
  /\ pc = "done" => ~Clash /\ Unambiguous /\ NoSelfImport /\ TypesAgree /\ Acyclic
  /\ error = "name" => Clash
  /\ error = "ambiguous" => ~Unambiguous
  /\ error = "self" => ~NoSelfImport
  /\ error = "types" => ~TypesAgree
  /\ error = "cycle" => ~Acyclic

\* The graph says what the components say: every component is one node, every
\* import comes from the node that exports it or else the host, and every
\* export is an edge or an export of the composition, never both.
GraphFaithful ==
  pc = "done" =>
    /\ {order[n] : n \in Comps} = Comps
    /\ \A n \in Comps, i \in Ifaces :
         /\ graph[n][i] \in Comps <=> \E m \in Comps : /\ i \in Exported(order[m])
                                                       /\ i \in Imported(order[n])
                                                       /\ graph[n][i] = m
         /\ graph[n][i] # None <=> i \in Imported(order[n])
         /\ graph[n][i] = Host => \A c \in Comps : i \notin Exported(c)
         /\ i \in Exported(order[n]) =>
              (outs[i] = n <=> ~\E m \in Comps : graph[m][i] = n)
    /\ \A i \in Ifaces : outs[i] # None => i \in Exported(order[outs[i]])
=============================================================================
