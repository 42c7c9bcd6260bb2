------------------------------ MODULE WacPlan ------------------------------
(***************************************************************************)
(* generate_wac (src/src/wac.rs): from a composition graph and the splice  *)
(* rules to WAC text, a sequence of `let' lines and `export' lines.        *)
(*                                                                         *)
(* A line is abstracted to the variable it defines and what it wires: the  *)
(* set of (interface, variable) pairs between the braces.  A variable is a *)
(* tuple that says what it instantiates; aliases only rename variables and *)
(* are left out.  Which middleware gets a generated adapter (tier 1 or 2)  *)
(* and which has a config provider is a constant: contract.rs and          *)
(* config_provider.rs decide it.  Every node lists its imports in the same *)
(* order, and the exports of the composition come in that order too.       *)
(***************************************************************************)
EXTENDS Naturals, Sequences, SequencesExt, FiniteSetsExt

CONSTANTS
  NumNodes,    \* nodes of the composition graph, numbered as in the binary
  IfaceOrder,  \* the interfaces, in the order nodes list their imports
  Mdls,        \* the middleware the rules name
  Adapted,     \* those whose contract is tier 1 or tier 2
  Configured,  \* those with a patched config provider
  Inputs,      \* families of inputs: sets of [imports, exports, rules, shimOf]
  None

Nodes   == 1..NumNodes
Host    == 0    \* imports: the host provides it; exports: not exported
Root    == 0    \* shimOf: the root component contains the shim
AnyNode == 0    \* a before-rule without a provider
Ifaces  == {IfaceOrder[k] : k \in DOMAIN IfaceOrder}
Rules   == [kind : {"before", "between"}, iface : Ifaces, provider : {AnyNode} \union Nodes,
            inner : {Host} \union Nodes, outer : {Host} \union Nodes, mdls : Seq(Mdls)]

ASSUME SizesAssumption ==   \* an interface that nobody imports or exports is harmless
  /\ NumNodes \in Nat /\ IfaceOrder \in Seq(Ifaces) \ {<<>>}
  /\ \A j, k \in DOMAIN IfaceOrder : IfaceOrder[j] = IfaceOrder[k] => j = k
  /\ Ifaces \intersect {"config", "hooks"} = {}   \* a WIT interface's name has a package
NamesUnique(rs) ==   \* validate: an injection's name is an instance of its own
  \A j, k \in DOMAIN rs : \A a \in DOMAIN rs[j].mdls, b \in DOMAIN rs[k].mdls :
    rs[j].mdls[a] = rs[k].mdls[b] => j = k /\ a = b
ASSUME InputsAssumption ==
  \A k \in DOMAIN Inputs : \A x \in Inputs[k] :
    /\ x.imports \in [Nodes -> [Ifaces -> {Host} \union Nodes]]
    /\ \A n \in Nodes, i \in Ifaces : x.imports[n][i] < n
    /\ x.exports \in [Ifaces -> {Host} \union Nodes]
    /\ x.rules \in Seq(Rules) /\ NamesUnique(x.rules)
    /\ x.shimOf \in [Nodes -> {None, Root} \union Nodes]

VARIABLES
  imports,   \* per node and interface: the node that provides it, or Host
  exports,   \* per interface: the node whose export the composition exports
  rules,     \* the splice rules, in declaration order
  shimOf,    \* per shim node: the component it resolves to, else None
  pc,        \* the pass generate_wac is in
  at,        \* its cursor: <<node, import>>, <<rule, 1>>, <<chain, position>>, ...
  growing,   \* the chain under construction, innermost first
  chains,    \* the chains: [iface, nodes, plan]
  wac,       \* WAC builder: lines, inst, split, emitted, last, over
  todo,      \* middleware to instantiate at the cursor, innermost first
  fanVars,   \* fan_in_iface_vars
  outer,     \* outer_instances
  deferred,  \* deferred_top_level_injects
  overrides, \* export_overrides
  exported   \* per interface: the variable of its export line

input   == <<imports, exports, rules, shimOf>>
planned == <<growing, chains>>
routes  == <<fanVars, outer, deferred, overrides, exported>>
vars    == <<imports, exports, rules, shimOf, pc, at, growing, chains, wac, todo,
             fanVars, outer, deferred, overrides, exported>>

NodeVar(n)       == <<"node", n>>
MdlVar(m)        == <<"mdl", m>>
ConfigVar(m)     == <<"config", m>>
AdapterVar(m, i) == <<"adapter", m, i>>
Variables ==
  UNION {{NodeVar(n) : n \in Nodes}, {MdlVar(m) : m \in Mdls}, {ConfigVar(m) : m \in Mdls},
         {AdapterVar(m, i) : m \in Mdls, i \in Ifaces}}
ASSUME NoneAssumption == None \notin Variables \union [iface : Ifaces, from : Variables]

(* resolved_split_num and resolve_shim_node.                                *)
Split(n)   == IF shimOf[n] = None THEN n ELSE shimOf[n]
Resolve(n) == IF Split(n) \in Nodes THEN Split(n) ELSE n

(* An interface that some node imports from another node is handled by a    *)
(* chain; an exported interface that none does is a chain of its own.       *)
Handled == {i \in Ifaces : \E n \in Nodes : imports[n][i] # Host}
Planned == {chains[k].iface : k \in DOMAIN chains}
NewChain(i, nodes) == [iface |-> i, nodes |-> nodes, plan |-> [p \in DOMAIN nodes |-> <<>>]]

(* apply_rule_between, apply_rule_before: where in a chain a rule matches.  *)
Matches(r, c, p) ==
  /\ r.iface = c.iface
  /\ \/ r.kind = "between" /\ p < Len(c.nodes) /\ c.nodes[p] = r.inner /\ c.nodes[p + 1] = r.outer
     \/ r.kind = "before" /\ r.provider \in {AnyNode, c.nodes[p]}
(* add_to_inject_plan: validate makes middleware names unique across rules, *)
(* so the set that collects a position's injections drops nothing.          *)
WithRule(r, c) ==
  [c EXCEPT !.plan = [p \in DOMAIN c.plan |->
                        IF Matches(r, c, p) THEN c.plan[p] \o r.mdls ELSE c.plan[p]]]

(* Fan-in consumers stand at a non-zero position of two chains or more;     *)
(* pure providers stand at position zero only.                              *)
Consumes(n, k) == \E p \in DOMAIN chains[k].nodes : p > 1 /\ chains[k].nodes[p] = n
FanIn == {n \in Nodes : \E j, k \in DOMAIN chains : j # k /\ Consumes(n, j) /\ Consumes(n, k)}
PureProviders ==
  {n \in Nodes : /\ \E k \in DOMAIN chains : chains[k].nodes[1] = n
                 /\ \A k \in DOMAIN chains : ~Consumes(n, k)}

-----------------------------------------------------------------------------
(* WAC builder.                                                             *)
Let(w, v, uses) == [w EXCEPT !.lines = Append(@, [var |-> v, uses |-> uses])]
Wire(i, v) == [iface |-> i, from |-> v]

SourceOf(w, n, i, over) ==
  IF over # None /\ over.iface = i THEN over.from ELSE w.inst[imports[n][i]]
Internal(n) == {i \in Ifaces : imports[n][i] # Host}
Wiring(w, n, over) ==
  IF over = None THEN {}   \* imports are wired only when there is an override
  ELSE {Wire(i, SourceOf(w, n, i, over)) :
          i \in {j \in Internal(n) : SourceOf(w, n, j, over) # None}}

GetOrCreateInstAlways(w, n, over) ==   \* mutant: created at every mention
  [Let(w, NodeVar(n), Wiring(w, n, over))
     EXCEPT !.inst[n] = NodeVar(n), !.split[Split(n)] = NodeVar(n)]
GetOrCreateInstPerNode(w, n, over) ==  \* mutant: the split is not looked up
  IF w.inst[n] # None THEN w
  ELSE [Let(w, NodeVar(n), Wiring(w, n, over))
          EXCEPT !.inst[n] = NodeVar(n), !.split[Split(n)] = NodeVar(n)]
GetOrCreateInst(w, n, over) ==
  IF w.inst[n] # None THEN w
  ELSE IF w.split[Split(n)] # None THEN [w EXCEPT !.inst[n] = w.split[Split(n)]]
  ELSE [Let(w, NodeVar(n), Wiring(w, n, over))
          EXCEPT !.inst[n] = NodeVar(n), !.split[Split(n)] = NodeVar(n)]

(* What the next component in the chain is wired to.                        *)
Latest(w, i, v) == [w EXCEPT !.last = v, !.over = Wire(i, v)]

(* create_tier1_mdl: the middleware once, then its adapter.                 *)
EmitRealNoConfig(w, m) ==   \* mutant: the config provider is not emitted
  IF m \in w.emitted THEN w
  ELSE Let([w EXCEPT !.emitted = @ \union {m}], MdlVar(m),
           IF m \in Configured THEN {Wire("config", ConfigVar(m))} ELSE {})
EmitReal(w, m) ==
  IF m \in w.emitted THEN w
  ELSE LET w1 == [w EXCEPT !.emitted = @ \union {m}]
       IN  IF m \in Configured
           THEN Let(Let(w1, ConfigVar(m), {}), MdlVar(m), {Wire("config", ConfigVar(m))})
           ELSE Let(w1, MdlVar(m), {})
CreateMdl(w, m, i) ==
  IF m \in Adapted
  THEN Latest(Let(EmitReal(w, m), AdapterVar(m, i),
                  {Wire(i, w.last), Wire("hooks", MdlVar(m))}), i, AdapterVar(m, i))
  ELSE Latest(Let(w, MdlVar(m), {Wire(i, w.last)}), i, MdlVar(m))

-----------------------------------------------------------------------------
Init ==
  /\ \E k \in DOMAIN Inputs : \E x \in Inputs[k] :
       /\ imports = x.imports /\ exports = x.exports
       /\ rules = x.rules /\ shimOf = x.shimOf
  /\ pc = "chains"
  /\ at = <<NumNodes, 1>>
  /\ growing = <<>>
  /\ chains = <<>>
  /\ wac = [lines |-> <<>>, inst |-> [n \in Nodes |-> None],
            split |-> [s \in Nodes \union {Root} |-> None], emitted |-> {},
            last |-> None, over |-> None]
  /\ todo = <<>>
  /\ fanVars = [n \in Nodes |-> {}]
  /\ outer = [n \in Nodes |-> None]
  /\ deferred = <<>>
  /\ overrides = {}
  /\ exported = [i \in Ifaces |-> None]

(* The chain pass: from the largest node id down, each of its imports.      *)
Cursor == IfaceOrder[at[2]]
NextImport ==
  /\ at' = IF at[2] < Len(IfaceOrder) THEN <<at[1], at[2] + 1>> ELSE <<at[1] - 1, 1>>
  /\ UNCHANGED <<input, wac, todo, routes>>

SkipImport ==
  /\ pc = "chains" /\ at[1] > 0 /\ growing = <<>>
  /\ imports[at[1]][Cursor] = Host \/ Cursor \in Planned
  /\ NextImport
  /\ UNCHANGED <<pc, planned>>

StartChain ==
  /\ pc = "chains" /\ at[1] > 0 /\ growing = <<>>
  /\ imports[at[1]][Cursor] # Host /\ Cursor \notin Planned
  /\ growing' = <<imports[at[1]][Cursor], at[1]>>
  /\ UNCHANGED <<input, pc, at, chains, wac, todo, routes>>

GrowChain ==
  /\ pc = "chains" /\ growing # <<>>
  /\ imports[growing[1]][Cursor] # Host
  /\ growing' = <<imports[growing[1]][Cursor]>> \o growing
  /\ UNCHANGED <<input, pc, at, chains, wac, todo, routes>>

CloseChain ==
  /\ pc = "chains" /\ growing # <<>>
  /\ imports[growing[1]][Cursor] = Host
  /\ chains' = Append(chains, NewChain(Cursor, growing))
  /\ growing' = <<>>
  /\ NextImport
  /\ UNCHANGED pc

(* ... then the exports that no chain handles.                              *)
Standalone ==
  /\ pc = "chains" /\ at[1] = 0
  /\ chains' = IF exports[Cursor] = Host \/ Cursor \in Handled THEN chains
               ELSE Append(chains, NewChain(Cursor, <<exports[Cursor]>>))
  /\ at' = IF at[2] < Len(IfaceOrder) THEN <<0, at[2] + 1>> ELSE <<1, 1>>
  /\ pc' = IF at[2] < Len(IfaceOrder) THEN "chains" ELSE "rules"
  /\ UNCHANGED <<input, growing, wac, todo, routes>>

ApplyRule ==
  /\ pc = "rules" /\ at[1] <= Len(rules)
  /\ chains' = [k \in DOMAIN chains |-> WithRule(rules[at[1]], chains[k])]
  /\ at' = <<at[1] + 1, 1>>
  /\ UNCHANGED <<input, pc, growing, wac, todo, routes>>

RulesApplied ==
  /\ pc = "rules" /\ at[1] > Len(rules)
  /\ pc' = "providers"
  /\ UNCHANGED <<input, at, planned, wac, todo, routes>>

(* The pure providers, in ascending order.                                  *)
Unmade == {n \in PureProviders : wac.inst[n] = None}
PreInstantiate(n) ==
  /\ pc = "providers"
  /\ n \in Unmade /\ \A m \in Unmade : n <= m
  /\ wac' = GetOrCreateInst(wac, n, None)
  /\ UNCHANGED <<input, pc, at, planned, todo, routes>>

StartWalk ==
  /\ pc = "providers" /\ Unmade = {}
  /\ at' = <<1, 1>>
  /\ pc' = IF chains = <<>> THEN "fanin" ELSE "walk"
  /\ UNCHANGED <<input, planned, wac, todo, routes>>

-----------------------------------------------------------------------------
(* The emission pass, one chain position at a time.                         *)
Chain       == chains[at[1]]
Node        == Chain.nodes[at[2]]
Plan        == Chain.plan[at[2]]
IsLast      == at[2] = Len(Chain.nodes)
IsFanInLast == IsLast /\ Node \in FanIn

Advance ==
  /\ at' = IF IsLast THEN <<at[1] + 1, 1>> ELSE <<at[1], at[2] + 1>>
  /\ pc' = IF IsLast /\ at[1] = Len(chains) THEN "fanin" ELSE "walk"

(* A top-level export of a fan-in consumer: its middleware comes later.     *)
DeferInject ==
  /\ pc = "walk" /\ IsFanInLast /\ Len(Chain.nodes) = 1
  /\ deferred' = IF Plan = <<>> THEN deferred
                 ELSE Append(deferred, [node |-> Node, iface |-> Chain.iface, mdls |-> Plan])
  /\ Advance
  /\ UNCHANGED <<input, planned, wac, todo, fanVars, outer, overrides, exported>>

(* Create the node at the cursor; a fan-in consumer only when all of its    *)
(* chains are done.  reverse_set: the last middleware declared comes first, *)
(* innermost.                                                               *)
Placed(w, n, i) == LET v == GetOrCreateInst(w, n, w.over) IN Latest(v, i, v.inst[n])
Place ==
  /\ pc = "walk" /\ ~IsFanInLast
  /\ wac' = Placed(wac, Node, Chain.iface)
  /\ todo' = Reverse(Plan)
  /\ pc' = "inject"
  /\ UNCHANGED <<input, at, planned, routes>>

ReachFanIn ==
  /\ pc = "walk" /\ IsFanInLast /\ Len(Chain.nodes) > 1
  /\ todo' = Reverse(Plan)
  /\ pc' = "inject"
  /\ UNCHANGED <<input, at, planned, wac, routes>>

Target == IF pc = "inject" THEN Chain.iface ELSE Head(deferred).iface
InjectNext ==
  /\ pc \in {"inject", "drain"} /\ todo # <<>>
  /\ wac' = CreateMdl(wac, Head(todo), Target)
  /\ todo' = Tail(todo)
  /\ UNCHANGED <<input, pc, at, planned, routes>>

(* What the next chains, or the exports, must know of this position.        *)
LeaveFanInForgets ==   \* mutant: the consumer is deferred but not recorded
  /\ pc = "inject" /\ todo = <<>> /\ IsFanInLast
  /\ Advance
  /\ UNCHANGED <<input, planned, wac, todo, routes>>
LeaveFanIn ==
  /\ pc = "inject" /\ todo = <<>> /\ IsFanInLast
  /\ fanVars' = [fanVars EXCEPT ![Node] = @ \union {Wire(Chain.iface, wac.last)}]
  /\ Advance
  /\ UNCHANGED <<input, planned, wac, todo, outer, deferred, overrides, exported>>

Leave ==
  /\ pc = "inject" /\ todo = <<>> /\ ~IsFanInLast
  /\ outer' = IF IsLast THEN [outer EXCEPT ![Node] = wac.last] ELSE outer
  /\ Advance
  /\ UNCHANGED <<input, planned, wac, todo, fanVars, deferred, overrides, exported>>

-----------------------------------------------------------------------------
(* The deferred instantiations, in the order of a hash map.                 *)
Waiting == {n \in Nodes : fanVars[n] # {} /\ outer[n] = None}
FanInSourceRaw(n, i) == wac.inst[imports[n][i]]   \* mutant: past the middleware
FanInSource(n, i) ==
  IF \E f \in fanVars[n] : f.iface = i THEN (CHOOSE f \in fanVars[n] : f.iface = i).from
  ELSE wac.inst[imports[n][i]]
FanInWiring(n) ==
  {Wire(i, FanInSource(n, i)) : i \in {j \in Internal(n) : FanInSource(n, j) # None}}

InstantiateFanIn(n) ==
  /\ pc = "fanin" /\ n \in Waiting
  /\ LET v == IF wac.inst[n] = None THEN NodeVar(n) ELSE wac.inst[n]
     IN  /\ wac' = [Let(wac, v, FanInWiring(n)) EXCEPT !.inst[n] = v]
         /\ outer' = [outer EXCEPT ![n] = v]
  /\ UNCHANGED <<input, pc, at, planned, todo, fanVars, deferred, overrides, exported>>

(* The deferred top-level injects; each overrides one export line.          *)
StartDrainUnreversed ==   \* mutant: declared order instead of innermost first
  /\ pc = "fanin" /\ Waiting = {} /\ deferred # <<>>
  /\ wac' = [wac EXCEPT !.last = wac.inst[Head(deferred).node]]
  /\ todo' = Head(deferred).mdls
  /\ pc' = "drain"
  /\ UNCHANGED <<input, at, planned, routes>>
StartDrain ==
  /\ pc = "fanin" /\ Waiting = {} /\ deferred # <<>>
  /\ LET d == Head(deferred)
     IN  IF wac.inst[d.node] = None
         THEN pc' = "bailed" /\ UNCHANGED <<wac, todo>>
         ELSE /\ wac' = [wac EXCEPT !.last = wac.inst[d.node]]
              /\ todo' = Reverse(d.mdls)
              /\ pc' = "drain"
  /\ UNCHANGED <<input, at, planned, routes>>

FinishDrain ==
  /\ pc = "drain" /\ todo = <<>>
  /\ overrides' = overrides \union
        {[node |-> Head(deferred).node, iface |-> Head(deferred).iface, var |-> wac.last]}
  /\ deferred' = Tail(deferred)
  /\ pc' = "fanin"
  /\ UNCHANGED <<input, at, planned, wac, todo, fanVars, outer, exported>>

StartExports ==
  /\ pc = "fanin" /\ Waiting = {} /\ deferred = <<>>
  /\ at' = <<1, 1>>
  /\ pc' = "exports"
  /\ UNCHANGED <<input, planned, wac, todo, routes>>

(* An export handled by a chain that does not end in its node is taken for  *)
(* a shim's and skipped.                                                    *)
Skipped(i) ==
  exports[i] \in {Host} \union {n \in Nodes : i \in Handled /\ outer[n] = None}
Overriding(n, i) == {o \in overrides : o.node = n /\ o.iface = i}
EmitExport(i) ==
  /\ pc = "exports" /\ at[1] <= Len(IfaceOrder) /\ i = IfaceOrder[at[1]]
  /\ LET n == Resolve(exports[i])
     IN  \/ /\ Skipped(i)
            /\ UNCHANGED <<wac, exported>>
         \/ /\ ~Skipped(i) /\ Overriding(n, i) # {}
            /\ \E o \in Overriding(n, i) : exported' = [exported EXCEPT ![i] = o.var]
            /\ UNCHANGED wac
         \/ /\ ~Skipped(i) /\ Overriding(n, i) = {} /\ outer[n] # None
            /\ exported' = [exported EXCEPT ![i] = outer[n]]
            /\ UNCHANGED wac
         \/ /\ ~Skipped(i) /\ Overriding(n, i) = {} /\ outer[n] = None
            /\ wac' = GetOrCreateInst(wac, n, None)
            /\ exported' = [exported EXCEPT ![i] = wac'.inst[n]]
  /\ at' = <<at[1] + 1, 1>>
  /\ UNCHANGED <<input, pc, planned, todo, fanVars, outer, deferred, overrides>>

Finish ==
  /\ pc = "exports" /\ at[1] > Len(IfaceOrder)
  /\ pc' = "done"
  /\ UNCHANGED <<input, at, planned, wac, todo, routes>>

Terminated == pc \in {"done", "bailed"} /\ UNCHANGED vars

Next ==
  \/ SkipImport \/ StartChain \/ GrowChain \/ CloseChain \/ Standalone
  \/ ApplyRule \/ RulesApplied
  \/ \E n \in Nodes : PreInstantiate(n)
  \/ StartWalk \/ DeferInject \/ Place \/ ReachFanIn \/ InjectNext \/ LeaveFanIn \/ Leave
  \/ \E n \in Nodes : InstantiateFanIn(n)
  \/ StartDrain \/ FinishDrain \/ StartExports
  \/ \E i \in Ifaces : EmitExport(i)
  \/ Finish \/ Terminated

Spec == Init /\ [][Next]_vars

-----------------------------------------------------------------------------
Lines == wac.lines
Defining(v) == {k \in DOMAIN Lines : Lines[k].var = v}

UniqueLets == \A j, k \in DOMAIN Lines : Lines[j].var = Lines[k].var => j = k

(* apply_rule_before: a rule that leaves out the provider matches at every  *)
(* position of a chain.  The walk makes a node it finds inside a chain, the *)
(* fan-in pass makes every node that consumes two interfaces.               *)
ProvidersNamed ==
  \A k \in DOMAIN rules :
    rules[k].kind = "before" /\ rules[k].provider = AnyNode => rules[k].iface \notin Handled
FanInsEnd ==
  \A n \in Nodes : \A i, j \in Internal(n) :
    i # j => \A m \in Nodes, k \in Ifaces : imports[m][k] # n

(* Every name is an instance of its own: wac rejects a second `let' of it.  *)
(* So it is unless a rule leaves out the provider on an interface that some *)
(* node consumes, or a node imports from one that consumes two interfaces.  *)
LetsUnique == ProvidersNamed /\ FanInsEnd => UniqueLets

(* WAC resolves a name where it stands: what a line wires, an earlier line  *)
(* has defined; what an export line exports, some line has.                 *)
DefinedBeforeUse ==
  /\ \A k \in DOMAIN Lines : \A u \in Lines[k].uses : \E j \in 1..(k - 1) : Lines[j].var = u.from
  /\ \A i \in Ifaces : exported[i] # None => Defining(exported[i]) # {}

(* What the rules ask for on the edge where `outerNode' imports i from      *)
(* `inner': docs/splice-config.md, in declaration order, first outermost.   *)
(* In front of an export there is no edge, and only a before-rule asks.     *)
Asks(r, i, inner, outerNode) ==
  /\ r.iface = i
  /\ \/ r.kind = "before" /\ r.provider \in {AnyNode, inner}
     \/ r.kind = "between" /\ outerNode # Host /\ r.inner = inner /\ r.outer = outerNode
RequestedUpTo(i, inner, outerNode) ==
  LET asked[k \in 0..Len(rules)] ==
        IF k = 0 THEN <<>>
        ELSE IF Asks(rules[k], i, inner, outerNode) THEN asked[k - 1] \o rules[k].mdls
        ELSE asked[k - 1]
  IN  asked
Requested(i, inner, outerNode) == RequestedUpTo(i, inner, outerNode)[Len(rules)]

(* The variable that stands for the a-th of the middleware ms on interface  *)
(* i, or behind the last of them for u.                                     *)
Stage(i, ms, u, a) ==
  IF a > Len(ms) THEN u ELSE IF ms[a] \in Adapted THEN AdapterVar(ms[a], i) ELSE MdlVar(ms[a])
(* v is made with its import of i wired to x, and to nothing else.          *)
Wired(w, v, i, x) ==
  \E k \in DOMAIN w.lines : w.lines[k].var = v /\ {u \in w.lines[k].uses : u.iface = i} = {Wire(i, x)}
(* v is the outermost middleware asked for on the edge; each is wired to    *)
(* the next and the innermost to the provider.                              *)
Spliced(w, v, i, inner, outerNode) ==
  LET ms == Requested(i, inner, outerNode)
      u  == w.inst[Resolve(inner)]
  IN  /\ u # None /\ v = Stage(i, ms, u, 1)
      /\ \A a \in DOMAIN ms : Wired(w, Stage(i, ms, u, a), i, Stage(i, ms, u, a + 1))

(* Every edge of the graph is there again, through exactly the middleware   *)
(* the rules ask for on it: nothing matched gives the composition back      *)
(* unchanged.                                                               *)
EdgesSpliced ==
  pc = "done" => \A n \in Nodes : \A i \in Internal(n) : \E v \in Variables :
    Wired(wac, wac.inst[n], i, v) /\ Spliced(wac, v, i, imports[n][i], n)

(* Every export is there again, in front of it what a before-rule asks for. *)
ExportsSpliced ==
  pc = "done" => \A i \in Ifaces : exports[i] # Host =>
    exported[i] # None /\ Spliced(wac, exported[i], i, exports[i], Host)

(* The compositions on which that is kept.  The consumers of an interface   *)
(* stand in one line, in front of a node that imports from the host only; a *)
(* consumer of two interfaces ends its lines; no node is a shim; rules name *)
(* their providers, and no before-rule names a consumer of two interfaces   *)
(* as the provider of one it imports.                                       *)
Ends(i) == {n \in Nodes : imports[n][i] # Host /\ \A m \in Nodes : imports[m][i] # n}
Lined ==
  /\ \A i \in Ifaces : \A m, n \in Ends(i) : m = n
  /\ \A n \in Nodes : \A i \in Internal(n) :
       imports[imports[n][i]][i] = Host => Internal(imports[n][i]) = {}
FanInsUnnamed ==
  \A k \in DOMAIN rules, n \in Nodes : \A i, j \in Internal(n) :
    i # j => ~(rules[k].kind = "before" /\ rules[k].provider = n /\ rules[k].iface = i)
Ordinary ==
  Lined /\ FanInsEnd /\ ProvidersNamed /\ FanInsUnnamed /\ \A n \in Nodes : shimOf[n] = None
(* What is imported as well as exported is exported by the end of its line; *)
(* a node exports one interface.                                            *)
OrdinaryExports ==
  /\ \A i \in Handled : exports[i] # Host => exports[i] \in Ends(i)
  /\ \A i, j \in Ifaces : exports[i] = exports[j] /\ exports[i] # Host => i = j

(* On ordinary compositions every edge comes back through the middleware    *)
(* asked for.                                                               *)
RegularEdgesSpliced == Ordinary => EdgesSpliced
(* ... and with ordinary exports, so does every export.                     *)
RegularExportsSpliced == Ordinary /\ OrdinaryExports => ExportsSpliced

(* "no var was created (fan-in pass should have instantiated it); please    *)
(* file a bug": the bail of the deferred injects is out of reach.           *)
NoInternalError == pc # "bailed"

(* get_or_create_inst: nodes that resolve to the same split share one       *)
(* instance, "separate `new' invocations would create independent runtime   *)
(* instances with diverged resource type identities".  Fan-in consumers are *)
(* made by another pass, which does not look their split up.                *)
OneInstancePerSplit ==
  \A m, n \in Nodes \ FanIn : Split(m) = Split(n) /\ wac.inst[m] # None /\ wac.inst[n] # None =>
    wac.inst[m] = wac.inst[n]
=============================================================================
