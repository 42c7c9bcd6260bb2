---------------------------- MODULE WacPlanProofs ----------------------------
(***************************************************************************)
(* Proofs about WacPlan, for every graph, every list of rules and every    *)
(* shim map the assumptions of WacPlan admit.                              *)
(***************************************************************************)
EXTENDS WacPlan, TLAPS

-----------------------------------------------------------------------------
(* The builder.  What w holds has its type; a line wires only what earlier  *)
(* lines define; and every variable w remembers is defined.                 *)
Wires == [iface : Ifaces \union {"config", "hooks"}, from : Variables]
LineType == [var : Variables, uses : SUBSET Wires]
WacType ==
  [lines : Seq(LineType), inst : [Nodes -> Variables \union {None}],
   split : [Nodes \union {Root} -> Variables \union {None}], emitted : SUBSET Mdls,
   last : Variables \union {None}, over : Wires \union {None}]

Defined(w, v) == \E j \in 1..Len(w.lines) : w.lines[j].var = v
LinesInOrder(w) ==
  \A k \in 1..Len(w.lines) : \A u \in w.lines[k].uses : \E j \in 1..(k - 1) : w.lines[j].var = u.from
Remembered(w) ==
  /\ \A n \in Nodes : w.inst[n] # None => Defined(w, w.inst[n])
  /\ \A s \in Nodes \union {Root} : w.split[s] # None => Defined(w, w.split[s])
  /\ \A m \in w.emitted : Defined(w, MdlVar(m))
  /\ w.last # None => Defined(w, w.last)
  /\ w.over # None => Defined(w, w.over.from)
Builder(w) == w \in WacType /\ LinesInOrder(w) /\ Remembered(w)

(* What a step of the builder never does: forget a definition, or give a    *)
(* node or a split another instance.                                        *)
Extends(w, x) ==
  /\ \A v : Defined(w, v) => Defined(x, v)
  /\ \A n \in Nodes : w.inst[n] # None => x.inst[n] = w.inst[n]
  /\ \A s \in Nodes \union {Root} : w.split[s] # None => x.split[s] = w.split[s]

LEMMA VariableTypes ==
  /\ \A n \in Nodes : NodeVar(n) \in Variables
  /\ \A m \in Mdls : MdlVar(m) \in Variables /\ ConfigVar(m) \in Variables
  /\ \A m \in Mdls, i \in Ifaces : AdapterVar(m, i) \in Variables
BY DEF Variables

LEMMA AppendFacts ==
  ASSUME NEW S, NEW s \in Seq(S), NEW e \in S
  PROVE  /\ Append(s, e) \in Seq(S) /\ Len(Append(s, e)) = Len(s) + 1 /\ Len(s) \in Nat
         /\ Append(s, e)[Len(s) + 1] = e
         /\ \A j \in 1..Len(s) : Append(s, e)[j] = s[j]
OBVIOUS

(* Another line, wired to what is there.                                    *)
LEMMA LetBuilds ==
  ASSUME NEW w, Builder(w), NEW v \in Variables, NEW uses \in SUBSET Wires,
         \A u \in uses : Defined(w, u.from)
  PROVE  /\ Builder(Let(w, v, uses)) /\ Extends(w, Let(w, v, uses)) /\ Defined(Let(w, v, uses), v)
         /\ Let(w, v, uses).inst = w.inst /\ Let(w, v, uses).split = w.split
         /\ Let(w, v, uses).emitted = w.emitted
         /\ Let(w, v, uses).last = w.last /\ Let(w, v, uses).over = w.over
<1> DEFINE line == [var |-> v, uses |-> uses]
           x == Let(w, v, uses)
<1>1. w \in WacType /\ w.lines \in Seq(LineType) /\ line \in LineType
  BY DEF Builder, WacType, LineType
<1>2. x = [w EXCEPT !.lines = Append(w.lines, line)]
  BY DEF Let
<1>3. /\ x \in WacType /\ x.lines = Append(w.lines, line)
      /\ x.inst = w.inst /\ x.split = w.split /\ x.emitted = w.emitted
      /\ x.last = w.last /\ x.over = w.over
  <2>1. Append(w.lines, line) \in Seq(LineType)
    BY <1>1, AppendFacts
  <2> HIDE DEF x, line
  <2> QED BY <1>1, <1>2, <2>1 DEF WacType
<1>4. /\ Len(x.lines) = Len(w.lines) + 1 /\ Len(w.lines) \in Nat
      /\ x.lines[Len(w.lines) + 1] = line
      /\ \A j \in 1..Len(w.lines) : x.lines[j] = w.lines[j]
  BY <1>1, <1>3, AppendFacts
<1>5. \A u : Defined(w, u) => Defined(x, u)
  BY <1>4 DEF Defined
<1>6. Defined(x, v)
  BY <1>4 DEF Defined
<1>7. LinesInOrder(x)
  <2> SUFFICES ASSUME NEW k \in 1..Len(x.lines), NEW u \in x.lines[k].uses
               PROVE  \E j \in 1..(k - 1) : x.lines[j].var = u.from
    BY DEF LinesInOrder
  <2>1. CASE k \in 1..Len(w.lines)
    <3>1. PICK j \in 1..(k - 1) : w.lines[j].var = u.from
      BY <1>4, <2>1 DEF Builder, LinesInOrder
    <3> QED BY <1>4, <2>1, <3>1
  <2>2. CASE k = Len(w.lines) + 1
    <3>1. PICK j \in 1..Len(w.lines) : w.lines[j].var = u.from
      BY <1>4, <2>2 DEF Defined
    <3> QED BY <1>4, <2>2, <3>1
  <2> QED BY <1>4, <2>1, <2>2
<1>8. Remembered(x)
  BY <1>3, <1>5 DEF Builder, Remembered
<1> HIDE DEF x, line
<1> QED BY <1>3, <1>5, <1>6, <1>7, <1>8 DEF Builder, Extends, x

LEMMA ExtendsTrans ==
  ASSUME NEW w, NEW x, NEW y, Extends(w, x), Extends(x, y)
  PROVE  Extends(w, y)
BY DEF Extends

(* What a new node is wired to is there.                                    *)
GraphType ==
  /\ imports \in [Nodes -> [Ifaces -> {Host} \union Nodes]]
  /\ shimOf \in [Nodes -> {None, Root} \union Nodes]

LEMMA SplitType == ASSUME GraphType, NEW n \in Nodes PROVE Split(n) \in Nodes \union {Root}
BY DEF GraphType, Split

LEMMA WiringDefined ==
  ASSUME GraphType, NEW w, Builder(w), NEW n \in Nodes, NEW over \in Wires \union {None},
         over # None => Defined(w, over.from)
  PROVE  Wiring(w, n, over) \in SUBSET Wires /\ \A u \in Wiring(w, n, over) : Defined(w, u.from)
<1>1. CASE over = None
  BY <1>1 DEF Wiring
<1>2. CASE over # None
  <2> SUFFICES ASSUME NEW u \in Wiring(w, n, over) PROVE u \in Wires /\ Defined(w, u.from)
    OBVIOUS
  <2>1. PICK i \in Internal(n) : SourceOf(w, n, i, over) # None /\ u = Wire(i, SourceOf(w, n, i, over))
    BY <1>2 DEF Wiring
  <2>2. i \in Ifaces /\ imports[n][i] \in Nodes
    BY DEF Internal, GraphType
  <2>3. SourceOf(w, n, i, over) \in Variables /\ Defined(w, SourceOf(w, n, i, over))
    <3>1. CASE over.iface = i
      BY <1>2, <3>1 DEF SourceOf, Wires
    <3>2. CASE over.iface # i
      <4>1. SourceOf(w, n, i, over) = w.inst[imports[n][i]]
        BY <3>2 DEF SourceOf
      <4> QED BY <2>1, <2>2, <4>1 DEF Builder, WacType, Remembered
    <3> QED BY <3>1, <3>2
  <2> QED BY <2>1, <2>2, <2>3 DEF Wire, Wires
<1> QED BY <1>1, <1>2

(* The instance of a node: made once, one for all nodes of its split.       *)
LEMMA GetOrCreateBuilds ==
  ASSUME GraphType, NEW w, Builder(w), NEW n \in Nodes, NEW over \in Wires \union {None},
         over # None => Defined(w, over.from)
  PROVE  LET x == GetOrCreateInst(w, n, over)
         IN  /\ Builder(x) /\ Extends(w, x) /\ x.last = w.last /\ x.over = w.over
             /\ x.inst[n] # None /\ Defined(x, x.inst[n])
             /\ \A m \in Nodes \ {n} : x.inst[m] = w.inst[m]
             /\ w.inst[n] = None => x.inst[n] = x.split[Split(n)]
<1> DEFINE x == GetOrCreateInst(w, n, over)
<1>0. w \in WacType /\ Split(n) \in Nodes \union {Root} /\ NodeVar(n) \in Variables
  BY SplitType, VariableTypes DEF Builder
<1>1. CASE w.inst[n] # None
  BY <1>1 DEF GetOrCreateInst, Extends, Builder, Remembered
<1>2. CASE w.inst[n] = None /\ w.split[Split(n)] # None
  <2>1. x = [w EXCEPT !.inst[n] = w.split[Split(n)]]
    BY <1>2 DEF GetOrCreateInst
  <2> HIDE DEF x
  <2>2. /\ x \in WacType /\ x.inst = [w.inst EXCEPT ![n] = w.split[Split(n)]]
        /\ x.lines = w.lines /\ x.split = w.split /\ x.emitted = w.emitted
        /\ x.last = w.last /\ x.over = w.over
    BY <1>0, <2>1 DEF WacType
  <2>3. x.inst[n] = w.split[Split(n)] /\ \A m \in Nodes \ {n} : x.inst[m] = w.inst[m]
    BY <1>0, <2>2 DEF WacType
  <2>4. \A v : Defined(x, v) <=> Defined(w, v)
    BY <2>2 DEF Defined
  <2>5. LinesInOrder(x)
    BY <2>2 DEF Builder, LinesInOrder
  <2>6. Remembered(x)
    BY <1>0, <1>2, <2>2, <2>3, <2>4 DEF Builder, Remembered
  <2>7. Extends(w, x)
    BY <1>2, <2>2, <2>3, <2>4 DEF Extends
  <2>8. Defined(x, x.inst[n])
    BY <1>2, <2>3, <2>6 DEF Remembered
  <2> QED BY <1>2, <2>2, <2>3, <2>5, <2>6, <2>7, <2>8 DEF Builder, x
<1>3. CASE w.inst[n] = None /\ w.split[Split(n)] = None
  <2> DEFINE y == Let(w, NodeVar(n), Wiring(w, n, over))
  <2>1. x = [y EXCEPT !.inst[n] = NodeVar(n), !.split[Split(n)] = NodeVar(n)]
    BY <1>3 DEF GetOrCreateInst
  <2>2. /\ Builder(y) /\ Extends(w, y) /\ Defined(y, NodeVar(n))
        /\ y.inst = w.inst /\ y.split = w.split /\ y.last = w.last /\ y.over = w.over
    BY <1>0, WiringDefined, LetBuilds
  <2>3. y \in WacType
    BY <2>2 DEF Builder
  <2> HIDE DEF x, y
  <2>4. /\ x \in WacType /\ x.lines = y.lines /\ x.emitted = y.emitted
        /\ x.inst = [y.inst EXCEPT ![n] = NodeVar(n)]
        /\ x.split = [y.split EXCEPT ![Split(n)] = NodeVar(n)]
        /\ x.last = y.last /\ x.over = y.over
    BY <1>0, <2>1, <2>3 DEF WacType
  <2>5. /\ x.inst[n] = NodeVar(n) /\ \A m \in Nodes \ {n} : x.inst[m] = y.inst[m]
        /\ x.split[Split(n)] = NodeVar(n)
        /\ \A t \in Nodes \union {Root} : t # Split(n) => x.split[t] = y.split[t]
    BY <1>0, <2>3, <2>4 DEF WacType
  <2>6. \A v : Defined(x, v) <=> Defined(y, v)
    BY <2>4 DEF Defined
  <2>7. LinesInOrder(x)
    BY <2>2, <2>4 DEF Builder, LinesInOrder
  <2>8. Remembered(x)
    BY <2>2, <2>4, <2>5, <2>6 DEF Builder, Remembered
  <2>9. Extends(w, x)
    BY <1>3, <2>2, <2>5, <2>6 DEF Extends
  <2>10. NodeVar(n) # None
    BY <1>0, NoneAssumption
  <2> QED BY <2>2, <2>4, <2>5, <2>6, <2>7, <2>8, <2>9, <2>10 DEF Builder, x
<1> QED BY <1>1, <1>2, <1>3

(* What comes next is wired to v.                                           *)
LEMMA LatestBuilds ==
  ASSUME NEW w, Builder(w), NEW i \in Ifaces, NEW v \in Variables, Defined(w, v)
  PROVE  LET x == Latest(w, i, v)
         IN  Builder(x) /\ Extends(w, x) /\ x.last = v /\ x.inst = w.inst /\ x.split = w.split
<1> DEFINE x == Latest(w, i, v)
<1>1. w \in WacType /\ Wire(i, v) \in Wires /\ Wire(i, v).from = v
  BY DEF Builder, Wire, Wires
<1>2. x = [w EXCEPT !.last = v, !.over = Wire(i, v)]
  BY DEF Latest
<1> HIDE DEF x
<1>3. /\ x \in WacType /\ x.lines = w.lines /\ x.inst = w.inst /\ x.split = w.split
      /\ x.emitted = w.emitted /\ x.last = v /\ x.over = Wire(i, v)
  BY <1>1, <1>2 DEF WacType
<1>4. \A u : Defined(x, u) <=> Defined(w, u)
  BY <1>3 DEF Defined
<1>5. LinesInOrder(x)
  BY <1>3 DEF Builder, LinesInOrder
<1>6. Remembered(x)
  BY <1>1, <1>3, <1>4 DEF Builder, Remembered
<1> QED BY <1>3, <1>4, <1>5, <1>6 DEF Builder, Extends, x

(* A tier-1 or tier-2 middleware, with its config provider, comes once.     *)
LEMMA EmitRealBuilds ==
  ASSUME NEW w, Builder(w), NEW m \in Mdls
  PROVE  LET x == EmitReal(w, m)
         IN  /\ Builder(x) /\ Extends(w, x) /\ Defined(x, MdlVar(m))
             /\ x.last = w.last /\ x.inst = w.inst /\ x.split = w.split
<1> DEFINE x == EmitReal(w, m)
<1>0. MdlVar(m) \in Variables /\ ConfigVar(m) \in Variables
  BY VariableTypes
<1>1. CASE m \in w.emitted
  BY <1>1 DEF EmitReal, Builder, Remembered, Extends
<1>2. CASE m \notin w.emitted
  <2> DEFINE e  == [w EXCEPT !.emitted = w.emitted \union {m}]
             y  == IF m \in Configured THEN Let(w, ConfigVar(m), {}) ELSE w
             us == IF m \in Configured THEN {Wire("config", ConfigVar(m))} ELSE {}
             z  == Let(y, MdlVar(m), us)
  <2>1. /\ Builder(y) /\ Extends(w, y) /\ y.last = w.last /\ y.over = w.over
        /\ y.inst = w.inst /\ y.split = w.split /\ y.emitted = w.emitted
        /\ m \in Configured => Defined(y, ConfigVar(m))
    <3>1. CASE m \in Configured
      BY <1>0, <3>1, LetBuilds
    <3>2. CASE m \notin Configured
      BY <3>2 DEF Extends
    <3> QED BY <3>1, <3>2
  <2>2. us \in SUBSET Wires /\ \A u \in us : Defined(y, u.from)
    BY <1>0, <2>1 DEF Wires, Wire
  <2>3. /\ Builder(z) /\ Extends(y, z) /\ Defined(z, MdlVar(m))
        /\ z.last = w.last /\ z.over = w.over
        /\ z.inst = w.inst /\ z.split = w.split /\ z.emitted = w.emitted
    <3> HIDE DEF y, us
    <3> QED BY <1>0, <2>1, <2>2, LetBuilds
  <2>4. x = [z EXCEPT !.emitted = z.emitted \union {m}]
    <3>1. w \in WacType /\ z \in WacType /\ z.emitted = w.emitted
      BY <2>3 DEF Builder
    <3> QED BY <1>2, <3>1 DEF EmitReal, Let, WacType
  <2> HIDE DEF x, y, z
  <2>5. /\ x \in WacType /\ x.lines = z.lines /\ x.inst = z.inst /\ x.split = z.split
        /\ x.emitted = z.emitted \union {m} /\ x.last = z.last /\ x.over = z.over
    BY <2>3, <2>4 DEF Builder, WacType
  <2>6. \A u : Defined(x, u) <=> Defined(z, u)
    BY <2>5 DEF Defined
  <2>7. LinesInOrder(x)
    BY <2>3, <2>5 DEF Builder, LinesInOrder
  <2>8. Remembered(x)
    BY <2>3, <2>5, <2>6 DEF Builder, Remembered
  <2>9. Extends(w, x)
    BY <2>1, <2>3, <2>5, <2>6 DEF Extends
  <2> QED BY <2>3, <2>5, <2>6, <2>7, <2>8, <2>9 DEF Builder, x
<1> QED BY <1>1, <1>2

(* A middleware in front of what came last.                                 *)
LEMMA CreateMdlBuilds ==
  ASSUME NEW w, Builder(w), w.last # None, NEW m \in Mdls, NEW i \in Ifaces
  PROVE  LET x == CreateMdl(w, m, i)
         IN  Builder(x) /\ Extends(w, x) /\ x.last # None /\ x.inst = w.inst /\ x.split = w.split
<1> DEFINE x == CreateMdl(w, m, i)
<1>0. /\ MdlVar(m) \in Variables /\ AdapterVar(m, i) \in Variables
      /\ MdlVar(m) # None /\ AdapterVar(m, i) # None
      /\ w.last \in Variables /\ Defined(w, w.last)
  BY VariableTypes, NoneAssumption DEF Builder, WacType, Remembered
<1>1. CASE m \in Adapted
  <2> DEFINE y  == EmitReal(w, m)
             us == {Wire(i, w.last), Wire("hooks", MdlVar(m))}
             z  == Let(y, AdapterVar(m, i), us)
  <2>1. /\ Builder(y) /\ Extends(w, y) /\ Defined(y, MdlVar(m))
        /\ y.last = w.last /\ y.inst = w.inst /\ y.split = w.split
    BY EmitRealBuilds
  <2>2. us \in SUBSET Wires /\ \A u \in us : Defined(y, u.from)
    BY <1>0, <2>1 DEF Wires, Wire, Extends
  <2>3. /\ Builder(z) /\ Extends(y, z) /\ Defined(z, AdapterVar(m, i))
        /\ z.inst = w.inst /\ z.split = w.split
    <3> HIDE DEF y, us
    <3> QED BY <1>0, <2>1, <2>2, LetBuilds
  <2>4. x = Latest(z, i, AdapterVar(m, i))
    BY <1>1, <2>1 DEF CreateMdl
  <2> HIDE DEF x, y, z
  <2>5. Builder(x) /\ Extends(z, x) /\ x.last = AdapterVar(m, i) /\ x.inst = z.inst /\ x.split = z.split
    BY <1>0, <2>3, <2>4, LatestBuilds
  <2>6. Extends(w, x)
    BY <2>1, <2>3, <2>5, ExtendsTrans
  <2> QED BY <1>0, <2>3, <2>5, <2>6 DEF x
<1>2. CASE m \notin Adapted
  <2> DEFINE us == {Wire(i, w.last)}
             z  == Let(w, MdlVar(m), us)
  <2>1. us \in SUBSET Wires /\ \A u \in us : Defined(w, u.from)
    BY <1>0 DEF Wires, Wire
  <2>2. /\ Builder(z) /\ Extends(w, z) /\ Defined(z, MdlVar(m)) /\ z.inst = w.inst /\ z.split = w.split
    <3> HIDE DEF us
    <3> QED BY <1>0, <2>1, LetBuilds
  <2>3. x = Latest(z, i, MdlVar(m))
    BY <1>2 DEF CreateMdl
  <2> HIDE DEF x, z
  <2>4. Builder(x) /\ Extends(z, x) /\ x.last = MdlVar(m) /\ x.inst = z.inst /\ x.split = z.split
    BY <1>0, <2>2, <2>3, LatestBuilds
  <2>5. Extends(w, x)
    BY <2>2, <2>4, ExtendsTrans
  <2> QED BY <1>0, <2>2, <2>4, <2>5 DEF x
<1> QED BY <1>1, <1>2

-----------------------------------------------------------------------------
(* The inductive invariant.  Types, and where the cursor stands.            *)
ChainType ==
  {c \in [iface : Ifaces, nodes : Seq(Nodes), plan : Seq(Seq(Mdls))] :
     c.nodes # <<>> /\ Len(c.plan) = Len(c.nodes)}
InjectType == [node : Nodes, iface : Ifaces, mdls : Seq(Mdls)]
OverrideType == [node : Nodes, iface : Ifaces, var : Variables]
Types ==
  /\ GraphType /\ exports \in [Ifaces -> {Host} \union Nodes] /\ rules \in Seq(Rules)
  /\ pc \in {"chains", "rules", "providers", "walk", "inject", "fanin", "drain", "exports", "done"}
  /\ at \in Nat \X Nat
  /\ growing \in Seq(Nodes) /\ chains \in Seq(ChainType)
  /\ todo \in Seq(Mdls)
  /\ fanVars \in [Nodes -> SUBSET Wires] /\ outer \in [Nodes -> Variables \union {None}]
  /\ deferred \in Seq(InjectType) /\ overrides \in SUBSET OverrideType
  /\ exported \in [Ifaces -> Variables \union {None}]
CursorInv ==
  /\ pc = "chains" => /\ at[1] \in 0..NumNodes /\ at[2] \in DOMAIN IfaceOrder
                      /\ growing # <<>> => at[1] > 0
  /\ pc \in {"rules", "exports"} => at[1] > 0
  /\ pc \in {"walk", "inject"} => at[1] \in DOMAIN chains /\ at[2] \in DOMAIN Chain.nodes
  /\ pc = "drain" => deferred # <<>>

(* What later passes remember is defined, and while middleware is put in    *)
(* front of something there is something.                                   *)
RoutesInv ==
  /\ \A n \in Nodes : \A u \in fanVars[n] : Defined(wac, u.from)
  /\ \A n \in Nodes : outer[n] # None => Defined(wac, outer[n])
  /\ \A o \in overrides : Defined(wac, o.var)
  /\ \A i \in Ifaces : exported[i] # None => Defined(wac, exported[i])
LastInv == (pc = "walk" /\ at[2] > 1) \/ pc \in {"inject", "drain"} => wac.last # None

(* Nothing is made while the chains are; a node that is no fan-in consumer  *)
(* has the instance of its split; only fan-in consumers wait for their pass. *)
EarlyInv ==
  /\ pc \in {"chains", "rules"} => \A n \in Nodes : wac.inst[n] = None
  /\ pc \in {"chains", "rules", "providers"} => deferred = <<>> /\ \A n \in Nodes : fanVars[n] = {}
SplitInv ==
  /\ \A n \in Nodes \ FanIn : wac.inst[n] # None => wac.inst[n] = wac.split[Split(n)]
  /\ \A n \in Nodes : fanVars[n] # {} => n \in FanIn

(* A consumer the walk has passed is made or waits for the fan-in pass; an  *)
(* end of a chain that is known is made; what was put off is a consumer.    *)
Passed(k, p) ==
  \/ pc \in {"fanin", "drain", "exports", "done"}
  \/ pc \in {"walk", "inject"} /\ (k < at[1] \/ (k = at[1] /\ p < at[2]))
Reached(n) == wac.inst[n] # None \/ fanVars[n] # {}
WalkInv ==
  /\ \A k \in DOMAIN chains : \A p \in DOMAIN chains[k].nodes :
       p > 1 /\ Passed(k, p) => Reached(chains[k].nodes[p])
  /\ pc = "inject" /\ ~IsFanInLast => wac.inst[Node] # None
  /\ \A n \in Nodes : outer[n] # None => wac.inst[n] # None
  /\ \A k \in DOMAIN deferred : deferred[k].node \in FanIn

Inv ==
  Builder(wac) /\ Types /\ CursorInv /\ RoutesInv /\ LastInv /\ EarlyInv /\ SplitInv /\ WalkInv

-----------------------------------------------------------------------------
(* Initially nothing is made.                                               *)
LEMMA InitInv == Init => Inv
<1> SUFFICES ASSUME Init PROVE Inv
  OBVIOUS
<1>1. wac \in WacType /\ wac.lines = <<>> /\ wac.emitted = {} /\ wac.last = None /\ wac.over = None
      /\ \A n \in Nodes : wac.inst[n] = None
      /\ \A s \in Nodes \union {Root} : wac.split[s] = None
  BY DEF Init, WacType
<1>2. Builder(wac)
  <2>1. LinesInOrder(wac)
    BY <1>1 DEF LinesInOrder
  <2>2. Remembered(wac)
    <3>1. \A n \in Nodes : wac.inst[n] = None
      BY <1>1
    <3>2. \A s \in Nodes \union {Root} : wac.split[s] = None
      BY DEF Init
    <3>3. wac.emitted = {} /\ wac.last = None /\ wac.over = None
      BY <1>1
    <3> QED BY <3>1, <3>2, <3>3 DEF Remembered
  <2> QED BY <1>1, <2>1, <2>2 DEF Builder
<1>3. Types
  <2>1. PICK k \in DOMAIN Inputs : \E x \in Inputs[k] :
          /\ imports = x.imports /\ exports = x.exports /\ rules = x.rules /\ shimOf = x.shimOf
    BY DEF Init
  <2>2. GraphType /\ exports \in [Ifaces -> {Host} \union Nodes] /\ rules \in Seq(Rules)
    BY <2>1, InputsAssumption DEF GraphType
  <2> QED BY <2>2, SizesAssumption DEF Init, Types
<1>4. CursorInv
  BY SizesAssumption DEF Init, CursorInv
<1>5. RoutesInv /\ LastInv /\ EarlyInv
  BY <1>1 DEF Init, RoutesInv, LastInv, EarlyInv
<1>6. SplitInv /\ WalkInv
  BY <1>1 DEF Init, SplitInv, WalkInv
<1> QED BY <1>2, <1>3, <1>4, <1>5, <1>6 DEF Inv

(* While the chains are made, nothing else is.                              *)
LEMMA EarlyStep ==
  ASSUME Inv, pc \in {"chains", "rules"}, pc' \in {"chains", "rules", "providers"},
         UNCHANGED <<wac, routes>>, Types', CursorInv'
  PROVE  Inv'
<1> USE DEF Inv, routes
<1>1. RoutesInv' /\ LastInv' /\ EarlyInv'
  BY DEF RoutesInv, LastInv, EarlyInv
<1>2. SplitInv'
  BY DEF EarlyInv, SplitInv
<1>3. WalkInv'
  BY DEF EarlyInv, WalkInv, Passed
<1> QED BY <1>1, <1>2, <1>3

(* A step of the builder keeps what refers to it.                           *)
LEMMA RoutesKept ==
  ASSUME RoutesInv, Extends(wac, wac'), UNCHANGED routes
  PROVE  RoutesInv'
BY DEF RoutesInv, routes, Extends
LEMMA FanInKept ==
  ASSUME chains' = chains
  PROVE  FanIn' = FanIn
BY DEF FanIn, Consumes
LEMMA SplitKept ==
  ASSUME Inv, UNCHANGED <<chains, shimOf, fanVars>>, Extends(wac, wac'),
         \A n \in Nodes : wac'.inst[n] = wac.inst[n] \/ wac'.inst[n] = wac'.split[Split(n)]
  PROVE  SplitInv'
<1>1. FanIn' = FanIn /\ \A n \in Nodes : Split(n)' = Split(n) /\ Split(n) \in Nodes \union {Root}
  BY FanInKept, SplitType DEF Split, Inv, Types
<1>2. ASSUME NEW n \in Nodes \ FanIn, wac'.inst[n] # None PROVE wac'.inst[n] = wac'.split[Split(n)]
  BY <1>1, <1>2 DEF Inv, SplitInv, Extends
<1> QED BY <1>1, <1>2 DEF Inv, SplitInv

-----------------------------------------------------------------------------
(* The chain pass and the rules.                                            *)
LEMMA CursorIface ==
  ASSUME Inv, pc = "chains"
  PROVE  Cursor \in Ifaces /\ Len(IfaceOrder) \in Nat \ {0} /\ at[2] \in 1..Len(IfaceOrder)
BY SizesAssumption DEF Inv, CursorInv, Cursor, Ifaces

LEMMA NextImportCursor ==
  ASSUME Inv, pc = "chains", at[1] > 0, NextImport
  PROVE  at' \in Nat \X Nat /\ at'[1] \in 0..NumNodes /\ at'[2] \in DOMAIN IfaceOrder
<1>1. /\ at \in Nat \X Nat /\ at[1] \in 1..NumNodes /\ NumNodes \in Nat
      /\ at[2] \in 1..Len(IfaceOrder) /\ Len(IfaceOrder) \in Nat \ {0}
  BY SizesAssumption, CursorIface DEF Inv, Types, CursorInv
<1>2. DOMAIN IfaceOrder = 1..Len(IfaceOrder)
  BY SizesAssumption
<1>3. CASE at[2] < Len(IfaceOrder)
  <2>1. at' = <<at[1], at[2] + 1>>
    BY <1>3 DEF NextImport
  <2> QED BY <1>1, <1>2, <1>3, <2>1
<1>4. CASE ~(at[2] < Len(IfaceOrder))
  <2>1. at' = <<at[1] - 1, 1>>
    BY <1>4 DEF NextImport
  <2> QED BY <1>1, <1>2, <2>1
<1> QED BY <1>3, <1>4

LEMMA SkipImportInv == ASSUME Inv, SkipImport PROVE Inv'
<1>1. at' \in Nat \X Nat /\ at'[1] \in 0..NumNodes /\ at'[2] \in DOMAIN IfaceOrder
  BY NextImportCursor DEF SkipImport
<1>2. Types' /\ CursorInv'
  BY <1>1 DEF Inv, SkipImport, NextImport, Types, GraphType, CursorInv, input, planned, routes
<1> QED BY <1>2, EarlyStep DEF SkipImport, NextImport

LEMMA StartChainInv == ASSUME Inv, StartChain PROVE Inv'
<1>1. at[1] \in Nodes /\ Cursor \in Ifaces /\ imports[at[1]][Cursor] \in Nodes
  BY CursorIface, SizesAssumption DEF Inv, StartChain, CursorInv, Types, GraphType, Nodes
<1>2. Types' /\ CursorInv'
  BY <1>1 DEF Inv, StartChain, Types, GraphType, CursorInv, input, routes
<1> QED BY <1>2, EarlyStep DEF StartChain

LEMMA GrowChainInv == ASSUME Inv, GrowChain PROVE Inv'
<1>1. Cursor \in Ifaces /\ growing[1] \in Nodes
  BY CursorIface DEF Inv, GrowChain, Types
<1>2. imports[growing[1]][Cursor] \in Nodes
  BY <1>1 DEF Inv, GrowChain, Types, GraphType
<1>3. growing' \in Seq(Nodes)
  BY <1>2 DEF Inv, GrowChain, Types
<1>4. Types' /\ CursorInv'
  BY <1>3 DEF Inv, GrowChain, Types, GraphType, CursorInv, input, routes
<1> QED BY <1>4, EarlyStep DEF GrowChain

LEMMA SeqFunction ==
  ASSUME NEW S, NEW k \in Nat, NEW f, f = [j \in 1..k |-> f[j]], \A j \in 1..k : f[j] \in S
  PROVE  f \in Seq(S) /\ Len(f) = k
OBVIOUS

LEMMA NewChainType ==
  ASSUME NEW i \in Ifaces, NEW nodes \in Seq(Nodes), nodes # <<>>
  PROVE  NewChain(i, nodes) \in ChainType
<1>1. [p \in DOMAIN nodes |-> <<>>] \in Seq(Seq(Mdls)) /\ Len([p \in DOMAIN nodes |-> <<>>]) = Len(nodes)
  <2>1. Len(nodes) \in Nat /\ DOMAIN nodes = 1..Len(nodes) /\ <<>> \in Seq(Mdls)
    OBVIOUS
  <2>2. [p \in 1..Len(nodes) |-> <<>>] \in Seq(Seq(Mdls)) /\ Len([p \in 1..Len(nodes) |-> <<>>]) = Len(nodes)
    BY <2>1, SeqFunction
  <2> QED BY <2>1, <2>2
<1> QED BY <1>1 DEF NewChain, ChainType

LEMMA CloseChainInv == ASSUME Inv, CloseChain PROVE Inv'
<1>1. at[1] > 0 /\ Cursor \in Ifaces /\ growing \in Seq(Nodes) /\ growing # <<>> /\ chains \in Seq(ChainType)
  BY CursorIface DEF Inv, CloseChain, CursorInv, Types
<1>2. chains' \in Seq(ChainType)
  BY <1>1, NewChainType DEF CloseChain
<1>3. at' \in Nat \X Nat /\ at'[1] \in 0..NumNodes /\ at'[2] \in DOMAIN IfaceOrder
  BY <1>1, NextImportCursor DEF CloseChain
<1>4. Types' /\ CursorInv'
  BY <1>2, <1>3 DEF Inv, CloseChain, NextImport, Types, GraphType, CursorInv, input, routes
<1> QED BY <1>4, EarlyStep DEF CloseChain, NextImport

LEMMA StandaloneInv == ASSUME Inv, Standalone PROVE Inv'
<1>1. Cursor \in Ifaces /\ chains \in Seq(ChainType) /\ exports[Cursor] \in {Host} \union Nodes
  BY CursorIface DEF Inv, Standalone, Types
<1>2. chains' \in Seq(ChainType)
  <2>1. CASE exports[Cursor] = Host \/ Cursor \in Handled
    BY <1>1, <2>1 DEF Standalone
  <2>2. CASE ~(exports[Cursor] = Host \/ Cursor \in Handled)
    <3>1. <<exports[Cursor]>> \in Seq(Nodes)
      BY <1>1, <2>2
    <3>2. NewChain(Cursor, <<exports[Cursor]>>) \in ChainType
      BY <1>1, <3>1, NewChainType
    <3> QED BY <1>1, <2>2, <3>2 DEF Standalone
  <2> QED BY <2>1, <2>2
<1>3. /\ at' \in Nat \X Nat /\ pc' \in {"chains", "rules"}
      /\ pc' = "chains" => at'[1] \in 0..NumNodes /\ at'[2] \in DOMAIN IfaceOrder
      /\ pc' = "rules" => at'[1] > 0
  BY CursorIface, SizesAssumption DEF Standalone
<1>4. growing = <<>> /\ growing' = growing
  BY DEF Inv, CursorInv, Standalone
<1>5. Types' /\ CursorInv'
  BY <1>2, <1>3, <1>4 DEF Inv, Standalone, Types, GraphType, CursorInv, input, routes
<1> QED BY <1>3, <1>5, EarlyStep DEF Standalone

LEMMA WithRuleType ==
  ASSUME NEW r \in Rules, NEW c \in ChainType
  PROVE  WithRule(r, c) \in ChainType
<1> DEFINE plan == [p \in DOMAIN c.plan |-> IF Matches(r, c, p) THEN c.plan[p] \o r.mdls ELSE c.plan[p]]
<1>1. c.plan \in Seq(Seq(Mdls)) /\ r.mdls \in Seq(Mdls)
  BY DEF ChainType, Rules
<1>2. \A p \in DOMAIN c.plan : plan[p] \in Seq(Mdls)
  BY <1>1
<1>3. plan \in Seq(Seq(Mdls)) /\ Len(plan) = Len(c.plan)
  <2>1. Len(c.plan) \in Nat /\ DOMAIN c.plan = 1..Len(c.plan)
    BY <1>1
  <2>2. plan = [p \in 1..Len(c.plan) |-> plan[p]]
    BY <2>1
  <2> HIDE DEF plan
  <2> QED BY <1>2, <2>1, <2>2, SeqFunction
<1>4. WithRule(r, c) = [c EXCEPT !.plan = plan]
  BY DEF WithRule
<1> HIDE DEF plan
<1> QED BY <1>3, <1>4 DEF ChainType

LEMMA ApplyRuleInv == ASSUME Inv, ApplyRule PROVE Inv'
<1>1. rules[at[1]] \in Rules /\ chains \in Seq(ChainType)
  BY DEF Inv, ApplyRule, Types, CursorInv
<1>2. chains' \in Seq(ChainType)
  BY <1>1, WithRuleType DEF ApplyRule
<1>3. Types' /\ CursorInv'
  BY <1>2 DEF Inv, ApplyRule, Types, GraphType, CursorInv, input, routes
<1> QED BY <1>3, EarlyStep DEF ApplyRule

LEMMA RulesAppliedInv == ASSUME Inv, RulesApplied PROVE Inv'
<1>1. Types' /\ CursorInv'
  BY DEF Inv, RulesApplied, Types, GraphType, CursorInv, input, planned, routes
<1> QED BY <1>1, EarlyStep DEF RulesApplied

-----------------------------------------------------------------------------
(* The passes that emit.  What they leave alone keeps its type.             *)
LEMMA EmittingTypes ==
  ASSUME Inv, UNCHANGED <<input, planned>>,
         pc' \in {"providers", "walk", "inject", "fanin", "drain", "exports", "done"},
         at' \in Nat \X Nat, todo' \in Seq(Mdls),
         fanVars' \in [Nodes -> SUBSET Wires], outer' \in [Nodes -> Variables \union {None}],
         deferred' \in Seq(InjectType), overrides' \in SUBSET OverrideType,
         exported' \in [Ifaces -> Variables \union {None}]
  PROVE  Types'
BY DEF Inv, Types, GraphType, input, planned

(* ... and what they pass, they have reached.                               *)
PassedReached ==
  \A k \in DOMAIN chains : \A p \in DOMAIN chains[k].nodes :
    p > 1 /\ Passed(k, p) => Reached(chains[k].nodes[p])
LEMMA ReachedKept ==
  ASSUME Inv, UNCHANGED chains, Extends(wac, wac'),
         \A n \in Nodes : fanVars[n] # {} => fanVars'[n] # {},
         \A k \in DOMAIN chains : \A p \in DOMAIN chains[k].nodes :
           p > 1 /\ Passed(k, p)' => Passed(k, p) \/ Reached(chains[k].nodes[p])'
  PROVE  PassedReached'
<1> SUFFICES ASSUME NEW k \in DOMAIN chains, NEW p \in DOMAIN chains[k].nodes, p > 1, Passed(k, p)',
                    Passed(k, p)
             PROVE  Reached(chains[k].nodes[p])'
  BY DEF PassedReached
<1>1. chains[k].nodes[p] \in Nodes
  BY DEF Inv, Types, ChainType
<1>2. Reached(chains[k].nodes[p])
  BY DEF Inv, WalkInv
<1> QED BY <1>1, <1>2 DEF Reached, Extends

LEMMA PreInstantiateInv == ASSUME Inv, NEW n \in Nodes, PreInstantiate(n) PROVE Inv'
<1>1. /\ GraphType /\ Builder(wac) /\ wac' = GetOrCreateInst(wac, n, None)
      /\ pc = "providers" /\ wac.inst[n] = None
      /\ UNCHANGED <<input, pc, at, planned, todo, routes>>
  BY DEF Inv, Types, PreInstantiate, Unmade
<1>2. /\ Builder(wac') /\ Extends(wac, wac')
      /\ \A m \in Nodes \ {n} : wac'.inst[m] = wac.inst[m]
      /\ wac'.inst[n] = wac'.split[Split(n)]
  BY <1>1, GetOrCreateBuilds
<1>3. Types' /\ CursorInv'
  BY <1>1 DEF Inv, Types, GraphType, CursorInv, input, planned, routes
<1>4. RoutesInv' /\ SplitInv'
  BY <1>1, <1>2, RoutesKept, SplitKept DEF Inv, routes, planned, input
<1>5. LastInv' /\ EarlyInv'
  BY <1>1 DEF Inv, LastInv, EarlyInv, routes
<1>6. WalkInv'
  BY <1>1, <1>2 DEF Inv, WalkInv, EarlyInv, Passed, routes, Extends
<1> QED BY <1>2, <1>3, <1>4, <1>5, <1>6 DEF Inv

LEMMA StartWalkInv == ASSUME Inv, StartWalk PROVE Inv'
<1>1. /\ pc = "providers" /\ at' = <<1, 1>> /\ pc' = IF chains = <<>> THEN "fanin" ELSE "walk"
      /\ UNCHANGED <<input, planned, wac, todo, routes>>
  BY DEF StartWalk
<1>2. Types' /\ chains \in Seq(ChainType) /\ deferred = <<>>
  BY <1>1, EmittingTypes DEF Inv, Types, EarlyInv, routes
<1>3. CursorInv' /\ LastInv' /\ EarlyInv'
  BY <1>1, <1>2 DEF CursorInv, LastInv, EarlyInv, Chain, ChainType, planned
<1>4. Builder(wac') /\ RoutesInv' /\ SplitInv'
  BY <1>1 DEF Inv, RoutesInv, SplitInv, FanIn, Consumes, Split, Builder, LinesInOrder, Remembered,
              Defined, routes, planned, input
<1>5. PassedReached'
  <2>1. CASE chains = <<>>
    BY <1>1, <2>1 DEF PassedReached, planned
  <2>2. CASE chains # <<>>
    <3>1. \A k \in DOMAIN chains : \A p \in DOMAIN chains[k].nodes : ~Passed(k, p)'
      BY <1>1, <1>2, <2>2 DEF Passed, ChainType
    <3> QED BY <1>1, <3>1 DEF PassedReached, planned
  <2> QED BY <2>1, <2>2
<1>6. WalkInv'
  BY <1>1, <1>2, <1>5 DEF Inv, WalkInv, PassedReached, routes
<1> QED BY <1>2, <1>3, <1>4, <1>6 DEF Inv

(* The walk's next position: all before it is passed, and no more.          *)
LEMMA Walking ==
  ASSUME Inv, pc \in {"walk", "inject"}
  PROVE  /\ chains \in Seq(ChainType) /\ Chain \in ChainType /\ Chain.iface \in Ifaces
         /\ Node \in Nodes /\ Plan \in Seq(Mdls) /\ at[1] \in 1..Len(chains)
         /\ at[2] \in 1..Len(Chain.nodes) /\ Len(Chain.nodes) \in Nat /\ Len(chains) \in Nat
<1>1. chains \in Seq(ChainType) /\ Chain \in ChainType /\ at[1] \in 1..Len(chains) /\ at[2] \in DOMAIN Chain.nodes
  BY DEF Inv, Types, CursorInv, Chain
<1>2. Chain.nodes \in Seq(Nodes) /\ Chain.plan \in Seq(Seq(Mdls)) /\ Len(Chain.plan) = Len(Chain.nodes)
      /\ Chain.iface \in Ifaces
  BY <1>1 DEF ChainType
<1> QED BY <1>1, <1>2 DEF Node, Plan

LEMMA Advanced ==
  ASSUME Inv, pc \in {"walk", "inject"}, Advance, UNCHANGED chains
  PROVE  /\ at' \in Nat \X Nat /\ pc' \in {"walk", "fanin"} /\ CursorInv'
         /\ pc' = "walk" /\ at'[2] > 1 => ~IsLast
         /\ \A k \in DOMAIN chains : \A p \in DOMAIN chains[k].nodes :
              Passed(k, p)' => Passed(k, p) \/ (k = at[1] /\ p = at[2])
<1>1. /\ chains \in Seq(ChainType) /\ at[1] \in 1..Len(chains) /\ Len(chains) \in Nat
      /\ at[2] \in 1..Len(chains[at[1]].nodes) /\ chains[at[1]].nodes \in Seq(Nodes)
  BY Walking DEF Chain, ChainType
<1>2. CASE ~IsLast
  <2>1. at' = <<at[1], at[2] + 1>> /\ pc' = "walk" /\ at[2] < Len(chains[at[1]].nodes)
    BY <1>1, <1>2 DEF Advance, IsLast, Chain
  <2>2. CursorInv'
    BY <1>1, <2>1 DEF CursorInv, Chain
  <2>3. \A k \in DOMAIN chains : \A p \in DOMAIN chains[k].nodes :
              Passed(k, p)' => Passed(k, p) \/ (k = at[1] /\ p = at[2])
    BY <1>1, <2>1 DEF Passed, ChainType
  <2> QED BY <1>1, <1>2, <2>1, <2>2, <2>3
<1>3. CASE IsLast /\ at[1] # Len(chains)
  <2>1. at' = <<at[1] + 1, 1>> /\ pc' = "walk" /\ at[1] < Len(chains) /\ at[2] = Len(chains[at[1]].nodes)
    BY <1>1, <1>3 DEF Advance, IsLast, Chain
  <2>2. chains[at[1] + 1].nodes \in Seq(Nodes) /\ chains[at[1] + 1].nodes # <<>>
    BY <1>1, <2>1 DEF ChainType
  <2>3. CursorInv'
    BY <1>1, <2>1, <2>2 DEF CursorInv, Chain
  <2>4. ASSUME NEW k \in DOMAIN chains, NEW p \in DOMAIN chains[k].nodes, Passed(k, p)'
        PROVE  Passed(k, p) \/ (k = at[1] /\ p = at[2])
    <3>1. /\ k \in Nat /\ p \in Nat /\ p >= 1
          /\ k < at[1] + 1 \/ (k = at[1] + 1 /\ p < 1)
          /\ k = at[1] => p <= at[2]
      <4>1. chains[k].nodes \in Seq(Nodes)
        BY <1>1 DEF ChainType
      <4>2. p \in 1..Len(chains[k].nodes) /\ Len(chains[k].nodes) \in Nat /\ k \in 1..Len(chains)
        BY <1>1, <4>1
      <4>3. k < at[1] + 1 \/ (k = at[1] + 1 /\ p < 1)
        BY <2>1, <2>4 DEF Passed
      <4> QED BY <1>1, <2>1, <4>2, <4>3
    <3> QED BY <1>1, <3>1 DEF Passed
  <2> QED BY <1>1, <2>1, <2>3, <2>4
<1>4. CASE IsLast /\ at[1] = Len(chains)
  <2>1. at' = <<at[1] + 1, 1>> /\ pc' = "fanin" /\ at[2] = Len(chains[at[1]].nodes)
    BY <1>1, <1>4 DEF Advance, IsLast, Chain
  <2>2. CursorInv'
    BY <1>1, <2>1 DEF CursorInv
  <2>3. \A k \in DOMAIN chains : \A p \in DOMAIN chains[k].nodes :
              Passed(k, p)' => Passed(k, p) \/ (k = at[1] /\ p = at[2])
    BY <1>1, <1>4, <2>1 DEF Passed, ChainType
  <2> QED BY <1>1, <2>1, <2>2, <2>3
<1> QED BY <1>2, <1>3, <1>4
LEMMA ExtendsRefl == ASSUME NEW w PROVE Extends(w, w)
BY DEF Extends
LEMMA BuilderKept == ASSUME Inv, UNCHANGED wac PROVE Builder(wac') /\ Extends(wac, wac')
BY ExtendsRefl DEF Inv

LEMMA DeferInjectInv == ASSUME Inv, DeferInject PROVE Inv'
<1>1. /\ pc = "walk" /\ IsLast /\ Node \in FanIn /\ Len(Chain.nodes) = 1 /\ Advance
      /\ UNCHANGED <<input, planned, wac, todo, fanVars, outer, overrides, exported>>
  BY DEF DeferInject, IsFanInLast
<1>2. Chain.iface \in Ifaces /\ Node \in Nodes /\ Plan \in Seq(Mdls) /\ at[2] = 1
  BY <1>1, Walking DEF IsLast
<1>3. /\ deferred' \in Seq(InjectType) /\ \A k \in DOMAIN deferred' : deferred'[k].node \in FanIn
  <2>1. deferred \in Seq(InjectType) /\ \A k \in DOMAIN deferred : deferred[k].node \in FanIn
    BY DEF Inv, Types, WalkInv
  <2>2. CASE Plan = <<>>
    BY <2>1, <2>2 DEF DeferInject
  <2>3. CASE Plan # <<>>
    <3> DEFINE d == [node |-> Node, iface |-> Chain.iface, mdls |-> Plan]
    <3>1. d \in InjectType /\ d.node \in FanIn
      BY <1>1, <1>2 DEF InjectType
    <3>2. deferred' = Append(deferred, d)
      BY <2>3 DEF DeferInject
    <3> HIDE DEF d
    <3> QED BY <2>1, <3>1, <3>2
  <2> QED BY <2>2, <2>3
<1>4. /\ at' \in Nat \X Nat /\ pc' \in {"walk", "fanin"} /\ CursorInv'
      /\ pc' = "walk" /\ at'[2] > 1 => ~IsLast
      /\ \A k \in DOMAIN chains : \A p \in DOMAIN chains[k].nodes :
           Passed(k, p)' => Passed(k, p) \/ (k = at[1] /\ p = at[2])
  BY <1>1, Advanced DEF planned
<1>5. Builder(wac') /\ Extends(wac, wac')
  BY <1>1, BuilderKept
<1>6. Types'
  BY <1>1, <1>3, <1>4, EmittingTypes DEF Inv, Types
<1>7. SplitInv' /\ FanIn' = FanIn
  BY <1>1, <1>5, SplitKept, FanInKept DEF planned, input
<1>8. RoutesInv' /\ LastInv' /\ EarlyInv'
  BY <1>1, <1>4, <1>5 DEF Inv, RoutesInv, LastInv, EarlyInv
<1>9. PassedReached'
  BY <1>1, <1>2, <1>4, <1>5, ReachedKept DEF planned
<1>10. WalkInv'
  BY <1>1, <1>3, <1>4, <1>7, <1>9 DEF Inv, WalkInv, PassedReached
<1> QED BY <1>4, <1>5, <1>6, <1>7, <1>8, <1>10 DEF Inv

LEMMA ReverseType == ASSUME NEW S, NEW s \in Seq(S) PROVE Reverse(s) \in Seq(S)
<1>1. \A j \in 1..Len(s) : Reverse(s)[j] \in S
  BY DEF Reverse
<1> QED BY SeqFunction DEF Reverse

LEMMA PlacedBuilds ==
  ASSUME GraphType, NEW w, Builder(w), NEW n \in Nodes, NEW i \in Ifaces
  PROVE  LET x == Placed(w, n, i)
         IN  /\ Builder(x) /\ Extends(w, x) /\ x.last # None /\ x.inst[n] # None
             /\ \A m \in Nodes : x.inst[m] = w.inst[m] \/ x.inst[m] = x.split[Split(m)]
             /\ \A m \in Nodes \ {n} : x.inst[m] = w.inst[m]
<1> DEFINE v == GetOrCreateInst(w, n, w.over)
           x == Latest(v, i, v.inst[n])
<1>1. w.over \in Wires \union {None} /\ (w.over # None => Defined(w, w.over.from))
  BY DEF Builder, WacType, Remembered
<1>2. /\ Builder(v) /\ Extends(w, v) /\ v.inst[n] # None /\ Defined(v, v.inst[n])
      /\ \A m \in Nodes \ {n} : v.inst[m] = w.inst[m]
      /\ w.inst[n] = None => v.inst[n] = v.split[Split(n)]
  BY <1>1, GetOrCreateBuilds
<1> HIDE DEF v
<1>3. v.inst[n] \in Variables
  BY <1>2 DEF Builder, WacType
<1>4. Builder(x) /\ Extends(v, x) /\ x.last = v.inst[n] /\ x.inst = v.inst /\ x.split = v.split
  BY <1>2, <1>3, LatestBuilds
<1>5. Extends(w, x)
  BY <1>2, <1>4, ExtendsTrans
<1>6. \A m \in Nodes : x.inst[m] = w.inst[m] \/ x.inst[m] = x.split[Split(m)]
  <2> SUFFICES ASSUME NEW m \in Nodes PROVE x.inst[m] = w.inst[m] \/ x.inst[m] = x.split[Split(m)]
    OBVIOUS
  <2>1. CASE m # n
    BY <1>2, <1>4, <2>1
  <2>2. CASE m = n
    BY <1>2, <1>4, <2>2 DEF Extends
  <2> QED BY <2>1, <2>2
<1>7. x = Placed(w, n, i)
  BY DEF Placed, v
<1> HIDE DEF x
<1> QED BY <1>2, <1>4, <1>5, <1>6, <1>7

LEMMA PlaceInv == ASSUME Inv, Place PROVE Inv'
<1>1. /\ pc = "walk" /\ pc' = "inject" /\ ~IsFanInLast /\ wac' = Placed(wac, Node, Chain.iface)
      /\ todo' = Reverse(Plan) /\ UNCHANGED <<input, at, planned, routes>>
  BY DEF Place
<1>2. Chain.iface \in Ifaces /\ Node \in Nodes /\ Plan \in Seq(Mdls) /\ GraphType /\ Builder(wac)
  BY <1>1, Walking DEF Inv, Types
<1>3. /\ Builder(wac') /\ Extends(wac, wac') /\ wac'.last # None /\ wac'.inst[Node] # None
      /\ \A m \in Nodes : wac'.inst[m] = wac.inst[m] \/ wac'.inst[m] = wac'.split[Split(m)]
  BY <1>1, <1>2, PlacedBuilds
<1>4. Types'
  BY <1>1, <1>2, ReverseType, EmittingTypes DEF Inv, Types, routes
<1>5. CursorInv' /\ LastInv' /\ EarlyInv'
  BY <1>1, <1>3 DEF Inv, CursorInv, LastInv, EarlyInv, Chain, planned
<1>6. RoutesInv' /\ SplitInv'
  BY <1>1, <1>3, RoutesKept, SplitKept DEF Inv, routes, planned, input
<1>7. PassedReached'
  BY <1>1, <1>3, ReachedKept DEF Passed, routes, planned
<1>8. Node' = Node /\ FanIn' = FanIn
  BY <1>1, FanInKept DEF Node, Chain, planned
<1>9. WalkInv'
  BY <1>1, <1>3, <1>7, <1>8 DEF Inv, WalkInv, PassedReached, Extends, routes, planned
<1> QED BY <1>3, <1>4, <1>5, <1>6, <1>9 DEF Inv

LEMMA ReachFanInInv == ASSUME Inv, ReachFanIn PROVE Inv'
<1>1. /\ pc = "walk" /\ pc' = "inject" /\ IsFanInLast /\ Len(Chain.nodes) > 1
      /\ todo' = Reverse(Plan) /\ UNCHANGED <<input, at, planned, wac, routes>>
  BY DEF ReachFanIn
<1>2. Plan \in Seq(Mdls) /\ at[2] > 1
  BY <1>1, Walking DEF IsFanInLast, IsLast
<1>3. Builder(wac') /\ Extends(wac, wac')
  BY <1>1, BuilderKept
<1>4. Types'
  BY <1>1, <1>2, ReverseType, EmittingTypes DEF Inv, Types, routes
<1>5. CursorInv' /\ LastInv' /\ EarlyInv'
  BY <1>1, <1>2 DEF Inv, CursorInv, LastInv, EarlyInv, Chain, planned
<1>6. RoutesInv' /\ SplitInv'
  BY <1>1, <1>3, RoutesKept, SplitKept DEF Inv, routes, planned, input
<1>7. PassedReached'
  BY <1>1, <1>3, ReachedKept DEF Passed, routes, planned
<1>8. FanIn' = FanIn /\ IsFanInLast'
  BY <1>1, FanInKept DEF IsFanInLast, IsLast, Node, Chain, planned
<1>9. WalkInv'
  BY <1>1, <1>7, <1>8 DEF Inv, WalkInv, PassedReached, routes, planned
<1> QED BY <1>3, <1>4, <1>5, <1>6, <1>9 DEF Inv

LEMMA TargetType == ASSUME Inv, pc \in {"inject", "drain"} PROVE Target \in Ifaces
<1>1. CASE pc = "inject"
  BY <1>1, Walking DEF Target
<1>2. CASE pc = "drain"
  <2>1. deferred \in Seq(InjectType) /\ deferred # <<>>
    BY <1>2 DEF Inv, CursorInv, Types
  <2>2. Head(deferred) \in InjectType
    BY <2>1
  <2> QED BY <1>2, <2>2 DEF InjectType, Target
<1> QED BY <1>1, <1>2

LEMMA InjectNextInv == ASSUME Inv, InjectNext PROVE Inv'
<1>1. /\ pc \in {"inject", "drain"} /\ todo # <<>> /\ wac' = CreateMdl(wac, Head(todo), Target)
      /\ todo' = Tail(todo) /\ UNCHANGED <<input, pc, at, planned, routes>>
  BY DEF InjectNext
<1>2. Builder(wac) /\ wac.last # None /\ Head(todo) \in Mdls /\ Tail(todo) \in Seq(Mdls)
  BY <1>1 DEF Inv, Types, LastInv
<1>3. Target \in Ifaces
  BY <1>1, TargetType
<1>4. /\ Builder(wac') /\ Extends(wac, wac') /\ wac'.last # None
      /\ wac'.inst = wac.inst /\ wac'.split = wac.split
  BY <1>1, <1>2, <1>3, CreateMdlBuilds
<1>5. Types'
  BY <1>1, <1>2, EmittingTypes DEF Inv, Types, routes
<1>6. CursorInv' /\ LastInv' /\ EarlyInv'
  BY <1>1, <1>4 DEF Inv, CursorInv, LastInv, EarlyInv, Chain, planned, routes
<1>7. RoutesInv' /\ SplitInv'
  BY <1>1, <1>4, RoutesKept, SplitKept DEF Inv, routes, planned, input
<1>8. PassedReached'
  BY <1>1, <1>4, ReachedKept DEF Passed, routes, planned
<1>9. FanIn' = FanIn /\ IsFanInLast' = IsFanInLast /\ Node' = Node
  BY <1>1, FanInKept DEF IsFanInLast, IsLast, Node, Chain, planned
<1>10. WalkInv'
  BY <1>1, <1>4, <1>8, <1>9 DEF Inv, WalkInv, PassedReached, routes, planned
<1> QED BY <1>4, <1>5, <1>6, <1>7, <1>10 DEF Inv
LEMMA LeaveFanInInv == ASSUME Inv, LeaveFanIn PROVE Inv'
<1>1. /\ pc = "inject" /\ IsLast /\ Node \in FanIn /\ Advance
      /\ fanVars' = [fanVars EXCEPT ![Node] = @ \union {Wire(Chain.iface, wac.last)}]
      /\ UNCHANGED <<input, planned, wac, todo, outer, deferred, overrides, exported>>
  BY DEF LeaveFanIn, IsFanInLast
<1>2. /\ Chain.iface \in Ifaces /\ Node \in Nodes /\ fanVars \in [Nodes -> SUBSET Wires]
      /\ wac.last \in Variables /\ Defined(wac, wac.last)
  BY <1>1, Walking DEF Inv, Types, LastInv, Builder, WacType, Remembered
<1>3. Wire(Chain.iface, wac.last) \in Wires /\ Wire(Chain.iface, wac.last).from = wac.last
  BY <1>2 DEF Wire, Wires
<1>4. /\ fanVars' \in [Nodes -> SUBSET Wires]
      /\ fanVars'[Node] = fanVars[Node] \union {Wire(Chain.iface, wac.last)}
      /\ \A n \in Nodes : n # Node => fanVars'[n] = fanVars[n]
  BY <1>1, <1>2, <1>3
<1>5. /\ at' \in Nat \X Nat /\ pc' \in {"walk", "fanin"} /\ CursorInv'
      /\ pc' = "walk" /\ at'[2] > 1 => ~IsLast
      /\ \A k \in DOMAIN chains : \A p \in DOMAIN chains[k].nodes :
           Passed(k, p)' => Passed(k, p) \/ (k = at[1] /\ p = at[2])
  BY <1>1, Advanced DEF planned
<1>6. Builder(wac') /\ Extends(wac, wac') /\ FanIn' = FanIn
  BY <1>1, BuilderKept, FanInKept DEF planned
<1>7. Types'
  BY <1>1, <1>4, <1>5, EmittingTypes DEF Inv, Types
<1>8. SplitInv'
  BY <1>1, <1>2, <1>4, <1>6 DEF Inv, SplitInv, Split, input
<1>9. RoutesInv' /\ LastInv' /\ EarlyInv'
  <2>1. ASSUME NEW n \in Nodes, NEW u \in fanVars'[n] PROVE Defined(wac, u.from)
    <3>1. CASE n # Node \/ u \in fanVars[Node]
      BY <1>4, <2>1, <3>1 DEF Inv, RoutesInv
    <3>2. CASE n = Node /\ u = Wire(Chain.iface, wac.last)
      BY <1>2, <1>3, <3>2
    <3> QED BY <1>4, <2>1, <3>1, <3>2
  <2>2. RoutesInv'
    BY <1>1, <2>1 DEF Inv, RoutesInv
  <2> QED BY <1>1, <1>5, <2>2 DEF LastInv, EarlyInv
<1>10. PassedReached'
  <2>1. ASSUME NEW k, NEW p, k = at[1], p = at[2] PROVE Reached(chains[k].nodes[p])'
    BY <1>1, <1>2, <1>4, <2>1 DEF Reached, Node, Chain, planned
  <2>2. \A n \in Nodes : fanVars[n] # {} => fanVars'[n] # {}
    BY <1>4
  <2> QED BY <1>1, <1>5, <1>6, <2>1, <2>2, ReachedKept DEF planned
<1>11. WalkInv'
  BY <1>1, <1>5, <1>6, <1>10 DEF Inv, WalkInv, PassedReached
<1> QED BY <1>5, <1>6, <1>7, <1>8, <1>9, <1>11 DEF Inv

LEMMA LeaveInv == ASSUME Inv, Leave PROVE Inv'
<1>1. /\ pc = "inject" /\ ~IsFanInLast /\ Advance
      /\ outer' = IF IsLast THEN [outer EXCEPT ![Node] = wac.last] ELSE outer
      /\ UNCHANGED <<input, planned, wac, todo, fanVars, deferred, overrides, exported>>
  BY DEF Leave
<1>2. /\ Node \in Nodes /\ outer \in [Nodes -> Variables \union {None}]
      /\ wac.last \in Variables /\ Defined(wac, wac.last) /\ wac.last # None /\ wac.inst[Node] # None
  BY <1>1, Walking DEF Inv, Types, LastInv, Builder, WacType, Remembered, WalkInv
<1>3. /\ outer' \in [Nodes -> Variables \union {None}]
      /\ \A n \in Nodes : outer'[n] = outer[n] \/ (n = Node /\ outer'[n] = wac.last)
  BY <1>1, <1>2
<1>4. /\ at' \in Nat \X Nat /\ pc' \in {"walk", "fanin"} /\ CursorInv'
      /\ pc' = "walk" /\ at'[2] > 1 => ~IsLast
      /\ \A k \in DOMAIN chains : \A p \in DOMAIN chains[k].nodes :
           Passed(k, p)' => Passed(k, p) \/ (k = at[1] /\ p = at[2])
  BY <1>1, Advanced DEF planned
<1>5. Builder(wac') /\ Extends(wac, wac') /\ FanIn' = FanIn
  BY <1>1, BuilderKept, FanInKept DEF planned
<1>6. Types'
  BY <1>1, <1>3, <1>4, EmittingTypes DEF Inv, Types
<1>7. SplitInv'
  BY <1>1, <1>5, SplitKept DEF planned, input
<1>8. RoutesInv' /\ LastInv' /\ EarlyInv'
  BY <1>1, <1>2, <1>3, <1>4 DEF Inv, RoutesInv, LastInv, EarlyInv
<1>9. PassedReached'
  <2>1. ASSUME NEW k, NEW p, k = at[1], p = at[2] PROVE Reached(chains[k].nodes[p])'
    BY <1>1, <1>2, <2>1 DEF Reached, Node, Chain, planned
  <2> QED BY <1>1, <1>4, <1>5, <2>1, ReachedKept DEF planned
<1>10. WalkInv'
  BY <1>1, <1>2, <1>3, <1>4, <1>5, <1>9 DEF Inv, WalkInv, PassedReached
<1> QED BY <1>4, <1>5, <1>6, <1>7, <1>8, <1>10 DEF Inv

-----------------------------------------------------------------------------
(* The fan-in pass, and the middleware that was put off until after it.     *)
(* What a fan-in consumer is wired to is there.                             *)
LEMMA FanInWired ==
  ASSUME Inv, NEW n \in Nodes
  PROVE  FanInWiring(n) \in SUBSET Wires /\ \A u \in FanInWiring(n) : Defined(wac, u.from)
<1>0. GraphType /\ Builder(wac) /\ wac \in WacType /\ fanVars \in [Nodes -> SUBSET Wires]
  BY DEF Inv, Types, Builder
<1> SUFFICES ASSUME NEW u \in FanInWiring(n) PROVE u \in Wires /\ Defined(wac, u.from)
  OBVIOUS
<1>1. PICK i \in Internal(n) : FanInSource(n, i) # None /\ u = Wire(i, FanInSource(n, i))
  BY DEF FanInWiring
<1>2. i \in Ifaces /\ imports[n][i] \in Nodes
  BY <1>0 DEF Internal, GraphType
<1>3. FanInSource(n, i) \in Variables /\ Defined(wac, FanInSource(n, i))
  <2>1. CASE \E f \in fanVars[n] : f.iface = i
    <3>1. PICK f \in fanVars[n] : FanInSource(n, i) = f.from
      BY <2>1 DEF FanInSource
    <3> QED BY <1>0, <3>1 DEF Inv, RoutesInv, Wires
  <2>2. CASE ~\E f \in fanVars[n] : f.iface = i
    <3>1. FanInSource(n, i) = wac.inst[imports[n][i]]
      BY <2>2 DEF FanInSource
    <3> QED BY <1>0, <1>1, <1>2, <3>1 DEF Builder, Remembered, WacType
  <2> QED BY <2>1, <2>2
<1> QED BY <1>1, <1>2, <1>3 DEF Wire, Wires

LEMMA InstantiateFanInInv == ASSUME Inv, NEW n \in Nodes, InstantiateFanIn(n) PROVE Inv'
<1> DEFINE v == IF wac.inst[n] = None THEN NodeVar(n) ELSE wac.inst[n]
           x == Let(wac, v, FanInWiring(n))
<1>1. /\ pc = "fanin" /\ fanVars[n] # {} /\ wac' = [x EXCEPT !.inst[n] = v]
      /\ outer' = [outer EXCEPT ![n] = v]
      /\ UNCHANGED <<input, pc, at, planned, todo, fanVars, deferred, overrides, exported>>
  BY DEF InstantiateFanIn, Waiting
<1>2. GraphType /\ Builder(wac) /\ wac \in WacType /\ fanVars \in [Nodes -> SUBSET Wires]
      /\ outer \in [Nodes -> Variables \union {None}] /\ n \in FanIn
  BY <1>1 DEF Inv, Types, Builder, SplitInv
<1>3. v \in Variables /\ v # None
  BY <1>2, VariableTypes, NoneAssumption DEF WacType
<1>4. FanInWiring(n) \in SUBSET Wires /\ \A u \in FanInWiring(n) : Defined(wac, u.from)
  BY FanInWired
<1>5. /\ Builder(x) /\ Extends(wac, x) /\ Defined(x, v) /\ x.inst = wac.inst /\ x.split = wac.split
      /\ x \in WacType
  <2> HIDE DEF v
  <2> QED BY <1>2, <1>3, <1>4, LetBuilds DEF Builder
<1>6. wac.inst[n] # None => v = wac.inst[n]
  OBVIOUS
<1> HIDE DEF v, x
<1>7. /\ wac' \in WacType /\ wac'.lines = x.lines /\ wac'.inst = [wac.inst EXCEPT ![n] = v]
      /\ wac'.split = wac.split /\ wac'.emitted = x.emitted /\ wac'.last = x.last /\ wac'.over = x.over
  BY <1>1, <1>3, <1>5 DEF WacType
<1>8. wac'.inst[n] = v /\ \A m \in Nodes : m # n => wac'.inst[m] = wac.inst[m]
  BY <1>2, <1>7 DEF WacType
<1>9. \A u : Defined(wac', u) <=> Defined(x, u)
  BY <1>7 DEF Defined
<1>10. Builder(wac')
  <2>1. LinesInOrder(wac')
    BY <1>5, <1>7 DEF Builder, LinesInOrder
  <2>2. Remembered(wac')
    BY <1>3, <1>5, <1>7, <1>8, <1>9 DEF Builder, Remembered
  <2> QED BY <1>7, <2>1, <2>2 DEF Builder
<1>11. Extends(wac, wac')
  BY <1>5, <1>6, <1>7, <1>8, <1>9 DEF Extends
<1>12. /\ outer' \in [Nodes -> Variables \union {None}] /\ outer'[n] = v
       /\ \A m \in Nodes : m # n => outer'[m] = outer[m]
  BY <1>1, <1>2, <1>3
<1>13. Types'
  BY <1>1, <1>12, EmittingTypes DEF Inv, Types
<1>14. CursorInv' /\ LastInv' /\ EarlyInv'
  BY <1>1 DEF Inv, CursorInv, LastInv, EarlyInv
<1>15. RoutesInv'
  BY <1>1, <1>5, <1>9, <1>11, <1>12 DEF Inv, RoutesInv, Extends
<1>16. FanIn' = FanIn /\ \A m \in Nodes : Split(m)' = Split(m)
  BY <1>1, FanInKept DEF planned, Split, input
<1>17. SplitInv'
  BY <1>1, <1>2, <1>7, <1>8, <1>16 DEF Inv, SplitInv
<1>18. PassedReached'
  BY <1>1, <1>11, ReachedKept DEF Passed, planned
<1>19. WalkInv'
  BY <1>1, <1>3, <1>8, <1>12, <1>16, <1>18 DEF Inv, WalkInv, PassedReached
<1> QED BY <1>10, <1>13, <1>14, <1>15, <1>17, <1>19 DEF Inv
(* The chains being done, and nothing waiting, the consumers are all made.  *)
LEMMA FanInMade ==
  ASSUME Inv, pc = "fanin", Waiting = {}, NEW n \in FanIn
  PROVE  n \in Nodes /\ wac.inst[n] # None
<1>1. n \in Nodes /\ \E k \in DOMAIN chains : Consumes(n, k)
  BY DEF FanIn
<1>2. PICK k \in DOMAIN chains : \E p \in DOMAIN chains[k].nodes : p > 1 /\ chains[k].nodes[p] = n
  BY <1>1 DEF Consumes
<1>3. PICK p \in DOMAIN chains[k].nodes : p > 1 /\ chains[k].nodes[p] = n
  BY <1>2
<1>4. Reached(n)
  BY <1>3 DEF Inv, WalkInv, Passed
<1>5. fanVars[n] # {} => outer[n] # None
  BY <1>1 DEF Waiting
<1> QED BY <1>1, <1>4, <1>5 DEF Reached, Inv, WalkInv

LEMMA StartDrainInv == ASSUME Inv, StartDrain PROVE Inv'
<1> DEFINE d == Head(deferred)
<1>1. pc = "fanin" /\ Waiting = {} /\ deferred # <<>> /\ UNCHANGED <<input, at, planned, routes>>
  BY DEF StartDrain
<1>2. deferred \in Seq(InjectType) /\ d \in InjectType /\ d.node \in FanIn
  BY <1>1 DEF Inv, Types, WalkInv
<1>3. d.node \in Nodes /\ wac.inst[d.node] # None /\ d.mdls \in Seq(Mdls)
  BY <1>1, <1>2, FanInMade DEF InjectType
<1>4. pc' = "drain" /\ wac' = [wac EXCEPT !.last = wac.inst[d.node]] /\ todo' = Reverse(d.mdls)
  BY <1>3 DEF StartDrain
<1> HIDE DEF d
<1>5. /\ wac \in WacType /\ Builder(wac) /\ wac.inst[d.node] \in Variables
      /\ Defined(wac, wac.inst[d.node])
  BY <1>3 DEF Inv, Builder, WacType, Remembered
<1>6. /\ wac' \in WacType /\ wac'.lines = wac.lines /\ wac'.inst = wac.inst /\ wac'.split = wac.split
      /\ wac'.emitted = wac.emitted /\ wac'.last = wac.inst[d.node] /\ wac'.over = wac.over
  BY <1>4, <1>5 DEF WacType
<1>7. \A u : Defined(wac', u) <=> Defined(wac, u)
  BY <1>6 DEF Defined
<1>8. Builder(wac') /\ Extends(wac, wac')
  <2>1. LinesInOrder(wac')
    BY <1>5, <1>6 DEF Builder, LinesInOrder
  <2>2. Remembered(wac')
    BY <1>5, <1>6, <1>7 DEF Builder, Remembered
  <2> QED BY <1>6, <1>7, <2>1, <2>2 DEF Builder, Extends
<1>9. Types'
  BY <1>1, <1>3, <1>4, ReverseType, EmittingTypes DEF Inv, Types, routes
<1>10. CursorInv' /\ LastInv' /\ EarlyInv'
  BY <1>1, <1>3, <1>4, <1>6 DEF Inv, CursorInv, LastInv, EarlyInv, planned, routes
<1>11. RoutesInv' /\ SplitInv'
  BY <1>1, <1>6, <1>8, RoutesKept, SplitKept DEF Inv, routes, planned, input
<1>12. PassedReached'
  BY <1>1, <1>8, ReachedKept DEF Passed, routes, planned
<1>13. FanIn' = FanIn
  BY <1>1, FanInKept DEF planned
<1>14. WalkInv'
  BY <1>1, <1>4, <1>6, <1>12, <1>13 DEF Inv, WalkInv, PassedReached, routes, planned
<1> QED BY <1>8, <1>9, <1>10, <1>11, <1>14 DEF Inv

LEMMA FinishDrainInv == ASSUME Inv, FinishDrain PROVE Inv'
<1> DEFINE d == Head(deferred)
           o == [node |-> d.node, iface |-> d.iface, var |-> wac.last]
<1>1. /\ pc = "drain" /\ pc' = "fanin" /\ overrides' = overrides \union {o} /\ deferred' = Tail(deferred)
      /\ UNCHANGED <<input, at, planned, wac, todo, fanVars, outer, exported>>
  BY DEF FinishDrain
<1>2. deferred \in Seq(InjectType) /\ deferred # <<>>
  BY <1>1 DEF Inv, Types, CursorInv
<1>3. /\ d \in InjectType /\ deferred' \in Seq(InjectType)
      /\ \A k \in DOMAIN deferred' : k + 1 \in DOMAIN deferred /\ deferred'[k] = deferred[k + 1]
  BY <1>1, <1>2
<1>4. wac.last \in Variables /\ Defined(wac, wac.last)
  BY <1>1 DEF Inv, LastInv, Builder, WacType, Remembered
<1> HIDE DEF d
<1>5. o \in OverrideType /\ o.var = wac.last
  BY <1>3, <1>4 DEF OverrideType, InjectType
<1> HIDE DEF o
<1>6. Builder(wac') /\ Extends(wac, wac') /\ FanIn' = FanIn
  BY <1>1, BuilderKept, FanInKept DEF planned
<1>7. Types'
  BY <1>1, <1>3, <1>5, EmittingTypes DEF Inv, Types
<1>8. CursorInv' /\ LastInv' /\ EarlyInv'
  BY <1>1 DEF Inv, CursorInv, LastInv, EarlyInv
<1>9. RoutesInv'
  BY <1>1, <1>4, <1>5 DEF Inv, RoutesInv
<1>10. SplitInv'
  BY <1>1, <1>6, SplitKept DEF planned, input
<1>11. PassedReached'
  BY <1>1, <1>6, ReachedKept DEF Passed, planned
<1>12. WalkInv'
  BY <1>1, <1>3, <1>6, <1>11 DEF Inv, WalkInv, PassedReached
<1> QED BY <1>6, <1>7, <1>8, <1>9, <1>10, <1>12 DEF Inv

-----------------------------------------------------------------------------
(* The exports.                                                             *)
LEMMA ExportPassTypes ==
  ASSUME Inv, UNCHANGED <<input, planned, todo, fanVars, outer, deferred, overrides>>,
         pc' \in {"exports", "done"}, pc \in {"fanin", "exports"}, at' \in Nat \X Nat, at'[1] > 0,
         exported' \in [Ifaces -> Variables \union {None}]
  PROVE  Types' /\ CursorInv' /\ LastInv' /\ EarlyInv'
<1>1. Types'
  BY EmittingTypes DEF Inv, Types
<1> QED BY <1>1 DEF CursorInv, LastInv, EarlyInv

LEMMA StartExportsInv == ASSUME Inv, StartExports PROVE Inv'
<1>1. pc = "fanin" /\ at' = <<1, 1>> /\ pc' = "exports" /\ UNCHANGED <<input, planned, wac, todo, routes>>
  BY DEF StartExports
<1>2. Types' /\ CursorInv' /\ LastInv' /\ EarlyInv'
  BY <1>1, ExportPassTypes DEF Inv, Types, routes
<1>3. Builder(wac') /\ Extends(wac, wac') /\ FanIn' = FanIn
  BY <1>1, BuilderKept, FanInKept DEF planned
<1>4. RoutesInv' /\ SplitInv'
  BY <1>1, <1>3, RoutesKept, SplitKept DEF Inv, routes, planned, input
<1>5. PassedReached'
  BY <1>1, <1>3, ReachedKept DEF Passed, planned, routes
<1>6. WalkInv'
  BY <1>1, <1>3, <1>5 DEF Inv, WalkInv, PassedReached, routes
<1> QED BY <1>2, <1>3, <1>4, <1>6 DEF Inv

(* Whatever an export line names is defined when the line is emitted.       *)
LEMMA EmitExportInv == ASSUME Inv, NEW i \in Ifaces, EmitExport(i) PROVE Inv'
<1> DEFINE n == Resolve(exports[i])
<1>1. /\ pc = "exports" /\ pc' = pc /\ at' = <<at[1] + 1, 1>>
      /\ UNCHANGED <<input, planned, todo, fanVars, outer, deferred, overrides>>
  BY DEF EmitExport
<1>2. GraphType /\ Builder(wac) /\ exported \in [Ifaces -> Variables \union {None}] /\ at \in Nat \X Nat
  BY DEF Inv, Types
<1>3. /\ Builder(wac') /\ Extends(wac, wac')
      /\ \A m \in Nodes : wac'.inst[m] = wac.inst[m] \/ wac'.inst[m] = wac'.split[Split(m)]
      /\ \/ exported' = exported
         \/ \E v \in Variables : Defined(wac', v) /\ exported' = [exported EXCEPT ![i] = v]
  <2>1. CASE UNCHANGED <<wac, exported>>
    BY <2>1, BuilderKept
  <2>2. CASE ~Skipped(i)
    <3>1. n \in Nodes
      <4>1. exports[i] \in Nodes
        BY <2>2 DEF Inv, Types, Skipped
      <4> QED BY <1>2, <4>1, SplitType DEF Resolve
    <3> HIDE DEF n
    <3>2. CASE Overriding(n, i) # {} /\ UNCHANGED wac /\ \E o \in Overriding(n, i) : exported' = [exported EXCEPT ![i] = o.var]
      <4>1. PICK o \in overrides : exported' = [exported EXCEPT ![i] = o.var]
        BY <3>2 DEF Overriding
      <4>2. o.var \in Variables /\ Defined(wac, o.var)
        BY DEF Inv, RoutesInv, Types, OverrideType
      <4> QED BY <3>2, <4>1, <4>2, BuilderKept
    <3>3. CASE outer[n] # None /\ UNCHANGED wac /\ exported' = [exported EXCEPT ![i] = outer[n]]
      <4>1. outer[n] \in Variables /\ Defined(wac, outer[n])
        BY <3>1, <3>3 DEF Inv, RoutesInv, Types
      <4> QED BY <3>3, <4>1, BuilderKept
    <3>4. CASE wac' = GetOrCreateInst(wac, n, None) /\ exported' = [exported EXCEPT ![i] = wac'.inst[n]]
      <4>1. /\ Builder(wac') /\ Extends(wac, wac') /\ wac'.inst[n] # None /\ Defined(wac', wac'.inst[n])
            /\ \A m \in Nodes \ {n} : wac'.inst[m] = wac.inst[m]
            /\ wac.inst[n] = None => wac'.inst[n] = wac'.split[Split(n)]
        BY <1>2, <3>1, <3>4, GetOrCreateBuilds
      <4>2. wac'.inst[n] \in Variables
        BY <3>1, <4>1 DEF Builder, WacType
      <4>3. \A m \in Nodes : wac'.inst[m] = wac.inst[m] \/ wac'.inst[m] = wac'.split[Split(m)]
        <5> SUFFICES ASSUME NEW m \in Nodes
                     PROVE  wac'.inst[m] = wac.inst[m] \/ wac'.inst[m] = wac'.split[Split(m)]
          OBVIOUS
        <5>1. CASE m # n
          BY <4>1, <5>1
        <5>2. CASE m = n
          BY <3>1, <4>1, <5>2 DEF Extends
        <5> QED BY <5>1, <5>2
      <4> QED BY <3>4, <4>1, <4>2, <4>3
    <3> QED BY <2>2, <3>2, <3>3, <3>4 DEF EmitExport, n
  <2> QED BY <2>1, <2>2 DEF EmitExport
<1>4. exported' \in [Ifaces -> Variables \union {None}]
  BY <1>2, <1>3
<1>5. Types' /\ CursorInv' /\ LastInv' /\ EarlyInv'
  BY <1>1, <1>2, <1>4, ExportPassTypes
<1>6. RoutesInv'
  <2>1. \A j \in Ifaces : exported'[j] # None => Defined(wac', exported'[j])
    BY <1>2, <1>3 DEF Inv, RoutesInv, Extends
  <2> QED BY <1>1, <1>3, <2>1 DEF Inv, RoutesInv, Extends
<1>7. SplitInv' /\ FanIn' = FanIn
  BY <1>1, <1>3, SplitKept, FanInKept DEF planned, input
<1>8. PassedReached'
  BY <1>1, <1>3, ReachedKept DEF Passed, planned
<1>9. WalkInv'
  BY <1>1, <1>3, <1>7, <1>8 DEF Inv, WalkInv, PassedReached, Extends
<1> QED BY <1>3, <1>5, <1>6, <1>7, <1>9 DEF Inv

LEMMA FinishInv == ASSUME Inv, Finish PROVE Inv'
<1>1. pc = "exports" /\ at[1] > 0 /\ at' = at /\ pc' = "done" /\ UNCHANGED <<input, planned, wac, todo, routes>>
  BY DEF Finish, Inv, CursorInv
<1>2. Types' /\ CursorInv' /\ LastInv' /\ EarlyInv'
  BY <1>1, ExportPassTypes DEF Inv, Types, routes
<1>3. Builder(wac') /\ Extends(wac, wac') /\ FanIn' = FanIn
  BY <1>1, BuilderKept, FanInKept DEF planned
<1>4. RoutesInv' /\ SplitInv'
  BY <1>1, <1>3, RoutesKept, SplitKept DEF Inv, routes, planned, input
<1>5. PassedReached'
  BY <1>1, <1>3, ReachedKept DEF Passed, planned, routes
<1>6. WalkInv'
  BY <1>1, <1>3, <1>5 DEF Inv, WalkInv, PassedReached, routes
<1> QED BY <1>2, <1>3, <1>4, <1>6 DEF Inv

LEMMA StutterInv == ASSUME Inv, UNCHANGED vars PROVE Inv'
<1>1. /\ Types' /\ CursorInv' /\ LastInv' /\ EarlyInv'
  BY DEF Inv, Types, GraphType, CursorInv, LastInv, EarlyInv, Chain, vars
<1>2. Builder(wac') /\ Extends(wac, wac') /\ FanIn' = FanIn
  BY BuilderKept, FanInKept DEF vars
<1>3. RoutesInv' /\ SplitInv'
  BY <1>2, RoutesKept, SplitKept DEF Inv, routes, vars
<1>4. PassedReached'
  BY <1>2, ReachedKept DEF Passed, vars
<1>5. IsFanInLast' = IsFanInLast /\ Node' = Node
  BY <1>2 DEF IsFanInLast, IsLast, Node, Chain, vars
<1>6. WalkInv'
  BY <1>2, <1>4, <1>5 DEF Inv, WalkInv, PassedReached, vars
<1> QED BY <1>1, <1>2, <1>3, <1>6 DEF Inv

LEMMA NextInv == ASSUME Inv, [Next]_vars PROVE Inv'
BY SkipImportInv, StartChainInv, GrowChainInv, CloseChainInv, StandaloneInv, ApplyRuleInv,
   RulesAppliedInv, PreInstantiateInv, StartWalkInv, DeferInjectInv, PlaceInv, ReachFanInInv,
   InjectNextInv, LeaveFanInInv, LeaveInv, InstantiateFanInInv, StartDrainInv, FinishDrainInv,
   StartExportsInv, EmitExportInv, FinishInv, StutterInv DEF Next, Terminated

LEMMA SpecInv == Spec => []Inv
BY InitInv, NextInv, PTL DEF Spec

-----------------------------------------------------------------------------
(* generate_wac emits a name only after the line that defines it, in every  *)
(* pass and through every variable a later pass remembers: for every graph, *)
(* shim map, rules and hash-map order, WAC can resolve what a line wires    *)
(* and what an export line exports.                                         *)
THEOREM DefinedBeforeUseHolds == Spec => []DefinedBeforeUse
<1>1. Inv => DefinedBeforeUse
  <2> SUFFICES ASSUME Inv PROVE DefinedBeforeUse
    OBVIOUS
  <2>1. wac.lines \in Seq(LineType)
    BY DEF Inv, Builder, WacType
  <2>2. \A k \in DOMAIN Lines : \A u \in Lines[k].uses : \E j \in 1..(k - 1) : Lines[j].var = u.from
    BY <2>1 DEF Inv, Builder, LinesInOrder, Lines
  <2>3. \A v : Defined(wac, v) => Defining(v) # {}
    BY <2>1 DEF Defined, Defining, Lines
  <2>4. \A i \in Ifaces : exported[i] # None => Defining(exported[i]) # {}
    BY <2>3 DEF Inv, RoutesInv
  <2> QED BY <2>2, <2>4 DEF DefinedBeforeUse
<1> QED BY <1>1, SpecInv, PTL

(* The "please file a bug" bail of the deferred injects is dead code: when  *)
(* the fan-in pass is done, every consumer whose injection was put off has  *)
(* been made, by that pass or by the walk before it.                        *)
THEOREM NoInternalErrorHolds == Spec => []NoInternalError
<1>1. Inv => NoInternalError
  BY DEF Inv, Types, NoInternalError
<1> QED BY <1>1, SpecInv, PTL

(* get_or_create_inst: nodes that are shims of one split share its          *)
(* instance, unless they are fan-in consumers, which the deferred pass      *)
(* makes without looking at their split.                                    *)
THEOREM OneInstancePerSplitHolds == Spec => []OneInstancePerSplit
<1>1. Inv => OneInstancePerSplit
  BY DEF Inv, SplitInv, OneInstancePerSplit
<1> QED BY <1>1, SpecInv, PTL

-----------------------------------------------------------------------------
(* No name is defined twice.                                                *)
(* The input: providers come first, and no two injections share a name.     *)
InputInv == (\A n \in Nodes, i \in Ifaces : imports[n][i] < n) /\ NamesUnique(rules)

(* The chains.  One per interface; a node stands in it once, right behind   *)
(* its provider; what nobody consumes is a chain of one node.               *)
Rising(nodes) == \A p, q \in DOMAIN nodes : p < q => nodes[p] < nodes[q]
InLine(nodes, i) == \A p \in DOMAIN nodes : p > 1 => imports[nodes[p]][i] = nodes[p - 1]
ChainsInv ==
  /\ \A j, k \in DOMAIN chains : chains[j].iface = chains[k].iface => j = k
  /\ \A k \in DOMAIN chains :
       /\ Rising(chains[k].nodes) /\ InLine(chains[k].nodes, chains[k].iface)
       /\ chains[k].iface \notin Handled => Len(chains[k].nodes) = 1
  /\ pc = "chains" => \A k \in DOMAIN chains :
       \/ chains[k].iface \in Handled
       \/ at[1] = 0 /\ \E j \in 1..(at[2] - 1) : chains[k].iface = IfaceOrder[j]
  /\ growing # <<>> =>
       /\ pc = "chains" /\ Cursor \in Handled /\ Cursor \notin Planned
       /\ Rising(growing) /\ InLine(growing, Cursor)

(* The plan.  A middleware stands in one place of it.                       *)
Elems(s) == {s[a] : a \in DOMAIN s}
Once(s) == \A a, b \in DOMAIN s : s[a] = s[b] => a = b
PlanAt(k, p) == chains[k].plan[p]
PlanInv ==
  /\ \A k \in DOMAIN chains : \A p \in DOMAIN chains[k].plan :
       /\ Once(PlanAt(k, p))
       /\ \A l \in DOMAIN chains : \A q \in DOMAIN chains[l].plan :
            k # l \/ p # q => Elems(PlanAt(k, p)) \cap Elems(PlanAt(l, q)) = {}
       /\ pc = "chains" => PlanAt(k, p) = <<>>
       /\ pc = "rules" => \A m \in Elems(PlanAt(k, p)) :
            \E q \in DOMAIN rules : q < at[1] /\ m \in Elems(rules[q].mdls)

(* The middleware still to be put in: at the positions ahead, in hand, or   *)
(* put off until after the fan-in pass.  None of it has been put in, and no *)
(* middleware is in two of these places.                                    *)
Spent(w, m) == IF m \in Adapted THEN \E i \in Ifaces : Defined(w, AdapterVar(m, i)) ELSE Defined(w, MdlVar(m))
Unspent(w, s) == \A m \in Elems(s) : ~Spent(w, m)
Ahead(k, p) ==
  \/ pc \in {"chains", "rules", "providers"}
  \/ pc = "walk" /\ (k > at[1] \/ (k = at[1] /\ p >= at[2]))
  \/ pc = "inject" /\ (k > at[1] \/ (k = at[1] /\ p > at[2]))
PutOff(d) == d \in DOMAIN deferred /\ (pc = "drain" => d > 1)
AheadInv ==
  \A k \in DOMAIN chains : \A p \in DOMAIN chains[k].plan : Ahead(k, p) =>
    /\ Unspent(wac, PlanAt(k, p))
    /\ Elems(PlanAt(k, p)) \cap Elems(todo) = {}
    /\ \A d \in DOMAIN deferred : Elems(PlanAt(k, p)) \cap Elems(deferred[d].mdls) = {}
TodoInv ==
  /\ pc \notin {"inject", "drain"} => todo = <<>>
  /\ pc \in {"chains", "rules"} => wac.lines = <<>>
  /\ Once(todo) /\ Unspent(wac, todo)
PutOffInv ==
  \A d \in DOMAIN deferred :
    /\ Once(deferred[d].mdls)
    /\ PutOff(d) => Unspent(wac, deferred[d].mdls) /\ Elems(deferred[d].mdls) \cap Elems(todo) = {}
    /\ \A e \in DOMAIN deferred : d # e => Elems(deferred[d].mdls) \cap Elems(deferred[e].mdls) = {}
FreshInv == AheadInv /\ TodoInv /\ PutOffInv

(* The lines.  A node that has one is known to be made, a middleware that   *)
(* is shared by its adapters is known to be emitted; fan-in consumers are   *)
(* made by their own pass only.                                             *)
Distinct(w) == \A j, k \in 1..Len(w.lines) : w.lines[j].var = w.lines[k].var => j = k
Known(w) ==
  /\ \A n \in Nodes : Defined(w, NodeVar(n)) => w.inst[n] # None
  /\ \A m \in Mdls : Defined(w, ConfigVar(m)) \/ (m \in Adapted /\ Defined(w, MdlVar(m))) => m \in w.emitted
MadeInv ==
  /\ \A n \in FanIn : wac.inst[n] # None => outer[n] # None
  /\ pc \in {"exports", "done"} => \A n \in FanIn : wac.inst[n] # None

Fine(w) == Distinct(w) /\ Known(w)
LetsInv == PlanInv /\ FreshInv /\ Fine(wac) /\ MadeInv

-----------------------------------------------------------------------------
(* The builder again: which names a step defines.                           *)
LEMMA NamesDiffer ==
  /\ \A n, m : NodeVar(n) = NodeVar(m) => n = m
  /\ \A n, m : MdlVar(n) = MdlVar(m) => n = m
  /\ \A n, m : ConfigVar(n) = ConfigVar(m) => n = m
  /\ \A n, m, i, j : AdapterVar(n, i) = AdapterVar(m, j) => n = m /\ i = j
  /\ \A n, m : NodeVar(n) # MdlVar(m) /\ NodeVar(n) # ConfigVar(m) /\ MdlVar(n) # ConfigVar(m)
  /\ \A n, m, i : /\ AdapterVar(m, i) # NodeVar(n) /\ AdapterVar(m, i) # MdlVar(n)
                  /\ AdapterVar(m, i) # ConfigVar(n)
<1>1. /\ \A n : NodeVar(n)[1] = "node" /\ NodeVar(n)[2] = n
      /\ \A n : MdlVar(n)[1] = "mdl" /\ MdlVar(n)[2] = n
      /\ \A n : ConfigVar(n)[1] = "config" /\ ConfigVar(n)[2] = n
      /\ \A n, i : AdapterVar(n, i)[1] = "adapter" /\ AdapterVar(n, i)[2] = n /\ AdapterVar(n, i)[3] = i
  BY DEF NodeVar, MdlVar, ConfigVar, AdapterVar
<1>2. "node" # "mdl" /\ "node" # "config" /\ "node" # "adapter" /\ "mdl" # "config"
      /\ "mdl" # "adapter" /\ "config" # "adapter"
  OBVIOUS
<1> QED BY <1>1, <1>2

LEMMA LetFine ==
  ASSUME NEW w \in WacType, NEW v \in Variables, NEW uses \in SUBSET Wires,
         Distinct(w), ~Defined(w, v)
  PROVE  /\ Distinct(Let(w, v, uses))
         /\ \A u : Defined(Let(w, v, uses), u) <=> Defined(w, u) \/ u = v
<1> DEFINE line == [var |-> v, uses |-> uses]
           x == Let(w, v, uses)
<1>1. w.lines \in Seq(LineType) /\ line \in LineType /\ line.var = v
  BY DEF WacType, LineType
<1>2. x.lines = Append(w.lines, line)
  BY DEF Let, WacType
<1> HIDE DEF x, line
<1>3. /\ Len(x.lines) = Len(w.lines) + 1 /\ Len(w.lines) \in Nat
      /\ x.lines[Len(w.lines) + 1] = line
      /\ \A j \in 1..Len(w.lines) : x.lines[j] = w.lines[j]
  BY <1>1, <1>2, AppendFacts
<1>4. \A u : Defined(x, u) <=> Defined(w, u) \/ u = v
  BY <1>1, <1>3 DEF Defined
<1>5. \A j \in 1..Len(w.lines) : w.lines[j].var # v
  BY DEF Defined
<1>6. Distinct(x)
  <2> SUFFICES ASSUME NEW j \in 1..Len(x.lines), NEW k \in 1..Len(x.lines), x.lines[j].var = x.lines[k].var
               PROVE  j = k
    BY DEF Distinct
  <2>1. /\ j \in 1..Len(w.lines) \/ (j = Len(w.lines) + 1 /\ x.lines[j].var = v)
        /\ k \in 1..Len(w.lines) \/ (k = Len(w.lines) + 1 /\ x.lines[k].var = v)
    BY <1>1, <1>3
  <2>2. /\ j \in 1..Len(w.lines) => x.lines[j].var = w.lines[j].var
        /\ k \in 1..Len(w.lines) => x.lines[k].var = w.lines[k].var
    BY <1>3
  <2> QED BY <1>5, <2>1, <2>2 DEF Distinct
<1> QED BY <1>4, <1>6 DEF x

(* What is not a line changes neither.                                      *)
LEMMA SameLines ==
  ASSUME NEW w, NEW x, x.lines = w.lines
  PROVE  /\ Distinct(w) => Distinct(x)
         /\ \A u : Defined(x, u) <=> Defined(w, u)
         /\ \A m : Spent(x, m) <=> Spent(w, m)
<1>1. \A u : Defined(x, u) <=> Defined(w, u)
  BY DEF Defined
<1> QED BY <1>1 DEF Distinct, Spent

(* A node's instance is made under the node's own name, if at all.          *)
LEMMA GetOrCreateFine ==
  ASSUME GraphType, NEW w, Builder(w), Fine(w), NEW n \in Nodes, NEW over \in Wires \union {None},
         over # None => Defined(w, over.from)
  PROVE  LET x == GetOrCreateInst(w, n, over)
         IN  Fine(x) /\ \A m : Spent(x, m) <=> Spent(w, m)
<1> DEFINE x == GetOrCreateInst(w, n, over)
<1>0. w \in WacType /\ Split(n) \in Nodes \union {Root} /\ NodeVar(n) \in Variables /\ NodeVar(n) # None
  BY SplitType, VariableTypes, NoneAssumption DEF Builder
<1>1. CASE w.inst[n] # None
  BY <1>1 DEF GetOrCreateInst
<1>2. CASE w.inst[n] = None /\ w.split[Split(n)] # None
  <2>1. x = [w EXCEPT !.inst[n] = w.split[Split(n)]]
    BY <1>2 DEF GetOrCreateInst
  <2> HIDE DEF x
  <2>2. /\ x.inst = [w.inst EXCEPT ![n] = w.split[Split(n)]]
        /\ x.lines = w.lines /\ x.emitted = w.emitted
    BY <1>0, <2>1 DEF WacType
  <2>3. x.inst[n] # None /\ \A m \in Nodes \ {n} : x.inst[m] = w.inst[m]
    BY <1>0, <1>2, <2>2 DEF WacType
  <2>4. Distinct(x) /\ (\A u : Defined(x, u) <=> Defined(w, u)) /\ \A m : Spent(x, m) <=> Spent(w, m)
    BY <2>2, SameLines DEF Fine
  <2>5. Known(x)
    BY <2>2, <2>3, <2>4 DEF Fine, Known
  <2> QED BY <2>4, <2>5 DEF Fine, x
<1>3. CASE w.inst[n] = None /\ w.split[Split(n)] = None
  <2> DEFINE y == Let(w, NodeVar(n), Wiring(w, n, over))
  <2>1. x = [y EXCEPT !.inst[n] = NodeVar(n), !.split[Split(n)] = NodeVar(n)]
    BY <1>3 DEF GetOrCreateInst
  <2>2. ~Defined(w, NodeVar(n))
    BY <1>3 DEF Fine, Known
  <2>3. Distinct(y) /\ \A u : Defined(y, u) <=> Defined(w, u) \/ u = NodeVar(n)
    BY <1>0, <2>2, WiringDefined, LetFine DEF Fine
  <2>4. y \in WacType /\ y.inst = w.inst /\ y.emitted = w.emitted
    BY <1>0, WiringDefined, LetBuilds DEF Builder
  <2> HIDE DEF x, y
  <2>5. /\ x.lines = y.lines /\ x.emitted = y.emitted /\ x.inst = [y.inst EXCEPT ![n] = NodeVar(n)]
    BY <1>0, <2>1, <2>4 DEF WacType
  <2>6. x.inst[n] # None /\ \A m \in Nodes \ {n} : x.inst[m] = w.inst[m]
    BY <1>0, <2>4, <2>5 DEF WacType
  <2>7. Distinct(x) /\ \A u : Defined(x, u) <=> Defined(w, u) \/ u = NodeVar(n)
    BY <2>3, <2>5, SameLines
  <2>8. Known(x)
    BY <2>4, <2>5, <2>6, <2>7, NamesDiffer DEF Fine, Known
  <2>9. \A m : Spent(x, m) <=> Spent(w, m)
    BY <2>7, NamesDiffer DEF Spent
  <2> QED BY <2>7, <2>8, <2>9 DEF Fine, x
<1> QED BY <1>1, <1>2, <1>3

LEMMA LatestFine ==
  ASSUME NEW w \in WacType, Fine(w), NEW i, NEW v
  PROVE  Fine(Latest(w, i, v)) /\ \A m : Spent(Latest(w, i, v), m) <=> Spent(w, m)
<1> DEFINE x == Latest(w, i, v)
<1>1. x.lines = w.lines /\ x.inst = w.inst /\ x.emitted = w.emitted
  BY DEF Latest, WacType
<1> HIDE DEF x
<1>2. Distinct(x) /\ (\A u : Defined(x, u) <=> Defined(w, u)) /\ \A m : Spent(x, m) <=> Spent(w, m)
  BY <1>1, SameLines DEF Fine
<1> QED BY <1>1, <1>2 DEF Fine, Known, x

LEMMA PlacedFine ==
  ASSUME GraphType, NEW w, Builder(w), Fine(w), NEW n \in Nodes, NEW i
  PROVE  Fine(Placed(w, n, i)) /\ \A m : Spent(Placed(w, n, i), m) <=> Spent(w, m)
<1> DEFINE v == GetOrCreateInst(w, n, w.over)
<1>1. w.over \in Wires \union {None} /\ (w.over # None => Defined(w, w.over.from))
  BY DEF Builder, WacType, Remembered
<1>2. v \in WacType /\ Fine(v) /\ \A m : Spent(v, m) <=> Spent(w, m)
  BY <1>1, GetOrCreateBuilds, GetOrCreateFine DEF Builder
<1> HIDE DEF v
<1>3. Fine(Latest(v, i, v.inst[n])) /\ \A m : Spent(Latest(v, i, v.inst[n]), m) <=> Spent(v, m)
  BY <1>2, LatestFine
<1> QED BY <1>2, <1>3 DEF Placed, v

(* A shared middleware and its config provider are named once.              *)
LEMMA EmitRealFine ==
  ASSUME NEW w, Builder(w), Fine(w), NEW m \in Adapted \cap Mdls
  PROVE  LET x == EmitReal(w, m)
         IN  Fine(x) /\ \A l : Spent(x, l) <=> Spent(w, l)
<1> DEFINE x == EmitReal(w, m)
<1>0. MdlVar(m) \in Variables /\ ConfigVar(m) \in Variables /\ m \in Mdls /\ m \in Adapted
  BY VariableTypes
<1>1. CASE m \in w.emitted
  BY <1>1 DEF EmitReal
<1>2. CASE m \notin w.emitted
  <2> DEFINE y  == IF m \in Configured THEN Let(w, ConfigVar(m), {}) ELSE w
             us == IF m \in Configured THEN {Wire("config", ConfigVar(m))} ELSE {}
             z  == Let(y, MdlVar(m), us)
  <2>0. ~Defined(w, MdlVar(m)) /\ ~Defined(w, ConfigVar(m))
    BY <1>0, <1>2 DEF Fine, Known
  <2>1. /\ Builder(y) /\ y.inst = w.inst /\ y.emitted = w.emitted
        /\ Distinct(y) /\ \A u : Defined(w, u) => Defined(y, u)
        /\ \A u : Defined(y, u) => Defined(w, u) \/ u = ConfigVar(m)
        /\ m \in Configured => Defined(y, ConfigVar(m))
    <3>1. CASE m \in Configured
      <4>1. Builder(y) /\ y.inst = w.inst /\ y.emitted = w.emitted
        BY <1>0, <3>1, LetBuilds
      <4>2. Distinct(y) /\ \A u : Defined(y, u) <=> Defined(w, u) \/ u = ConfigVar(m)
        BY <1>0, <2>0, <3>1, LetFine DEF Fine, Builder
      <4> QED BY <4>1, <4>2
    <3>2. CASE m \notin Configured
      BY <3>2 DEF Fine
    <3> QED BY <3>1, <3>2
  <2>2. us \in SUBSET Wires /\ \A u \in us : Defined(y, u.from)
    BY <1>0, <2>1 DEF Wires, Wire
  <2>3. ~Defined(y, MdlVar(m))
    BY <2>0, <2>1, NamesDiffer
  <2> HIDE DEF y, us
  <2>4. z \in WacType /\ z.inst = w.inst /\ z.emitted = w.emitted
    BY <1>0, <2>1, <2>2, LetBuilds DEF Builder
  <2>5. Distinct(z) /\ \A u : Defined(z, u) <=> Defined(y, u) \/ u = MdlVar(m)
    BY <1>0, <2>1, <2>2, <2>3, LetFine DEF Builder
  <2>6. x = [z EXCEPT !.emitted = z.emitted \union {m}]
    BY <1>2, <2>1, <2>4 DEF EmitReal, Let, WacType, Builder, y, us
  <2> HIDE DEF x, z
  <2>7. x.lines = z.lines /\ x.inst = w.inst /\ x.emitted = w.emitted \union {m}
    BY <2>4, <2>6 DEF WacType
  <2>8. Distinct(x) /\ \A u : Defined(x, u) => Defined(w, u) \/ u \in {ConfigVar(m), MdlVar(m)}
    BY <2>1, <2>5, <2>7, SameLines
  <2>9. \A u : Defined(w, u) => Defined(x, u)
    BY <2>1, <2>5, <2>7, SameLines
  <2>10. Known(x)
    <3>1. \A n \in Nodes : Defined(x, NodeVar(n)) => x.inst[n] # None
      BY <2>7, <2>8, NamesDiffer DEF Fine, Known
    <3>2. ASSUME NEW l \in Mdls, Defined(x, ConfigVar(l)) \/ (l \in Adapted /\ Defined(x, MdlVar(l)))
          PROVE  l \in x.emitted
      <4>1. l = m \/ Defined(w, ConfigVar(l)) \/ (l \in Adapted /\ Defined(w, MdlVar(l)))
        BY <2>8, <3>2, NamesDiffer
      <4> QED BY <2>7, <4>1 DEF Fine, Known
    <3> QED BY <3>1, <3>2 DEF Known
  <2>11. \A l : Spent(x, l) <=> Spent(w, l)
    BY <1>0, <2>8, <2>9, NamesDiffer DEF Spent
  <2> QED BY <2>8, <2>10, <2>11 DEF Fine, x
<1> QED BY <1>1, <1>2

(* A middleware that is put in for the first time has a name of its own.    *)
LEMMA CreateMdlFine ==
  ASSUME NEW w, Builder(w), Fine(w), w.last # None, NEW m \in Mdls, NEW i \in Ifaces, ~Spent(w, m)
  PROVE  LET x == CreateMdl(w, m, i)
         IN  Fine(x) /\ \A l : Spent(x, l) => Spent(w, l) \/ l = m
<1> DEFINE x == CreateMdl(w, m, i)
<1>0. /\ MdlVar(m) \in Variables /\ AdapterVar(m, i) \in Variables
      /\ w.last \in Variables /\ Defined(w, w.last)
  BY VariableTypes DEF Builder, WacType, Remembered
<1>1. CASE m \in Adapted
  <2> DEFINE y  == EmitReal(w, m)
             us == {Wire(i, w.last), Wire("hooks", MdlVar(m))}
             z  == Let(y, AdapterVar(m, i), us)
  <2>1. Builder(y) /\ Extends(w, y) /\ Defined(y, MdlVar(m)) /\ y.last = w.last
    BY EmitRealBuilds
  <2>2. Fine(y) /\ \A l : Spent(y, l) <=> Spent(w, l)
    BY <1>1, EmitRealFine
  <2>3. us \in SUBSET Wires /\ \A u \in us : Defined(y, u.from)
    BY <1>0, <2>1 DEF Wires, Wire, Extends
  <2>4. ~Defined(y, AdapterVar(m, i))
    BY <1>1, <2>2 DEF Spent
  <2> HIDE DEF y, us
  <2>5. z \in WacType /\ z.inst = y.inst /\ z.emitted = y.emitted
    BY <1>0, <2>1, <2>3, LetBuilds DEF Builder
  <2>6. Distinct(z) /\ \A u : Defined(z, u) <=> Defined(y, u) \/ u = AdapterVar(m, i)
    BY <1>0, <2>1, <2>2, <2>3, <2>4, LetFine DEF Builder, Fine
  <2> HIDE DEF z
  <2>7. Fine(z)
    BY <2>2, <2>5, <2>6, NamesDiffer DEF Fine, Known
  <2>8. \A l : Spent(z, l) => Spent(y, l) \/ l = m
    BY <2>6, NamesDiffer DEF Spent
  <2>9. x = Latest(z, i, AdapterVar(m, i))
    BY <1>1, <2>1 DEF CreateMdl, y, z, us
  <2> HIDE DEF x
  <2>10. Fine(x) /\ \A l : Spent(x, l) <=> Spent(z, l)
    BY <2>5, <2>7, <2>9, LatestFine
  <2> QED BY <2>2, <2>8, <2>10 DEF x
<1>2. CASE m \notin Adapted
  <2> DEFINE us == {Wire(i, w.last)}
             z  == Let(w, MdlVar(m), us)
  <2>1. us \in SUBSET Wires /\ \A u \in us : Defined(w, u.from)
    BY <1>0 DEF Wires, Wire
  <2>2. ~Defined(w, MdlVar(m))
    BY <1>2 DEF Spent
  <2> HIDE DEF us
  <2>3. z \in WacType /\ z.inst = w.inst /\ z.emitted = w.emitted
    BY <1>0, <2>1, LetBuilds DEF Builder
  <2>4. Distinct(z) /\ \A u : Defined(z, u) <=> Defined(w, u) \/ u = MdlVar(m)
    BY <1>0, <2>1, <2>2, LetFine DEF Builder, Fine
  <2> HIDE DEF z
  <2>5. Fine(z)
    BY <1>2, <2>3, <2>4, NamesDiffer DEF Fine, Known
  <2>6. \A l : Spent(z, l) => Spent(w, l) \/ l = m
    BY <2>4, NamesDiffer DEF Spent
  <2>7. x = Latest(z, i, MdlVar(m))
    BY <1>2 DEF CreateMdl, z, us
  <2> HIDE DEF x
  <2>8. Fine(x) /\ \A l : Spent(x, l) <=> Spent(z, l)
    BY <2>3, <2>5, <2>7, LatestFine
  <2> QED BY <2>6, <2>8 DEF x
<1> QED BY <1>1, <1>2

-----------------------------------------------------------------------------
(* The chains.                                                              *)
LEMMA InitLets == Init => InputInv /\ ChainsInv /\ LetsInv
<1> SUFFICES ASSUME Init PROVE InputInv /\ ChainsInv /\ LetsInv
  OBVIOUS
<1>1. InputInv
  <2>1. PICK k \in DOMAIN Inputs : \E x \in Inputs[k] : imports = x.imports /\ rules = x.rules
    BY DEF Init
  <2> QED BY <2>1, InputsAssumption DEF InputInv
<1>2. /\ chains = <<>> /\ growing = <<>> /\ todo = <<>> /\ deferred = <<>> /\ pc = "chains"
      /\ wac.lines = <<>> /\ Len(wac.lines) = 0
  BY DEF Init
<1>3. ChainsInv
  BY <1>2 DEF ChainsInv
<1>4. PlanInv
  BY <1>2 DEF PlanInv
<1>5. \A v : ~Defined(wac, v)
  BY <1>2 DEF Defined
<1>6. Fine(wac)
  BY <1>2, <1>5 DEF Fine, Distinct, Known
<1>7. MadeInv
  BY <1>2 DEF MadeInv, Init, FanIn
<1>8. FreshInv
  BY <1>2 DEF FreshInv, AheadInv, TodoInv, PutOffInv, Once, Unspent, Elems
<1> QED BY <1>1, <1>3, <1>4, <1>6, <1>7, <1>8 DEF LetsInv

LEMMA InputStep == ASSUME InputInv, [Next]_vars PROVE InputInv' /\ UNCHANGED input
<1>1. UNCHANGED input
  BY DEF Next, SkipImport, StartChain, GrowChain, CloseChain, Standalone, ApplyRule, RulesApplied,
         PreInstantiate, StartWalk, DeferInject, Place, ReachFanIn, InjectNext, LeaveFanIn, Leave,
         InstantiateFanIn, StartDrain, FinishDrain, StartExports, EmitExport, Finish, Terminated,
         NextImport, vars, input
<1> QED BY <1>1 DEF InputInv, input, NamesUnique

LEMMA HandledKept == ASSUME UNCHANGED imports PROVE Handled' = Handled
BY DEF Handled

LEMMA PrependFacts ==
  ASSUME NEW S, NEW s \in Seq(S), NEW e \in S
  PROVE  /\ <<e>> \o s \in Seq(S) /\ Len(<<e>> \o s) = Len(s) + 1 /\ Len(s) \in Nat
         /\ (<<e>> \o s)[1] = e
         /\ \A j \in 2..(Len(s) + 1) : (<<e>> \o s)[j] = s[j - 1]
OBVIOUS

(* A chain grows at its front, by the provider of what stands there.        *)
LEMMA StartChainChains == ASSUME Inv, InputInv, ChainsInv, StartChain PROVE ChainsInv'
<1>1. /\ pc = "chains" /\ at[1] \in Nodes /\ Cursor \in Ifaces /\ Cursor \notin Planned
      /\ imports[at[1]][Cursor] \in Nodes /\ UNCHANGED <<input, pc, at, chains>>
      /\ growing' = <<imports[at[1]][Cursor], at[1]>>
  BY CursorIface, SizesAssumption DEF Inv, StartChain, CursorInv, Types, GraphType, Nodes
<1>2. /\ Handled' = Handled /\ Cursor' = Cursor /\ Planned' = Planned /\ UNCHANGED imports
  BY <1>1, HandledKept DEF Cursor, Planned, input
<1>3. imports[at[1]][Cursor] < at[1] /\ imports[at[1]][Cursor] # Host /\ Cursor \in Handled
  <2>1. imports[at[1]][Cursor] < at[1]
    BY <1>1 DEF InputInv
  <2>2. imports[at[1]][Cursor] # Host
    BY DEF StartChain
  <2> QED BY <1>1, <2>1, <2>2 DEF Handled
<1>4. DOMAIN growing' = {1, 2} /\ growing'[1] = imports[at[1]][Cursor] /\ growing'[2] = at[1]
  BY <1>1
<1>5. Rising(growing') /\ InLine(growing', Cursor)
  BY <1>3, <1>4 DEF Rising, InLine
<1> QED BY <1>1, <1>2, <1>3, <1>5 DEF ChainsInv, InLine

LEMMA GrowChainChains == ASSUME Inv, InputInv, ChainsInv, GrowChain PROVE ChainsInv'
<1> DEFINE e == imports[growing[1]][Cursor]
<1>1. /\ pc = "chains" /\ growing # <<>> /\ growing \in Seq(Nodes) /\ growing[1] \in Nodes
      /\ Cursor \in Ifaces /\ e \in Nodes /\ growing' = <<e>> \o growing
      /\ UNCHANGED <<input, pc, at, chains>>
  BY CursorIface DEF Inv, GrowChain, Types, GraphType
<1>2. Handled' = Handled /\ Cursor' = Cursor /\ Planned' = Planned
  BY <1>1, HandledKept DEF Cursor, Planned, input
<1>3. e < growing[1] /\ e \in Nat /\ \A n \in Nodes : n \in Nat
  BY <1>1, SizesAssumption DEF InputInv, Nodes
<1>4. e = imports[growing[1]][Cursor]
  OBVIOUS
<1> HIDE DEF e
<1>5. /\ Len(growing') = Len(growing) + 1 /\ Len(growing) \in Nat /\ growing' \in Seq(Nodes)
      /\ growing'[1] = e
      /\ \A j \in 2..(Len(growing) + 1) : growing'[j] = growing[j - 1]
  BY <1>1, PrependFacts
<1>6. Rising(growing) /\ InLine(growing, Cursor) /\ Cursor \in Handled /\ Cursor \notin Planned
  BY <1>1 DEF ChainsInv
<1>7. Rising(growing')
  <2> SUFFICES ASSUME NEW p \in 1..Len(growing'), NEW q \in 1..Len(growing'), p < q
               PROVE  growing'[p] < growing'[q]
    BY <1>5 DEF Rising
  <2>1. growing'[q] = growing[q - 1] /\ q - 1 \in 1..Len(growing)
    BY <1>5
  <2>2. CASE p = 1
    <3>1. q - 1 = 1 \/ growing[1] < growing[q - 1]
      BY <1>1, <1>6, <2>1 DEF Rising
    <3>2. growing[q - 1] \in Nat /\ growing[1] \in Nat
      <4>1. growing[q - 1] \in Nodes /\ growing[1] \in Nodes
        BY <1>1, <2>1
      <4> QED BY <1>3, <4>1
    <3>3. e < growing[q - 1]
      BY <1>3, <3>1, <3>2
    <3> QED BY <1>5, <2>1, <2>2, <3>3
  <2>3. CASE p # 1
    <3>1. growing'[p] = growing[p - 1] /\ p - 1 \in 1..Len(growing)
      BY <1>5, <2>3
    <3> QED BY <1>1, <1>6, <2>1, <3>1 DEF Rising
  <2> QED BY <2>2, <2>3
<1>8. InLine(growing', Cursor)
  <2> SUFFICES ASSUME NEW p \in 1..Len(growing'), p > 1
               PROVE  imports[growing'[p]][Cursor] = growing'[p - 1]
    BY <1>5 DEF InLine
  <2>1. growing'[p] = growing[p - 1] /\ p - 1 \in 1..Len(growing)
    BY <1>5
  <2>2. CASE p = 2
    BY <1>4, <1>5, <2>1, <2>2
  <2>3. CASE p # 2
    <3>1. growing'[p - 1] = growing[p - 2] /\ p - 1 > 1 /\ (p - 1) - 1 = p - 2
      BY <1>5, <2>3
    <3> QED BY <1>1, <1>6, <2>1, <3>1 DEF InLine
  <2> QED BY <2>2, <2>3
<1> QED BY <1>1, <1>2, <1>6, <1>7, <1>8 DEF ChainsInv, InLine, input

LEMMA NewChainFacts ==
  ASSUME NEW i, NEW nodes
  PROVE  /\ NewChain(i, nodes).iface = i /\ NewChain(i, nodes).nodes = nodes
         /\ DOMAIN NewChain(i, nodes).plan = DOMAIN nodes
         /\ \A p \in DOMAIN nodes : NewChain(i, nodes).plan[p] = <<>>
BY DEF NewChain

(* One more chain, for an interface that has none.                          *)
LEMMA ChainAdded ==
  ASSUME Inv, ChainsInv, NEW i \in Ifaces, NEW nodes \in Seq(Nodes), i \notin Planned, nodes # <<>>,
         Rising(nodes), InLine(nodes, i), i \in Handled \/ Len(nodes) = 1,
         chains' = Append(chains, NewChain(i, nodes)), growing' = <<>>, UNCHANGED input,
         pc' = "chains" => \A k \in DOMAIN chains' :
           \/ chains'[k].iface \in Handled
           \/ at'[1] = 0 /\ \E j \in 1..(at'[2] - 1) : chains'[k].iface = IfaceOrder[j]
  PROVE  ChainsInv'
<1> DEFINE c == NewChain(i, nodes)
<1>1. chains \in Seq(ChainType) /\ c \in ChainType /\ c.iface = i /\ c.nodes = nodes
  BY NewChainType, NewChainFacts DEF Inv, Types
<1> HIDE DEF c
<1>2. /\ Len(chains') = Len(chains) + 1 /\ Len(chains) \in Nat /\ chains' \in Seq(ChainType)
      /\ chains'[Len(chains) + 1] = c
      /\ \A j \in 1..Len(chains) : chains'[j] = chains[j]
  BY <1>1, AppendFacts DEF c
<1>3. Handled' = Handled
  BY HandledKept DEF input
<1>4. \A k \in 1..Len(chains) : chains[k].iface # i
  BY <1>1 DEF Planned
<1>5. ASSUME NEW j \in DOMAIN chains', NEW k \in DOMAIN chains', chains'[j].iface = chains'[k].iface
      PROVE  j = k
  BY <1>1, <1>2, <1>4, <1>5 DEF ChainsInv
<1>6. ASSUME NEW k \in DOMAIN chains'
      PROVE  /\ Rising(chains'[k].nodes) /\ InLine(chains'[k].nodes, chains'[k].iface)
             /\ chains'[k].iface \notin Handled => Len(chains'[k].nodes) = 1
  BY <1>1, <1>2, <1>6 DEF ChainsInv
<1> QED BY <1>3, <1>5, <1>6 DEF ChainsInv, InLine, input

LEMMA CloseChainChains == ASSUME Inv, InputInv, ChainsInv, CloseChain PROVE ChainsInv'
<1>1. /\ pc = "chains" /\ growing # <<>> /\ growing \in Seq(Nodes) /\ Cursor \in Ifaces /\ at[1] > 0
      /\ chains' = Append(chains, NewChain(Cursor, growing)) /\ growing' = <<>> /\ UNCHANGED input
      /\ chains \in Seq(ChainType)
  BY CursorIface DEF Inv, CloseChain, NextImport, Types, CursorInv
<1>2. Cursor \in Handled /\ Cursor \notin Planned /\ Rising(growing) /\ InLine(growing, Cursor)
  BY <1>1 DEF ChainsInv
<1>3. \A k \in DOMAIN chains : chains[k].iface \in Handled
  BY <1>1 DEF ChainsInv
<1>4. NewChain(Cursor, growing) \in ChainType /\ NewChain(Cursor, growing).iface = Cursor
  BY <1>1, NewChainType, NewChainFacts
<1>5. \A k \in DOMAIN chains' : chains'[k].iface \in Handled
  BY <1>1, <1>2, <1>3, <1>4
<1> QED BY <1>1, <1>2, <1>5, ChainAdded

LEMMA StandaloneChains == ASSUME Inv, InputInv, ChainsInv, Standalone PROVE ChainsInv'
<1>1. /\ pc = "chains" /\ at[1] = 0 /\ growing = <<>> /\ growing' = <<>> /\ Cursor \in Ifaces
      /\ at[2] \in 1..Len(IfaceOrder) /\ Len(IfaceOrder) \in Nat /\ chains \in Seq(ChainType)
      /\ UNCHANGED input /\ exports[Cursor] \in {Host} \union Nodes
      /\ pc' = "chains" => at' = <<0, at[2] + 1>>
  BY CursorIface DEF Inv, Standalone, CursorInv, Types
<1>2. Cursor = IfaceOrder[at[2]] /\ Handled' = Handled
  BY <1>1, HandledKept DEF Cursor, input
<1>3. \A k \in DOMAIN chains : \/ chains[k].iface \in Handled
                              \/ \E j \in 1..(at[2] - 1) : chains[k].iface = IfaceOrder[j]
  BY <1>1 DEF ChainsInv
<1>4. CASE exports[Cursor] = Host \/ Cursor \in Handled
  <2>1. chains' = chains
    BY <1>4 DEF Standalone
  <2>2. pc' = "chains" => \A k \in DOMAIN chains' :
           \/ chains'[k].iface \in Handled
           \/ at'[1] = 0 /\ \E j \in 1..(at'[2] - 1) : chains'[k].iface = IfaceOrder[j]
    BY <1>1, <1>3, <2>1
  <2> QED BY <1>1, <1>2, <2>1, <2>2 DEF ChainsInv, InLine, input
<1>5. CASE ~(exports[Cursor] = Host \/ Cursor \in Handled)
  <2> DEFINE ns == <<exports[Cursor]>>
  <2>1. ns \in Seq(Nodes) /\ ns # <<>> /\ Len(ns) = 1 /\ DOMAIN ns = {1}
    BY <1>1, <1>5
  <2>2. chains' = Append(chains, NewChain(Cursor, ns))
    BY <1>5 DEF Standalone
  <2> HIDE DEF ns
  <2>3. Rising(ns) /\ InLine(ns, Cursor)
    BY <2>1 DEF Rising, InLine
  <2>4. Cursor \notin Planned
    <3>1. ASSUME NEW j \in 1..(at[2] - 1) PROVE IfaceOrder[j] # Cursor
      BY <1>1, <1>2, SizesAssumption
    <3> QED BY <1>3, <1>5, <3>1 DEF Planned
  <2>5. NewChain(Cursor, ns) \in ChainType /\ NewChain(Cursor, ns).iface = Cursor
    BY <1>1, <2>1, NewChainType, NewChainFacts
  <2>6. ASSUME pc' = "chains", NEW k \in DOMAIN chains'
        PROVE  \/ chains'[k].iface \in Handled
               \/ at'[1] = 0 /\ \E j \in 1..(at'[2] - 1) : chains'[k].iface = IfaceOrder[j]
    <3>1. CASE k \in DOMAIN chains
      <4>1. chains'[k] = chains[k]
        BY <1>1, <2>2, <2>5, <3>1, AppendFacts
      <4> QED BY <1>1, <1>3, <2>6, <3>1, <4>1
    <3>2. CASE k \notin DOMAIN chains
      <4>1. chains'[k].iface = Cursor
        BY <1>1, <2>2, <2>5, <3>2, AppendFacts
      <4> QED BY <1>1, <1>2, <2>6, <4>1
    <3> QED BY <3>1, <3>2
  <2> QED BY <1>1, <1>5, <2>1, <2>2, <2>3, <2>4, <2>6, ChainAdded
<1> QED BY <1>4, <1>5

LEMMA WithRuleFacts ==
  ASSUME NEW r, NEW c \in ChainType
  PROVE  /\ WithRule(r, c).iface = c.iface /\ WithRule(r, c).nodes = c.nodes
         /\ DOMAIN WithRule(r, c).plan = DOMAIN c.plan /\ DOMAIN c.plan = DOMAIN c.nodes
         /\ \A p \in DOMAIN c.plan :
              WithRule(r, c).plan[p] = IF Matches(r, c, p) THEN c.plan[p] \o r.mdls ELSE c.plan[p]
BY DEF WithRule, ChainType

LEMMA ApplyRuleChains == ASSUME Inv, InputInv, ChainsInv, ApplyRule PROVE ChainsInv'
<1>1. /\ pc = "rules" /\ pc' = "rules" /\ growing' = growing /\ UNCHANGED input
      /\ chains \in Seq(ChainType)
      /\ chains' = [k \in DOMAIN chains |-> WithRule(rules[at[1]], chains[k])]
  BY DEF ApplyRule, Inv, Types
<1>2. \A k \in DOMAIN chains : chains'[k].iface = chains[k].iface /\ chains'[k].nodes = chains[k].nodes
  BY <1>1, WithRuleFacts
<1>3. DOMAIN chains' = DOMAIN chains /\ Handled' = Handled /\ growing = <<>>
  BY <1>1, HandledKept DEF input, ChainsInv
<1> QED BY <1>1, <1>2, <1>3 DEF ChainsInv, InLine, input

(* Later the chains stay as they are.                                       *)
LEMMA ChainsKept ==
  ASSUME ChainsInv, UNCHANGED <<input, planned>>, growing = <<>>,
         pc' # "chains" \/ UNCHANGED <<pc, at>>
  PROVE  ChainsInv'
<1>1. Handled' = Handled
  BY HandledKept DEF input
<1> QED BY <1>1 DEF ChainsInv, InLine, input, planned

LEMMA SkipImportChains == ASSUME Inv, InputInv, ChainsInv, SkipImport PROVE ChainsInv'
<1>1. /\ pc = "chains" /\ at[1] > 0 /\ growing = <<>> /\ UNCHANGED <<input, planned>>
  BY DEF SkipImport, NextImport
<1>2. Handled' = Handled /\ at[1] # 0
  BY <1>1, HandledKept DEF input, Inv, Types
<1> QED BY <1>1, <1>2 DEF ChainsInv, InLine, input, planned

LEMMA ChainsStep == ASSUME Inv, InputInv, ChainsInv, [Next]_vars PROVE ChainsInv'
<1>1. CASE SkipImport \/ StartChain \/ GrowChain \/ CloseChain \/ Standalone \/ ApplyRule
  BY <1>1, SkipImportChains, StartChainChains, GrowChainChains, CloseChainChains, StandaloneChains,
     ApplyRuleChains
<1>2. CASE UNCHANGED vars
  BY <1>2, HandledKept DEF vars, ChainsInv, InLine, Cursor, Planned
<1>3. CASE /\ UNCHANGED <<input, planned>>
           /\ pc # "chains" /\ pc' # "chains"
  <2>1. growing = <<>>
    BY <1>3 DEF ChainsInv
  <2> QED BY <1>3, <2>1, ChainsKept
<1>4. \/ SkipImport \/ StartChain \/ GrowChain \/ CloseChain \/ Standalone \/ ApplyRule
      \/ UNCHANGED vars
      \/ /\ UNCHANGED <<input, planned>>
         /\ pc # "chains" /\ pc' # "chains"
  BY DEF Next, RulesApplied, PreInstantiate, StartWalk, DeferInject, Place, ReachFanIn, InjectNext,
         LeaveFanIn, Leave, Advance, InstantiateFanIn, StartDrain, FinishDrain, StartExports,
         EmitExport, Finish, Terminated
<1> QED BY <1>1, <1>2, <1>3, <1>4

-----------------------------------------------------------------------------
(* Sequences of middleware.                                                 *)
LEMMA ConcatOnce ==
  ASSUME NEW S, NEW s \in Seq(S), NEW t \in Seq(S), Once(s), Once(t), Elems(s) \cap Elems(t) = {}
  PROVE  Once(s \o t) /\ Elems(s \o t) = Elems(s) \union Elems(t)
<1>1. /\ s \o t \in Seq(S) /\ Len(s \o t) = Len(s) + Len(t) /\ Len(s) \in Nat /\ Len(t) \in Nat
      /\ \A j \in 1..Len(s) : (s \o t)[j] = s[j]
      /\ \A j \in 1..Len(t) : (s \o t)[Len(s) + j] = t[j]
  OBVIOUS
<1> DEFINE c == s \o t
<1>2. c \in Seq(S) /\ Len(c) = Len(s) + Len(t)
  BY <1>1
<1>3. (\A j \in 1..Len(s) : c[j] = s[j]) /\ \A j \in 1..Len(t) : c[Len(s) + j] = t[j]
  BY <1>1
<1> HIDE DEF c
<1>4. ASSUME NEW j \in 1..Len(c)
      PROVE  \/ j \in 1..Len(s) /\ c[j] = s[j]
             \/ j - Len(s) \in 1..Len(t) /\ c[j] = t[j - Len(s)] /\ ~(j \in 1..Len(s))
  <2>1. CASE j \in 1..Len(s)
    BY <1>3, <2>1
  <2>2. CASE j \notin 1..Len(s)
    <3>1. j - Len(s) \in 1..Len(t) /\ Len(s) + (j - Len(s)) = j
      BY <1>1, <1>2, <2>2
    <3>2. c[Len(s) + (j - Len(s))] = t[j - Len(s)]
      BY <1>3, <3>1
    <3> QED BY <2>2, <3>1, <3>2
  <2> QED BY <2>1, <2>2
<1>5. Once(c)
  <2> SUFFICES ASSUME NEW a \in 1..Len(c), NEW b \in 1..Len(c), c[a] = c[b] PROVE a = b
    BY <1>2 DEF Once
  <2>1. CASE a \in 1..Len(s) /\ b \in 1..Len(s)
    BY <1>3, <2>1 DEF Once
  <2>2. CASE a \notin 1..Len(s) /\ b \notin 1..Len(s)
    <3>1. /\ a - Len(s) \in 1..Len(t) /\ b - Len(s) \in 1..Len(t) /\ t[a - Len(s)] = t[b - Len(s)]
      BY <1>4, <2>2
    <3>2. a - Len(s) = b - Len(s)
      BY <3>1 DEF Once
    <3> QED BY <1>1, <1>2, <3>2
  <2>3. CASE (a \in 1..Len(s) /\ b \notin 1..Len(s)) \/ (a \notin 1..Len(s) /\ b \in 1..Len(s))
    <3>1. ASSUME NEW i \in 1..Len(c), NEW j \in 1..Len(c), i \in 1..Len(s), j \notin 1..Len(s), c[i] = c[j]
          PROVE  FALSE
      <4>1. c[i] = s[i] /\ j - Len(s) \in 1..Len(t) /\ c[j] = t[j - Len(s)]
        BY <1>4, <3>1
      <4>2. c[i] \in Elems(s)
        BY <3>1, <4>1 DEF Elems
      <4>3. c[j] \in Elems(t)
        BY <4>1 DEF Elems
      <4> QED BY <3>1, <4>2, <4>3
    <3> QED BY <2>3, <3>1
  <2> QED BY <2>1, <2>2, <2>3
<1>6. Elems(c) = Elems(s) \union Elems(t)
  <2>1. ASSUME NEW x \in Elems(c) PROVE x \in Elems(s) \union Elems(t)
    <3>1. PICK j \in 1..Len(c) : x = c[j]
      BY <1>2 DEF Elems
    <3> QED BY <1>4, <3>1 DEF Elems
  <2>2. ASSUME NEW x \in Elems(s) PROVE x \in Elems(c)
    <3>1. PICK j \in 1..Len(s) : x = s[j]
      BY DEF Elems
    <3>2. j \in 1..Len(c) /\ c[j] = x
      BY <1>1, <1>2, <1>3, <3>1
    <3> QED BY <1>2, <3>2 DEF Elems
  <2>3. ASSUME NEW x \in Elems(t) PROVE x \in Elems(c)
    <3>1. PICK j \in 1..Len(t) : x = t[j]
      BY DEF Elems
    <3>2. Len(s) + j \in 1..Len(c) /\ c[Len(s) + j] = x
      BY <1>1, <1>2, <1>3, <3>1
    <3> QED BY <1>2, <3>2 DEF Elems
  <2> QED BY <2>1, <2>2, <2>3
<1> QED BY <1>5, <1>6 DEF c

LEMMA ReverseOnce ==
  ASSUME NEW S, NEW s \in Seq(S)
  PROVE  (Once(s) => Once(Reverse(s))) /\ Elems(Reverse(s)) = Elems(s)
<1> DEFINE r == Reverse(s)
<1>1. Len(s) \in Nat /\ DOMAIN s = 1..Len(s) /\ DOMAIN r = 1..Len(s)
  BY DEF Reverse
<1>2. \A j \in 1..Len(s) : r[j] = s[(Len(s) - j) + 1]
  BY DEF Reverse
<1> HIDE DEF r
<1>3. \A j \in 1..Len(s) : (Len(s) - j) + 1 \in 1..Len(s) /\ r[(Len(s) - j) + 1] = s[j]
  <2> SUFFICES ASSUME NEW j \in 1..Len(s)
               PROVE  (Len(s) - j) + 1 \in 1..Len(s) /\ r[(Len(s) - j) + 1] = s[j]
    OBVIOUS
  <2>1. (Len(s) - j) + 1 \in 1..Len(s) /\ (Len(s) - ((Len(s) - j) + 1)) + 1 = j
    BY <1>1
  <2> QED BY <1>2, <2>1
<1>4. Once(s) => Once(r)
  <2> SUFFICES ASSUME Once(s), NEW a \in 1..Len(s), NEW b \in 1..Len(s), r[a] = r[b] PROVE a = b
    BY <1>1 DEF Once
  <2>1. (Len(s) - a) + 1 = (Len(s) - b) + 1
    BY <1>1, <1>2, <1>3 DEF Once
  <2> QED BY <1>1, <2>1
<1>5. Elems(r) = Elems(s)
  BY <1>1, <1>2, <1>3 DEF Elems
<1> QED BY <1>4, <1>5 DEF r

LEMMA TailOnce ==
  ASSUME NEW S, NEW s \in Seq(S), s # <<>>, Once(s)
  PROVE  /\ Head(s) \in Elems(s) /\ Head(s) \notin Elems(Tail(s)) /\ Once(Tail(s))
         /\ Elems(Tail(s)) \subseteq Elems(s)
<1>1. /\ Len(s) \in Nat \ {0} /\ DOMAIN s = 1..Len(s) /\ Head(s) = s[1]
      /\ Tail(s) \in Seq(S) /\ Len(Tail(s)) = Len(s) - 1 /\ DOMAIN Tail(s) = 1..(Len(s) - 1)
      /\ \A j \in 1..(Len(s) - 1) : Tail(s)[j] = s[j + 1]
  OBVIOUS
<1> DEFINE t == Tail(s)
<1>2. DOMAIN t = 1..(Len(s) - 1) /\ \A j \in 1..(Len(s) - 1) : t[j] = s[j + 1] /\ j + 1 \in 1..Len(s)
  BY <1>1
<1> HIDE DEF t
<1>3. Once(t)
  BY <1>1, <1>2 DEF Once
<1>4. Elems(t) \subseteq Elems(s)
  BY <1>1, <1>2 DEF Elems
<1>5. Head(s) \notin Elems(t)
  BY <1>1, <1>2 DEF Elems, Once
<1>6. Head(s) \in Elems(s)
  BY <1>1 DEF Elems
<1> QED BY <1>3, <1>4, <1>5, <1>6 DEF t

LEMMA ElemsType == ASSUME NEW S, NEW s \in Seq(S) PROVE Elems(s) \subseteq S
BY DEF Elems
LEMMA ElemsEmpty == Elems(<<>>) = {} /\ Once(<<>>)
BY DEF Elems, Once

-----------------------------------------------------------------------------
(* The plan.                                                                *)
LEMMA RisingOnce ==
  ASSUME NEW nodes \in Seq(Nodes), Rising(nodes), NEW p \in DOMAIN nodes, NEW q \in DOMAIN nodes,
         nodes[p] = nodes[q]
  PROVE  p = q
<1>1. p \in Nat /\ q \in Nat /\ nodes[p] \in Nat
  BY SizesAssumption DEF Nodes
<1>2. CASE p < q
  BY <1>1, <1>2 DEF Rising
<1>3. CASE q < p
  BY <1>1, <1>3 DEF Rising
<1> QED BY <1>1, <1>2, <1>3

(* A rule matches at one place: a chain has one interface and passes each   *)
(* node once, and a rule without a provider is for a chain of one node.     *)
LEMMA OneMatch ==
  ASSUME Inv, ChainsInv, ProvidersNamed, NEW t \in DOMAIN rules,
         NEW k \in DOMAIN chains, NEW l \in DOMAIN chains,
         NEW p \in DOMAIN chains[k].nodes, NEW q \in DOMAIN chains[l].nodes,
         Matches(rules[t], chains[k], p), Matches(rules[t], chains[l], q)
  PROVE  k = l /\ p = q
<1>1. k = l
  BY DEF Matches, ChainsInv
<1>2. /\ chains[k] \in ChainType /\ chains[k].nodes \in Seq(Nodes) /\ Rising(chains[k].nodes)
  BY DEF Inv, Types, ChainType, ChainsInv
<1>3. CASE rules[t].kind = "before" /\ rules[t].provider = AnyNode
  <2>1. Len(chains[k].nodes) = 1
    BY <1>3 DEF ProvidersNamed, Matches, ChainsInv
  <2> QED BY <1>1, <1>2, <2>1
<1>4. CASE ~(rules[t].kind = "before" /\ rules[t].provider = AnyNode)
  <2>1. chains[k].nodes[p] = chains[k].nodes[q]
    BY <1>1, <1>4 DEF Matches
  <2> QED BY <1>1, <1>2, <2>1, RisingOnce
<1> QED BY <1>3, <1>4

LEMMA PlanType ==
  ASSUME Inv, NEW k \in DOMAIN chains, NEW p \in DOMAIN chains[k].plan
  PROVE  PlanAt(k, p) \in Seq(Mdls) /\ Elems(PlanAt(k, p)) \subseteq Mdls /\ p \in DOMAIN chains[k].nodes
<1>1. chains[k] \in ChainType
  BY DEF Inv, Types
<1>2. PlanAt(k, p) \in Seq(Mdls) /\ p \in DOMAIN chains[k].nodes
  BY <1>1 DEF PlanAt, ChainType
<1> QED BY <1>2, ElemsType

LEMMA PlanStart ==
  ASSUME \A k \in DOMAIN chains' : \A p \in DOMAIN chains'[k].plan : chains'[k].plan[p] = <<>>
  PROVE  PlanInv'
BY ElemsEmpty DEF PlanInv, PlanAt

LEMMA ChainPlan ==
  ASSUME Inv, PlanInv, pc = "chains", UNCHANGED chains \/
         \E i \in Ifaces, nodes \in Seq(Nodes) : nodes # <<>> /\ chains' = Append(chains, NewChain(i, nodes))
  PROVE  PlanInv'
<1>1. \A k \in DOMAIN chains : \A p \in DOMAIN chains[k].plan : chains[k].plan[p] = <<>>
  BY DEF PlanInv, PlanAt
<1>2. CASE UNCHANGED chains
  BY <1>1, <1>2, PlanStart
<1>3. ASSUME NEW i \in Ifaces, NEW nodes \in Seq(Nodes), nodes # <<>>,
             chains' = Append(chains, NewChain(i, nodes))
      PROVE  PlanInv'
  <2> DEFINE c == NewChain(i, nodes)
  <2>1. c \in ChainType /\ chains \in Seq(ChainType) /\ \A p \in DOMAIN c.plan : c.plan[p] = <<>>
    BY <1>3, NewChainType, NewChainFacts DEF Inv, Types
  <2> HIDE DEF c
  <2>2. \A k \in DOMAIN chains' : (k \in DOMAIN chains /\ chains'[k] = chains[k]) \/ chains'[k] = c
    BY <1>3, <2>1, AppendFacts DEF c
  <2> QED BY <1>1, <2>1, <2>2, PlanStart
<1> QED BY <1>2, <1>3

LEMMA ApplyRulePlan ==
  ASSUME Inv, InputInv, ChainsInv, PlanInv, ProvidersNamed, ApplyRule
  PROVE  PlanInv'
<1> DEFINE r == rules[at[1]]
<1>1. /\ pc = "rules" /\ pc' = "rules" /\ at' = <<at[1] + 1, 1>> /\ at[1] \in DOMAIN rules /\ at[1] \in Nat
      /\ rules' = rules /\ rules \in Seq(Rules) /\ chains \in Seq(ChainType)
      /\ chains' = [k \in DOMAIN chains |-> WithRule(r, chains[k])]
  BY DEF ApplyRule, Inv, Types, CursorInv, input
<1>2. r.mdls \in Seq(Mdls)
  <2>1. rules[at[1]] \in Rules
    BY <1>1
  <2> QED BY <2>1 DEF Rules
<1>3. Once(r.mdls)
  BY <1>1 DEF InputInv, NamesUnique, Once
<1>4. DOMAIN chains' = DOMAIN chains
  BY <1>1
<1>5. ASSUME NEW k \in DOMAIN chains
      PROVE  /\ DOMAIN chains'[k].plan = DOMAIN chains[k].plan
             /\ \A p \in DOMAIN chains[k].plan :
                  PlanAt(k, p)' = IF Matches(r, chains[k], p) THEN PlanAt(k, p) \o r.mdls ELSE PlanAt(k, p)
  BY <1>1, WithRuleFacts DEF PlanAt
<1>6. ASSUME NEW k \in DOMAIN chains, NEW p \in DOMAIN chains[k].plan
      PROVE  Elems(PlanAt(k, p)) \cap Elems(r.mdls) = {}
  <2> SUFFICES ASSUME NEW m \in Elems(PlanAt(k, p)), m \in Elems(r.mdls) PROVE FALSE
    OBVIOUS
  <2>1. PICK q \in DOMAIN rules : q < at[1] /\ m \in Elems(rules[q].mdls)
    BY <1>1 DEF PlanInv
  <2>2. PICK a \in DOMAIN rules[at[1]].mdls : m = rules[at[1]].mdls[a]
    BY DEF Elems
  <2>3. PICK b \in DOMAIN rules[q].mdls : m = rules[q].mdls[b]
    BY <2>1 DEF Elems
  <2>4. q = at[1]
    BY <1>1, <2>2, <2>3 DEF InputInv, NamesUnique
  <2> QED BY <1>1, <2>1, <2>4
<1> HIDE DEF r
<1>7. ASSUME NEW k \in DOMAIN chains, NEW p \in DOMAIN chains[k].plan
      PROVE  /\ Once(PlanAt(k, p)')
             /\ Matches(r, chains[k], p) => Elems(PlanAt(k, p)') = Elems(PlanAt(k, p)) \union Elems(r.mdls)
             /\ ~Matches(r, chains[k], p) => Elems(PlanAt(k, p)') = Elems(PlanAt(k, p))
  <2>1. Once(PlanAt(k, p)) /\ PlanAt(k, p) \in Seq(Mdls)
    BY PlanType DEF PlanInv
  <2>2. CASE Matches(r, chains[k], p)
    <3>1. PlanAt(k, p)' = PlanAt(k, p) \o r.mdls
      BY <1>5, <2>2
    <3> QED BY <1>2, <1>3, <1>6, <2>1, <2>2, <3>1, ConcatOnce
  <2>3. CASE ~Matches(r, chains[k], p)
    BY <1>5, <2>1, <2>3
  <2> QED BY <2>2, <2>3
<1>8. ASSUME NEW k \in DOMAIN chains, NEW p \in DOMAIN chains[k].plan,
             NEW l \in DOMAIN chains, NEW q \in DOMAIN chains[l].plan, k # l \/ p # q
      PROVE  Elems(PlanAt(k, p)') \cap Elems(PlanAt(l, q)') = {}
  <2>1. ~(Matches(r, chains[k], p) /\ Matches(r, chains[l], q))
    BY <1>1, <1>8, PlanType, OneMatch DEF r
  <2>2. Elems(PlanAt(k, p)) \cap Elems(PlanAt(l, q)) = {}
    BY <1>8 DEF PlanInv
  <2>3. Elems(PlanAt(k, p)) \cap Elems(r.mdls) = {} /\ Elems(PlanAt(l, q)) \cap Elems(r.mdls) = {}
    BY <1>6
  <2> QED BY <1>7, <2>1, <2>2, <2>3
<1>9. ASSUME NEW k \in DOMAIN chains, NEW p \in DOMAIN chains[k].plan, NEW m \in Elems(PlanAt(k, p)')
      PROVE  \E q \in DOMAIN rules : q < at[1] + 1 /\ m \in Elems(rules[q].mdls)
  <2>1. CASE m \in Elems(PlanAt(k, p))
    <3>1. PICK q \in DOMAIN rules : q < at[1] /\ m \in Elems(rules[q].mdls)
      BY <1>1, <2>1 DEF PlanInv
    <3>2. q \in Nat /\ q < at[1] + 1
      BY <1>1, <3>1
    <3> QED BY <3>1, <3>2
  <2>2. CASE m \in Elems(r.mdls)
    BY <1>1, <2>2 DEF r
  <2> QED BY <1>7, <1>9, <2>1, <2>2
<1>10. at'[1] = at[1] + 1 /\ pc' = "rules" /\ rules' = rules
  BY <1>1
<1>11. \A k \in DOMAIN chains : DOMAIN chains'[k].plan = DOMAIN chains[k].plan
  BY <1>5
<1>12. \A k \in DOMAIN chains : \A p \in DOMAIN chains[k].plan : Once(PlanAt(k, p)')
  BY <1>7
<1> QED BY <1>4, <1>8, <1>9, <1>10, <1>11, <1>12 DEF PlanInv

LEMMA PlanKept ==
  ASSUME PlanInv, UNCHANGED chains, pc' \notin {"chains", "rules"}
  PROVE  PlanInv'
<1>1. (\A k, p : PlanAt(k, p)' = PlanAt(k, p)) /\ chains' = chains
  BY DEF PlanAt
<1> QED BY <1>1 DEF PlanInv

LEMMA PlanStep ==
  ASSUME Inv, InputInv, ChainsInv, PlanInv, ProvidersNamed, [Next]_vars
  PROVE  PlanInv'
<1>1. CASE SkipImport \/ StartChain \/ GrowChain
  BY <1>1, ChainPlan DEF SkipImport, StartChain, GrowChain, NextImport, planned
<1>2. CASE CloseChain
  <2>1. pc = "chains" /\ Cursor \in Ifaces /\ growing \in Seq(Nodes) /\ growing # <<>>
    BY <1>2, CursorIface DEF CloseChain, Inv, Types
  <2> QED BY <1>2, <2>1, ChainPlan DEF CloseChain
<1>3. CASE Standalone
  <2>1. pc = "chains" /\ Cursor \in Ifaces /\ exports[Cursor] \in {Host} \union Nodes
    BY <1>3, CursorIface DEF Standalone, Inv, Types
  <2>2. CASE exports[Cursor] = Host \/ Cursor \in Handled
    BY <1>3, <2>1, <2>2, ChainPlan DEF Standalone
  <2>3. CASE ~(exports[Cursor] = Host \/ Cursor \in Handled)
    <3>1. <<exports[Cursor]>> \in Seq(Nodes) /\ <<exports[Cursor]>> # <<>>
      BY <2>1, <2>3
    <3> QED BY <1>3, <2>1, <2>3, <3>1, ChainPlan DEF Standalone
  <2> QED BY <2>2, <2>3
<1>4. CASE ApplyRule
  BY <1>4, ApplyRulePlan
<1>5. CASE UNCHANGED vars
  <2>1. \A k, p : PlanAt(k, p)' = PlanAt(k, p)
    BY <1>5 DEF vars, PlanAt
  <2> QED BY <1>5, <2>1 DEF vars, PlanInv
<1>6. CASE UNCHANGED planned /\ pc' \notin {"chains", "rules"}
  BY <1>6, PlanKept DEF planned
<1>7. \/ SkipImport \/ StartChain \/ GrowChain \/ CloseChain \/ Standalone \/ ApplyRule
      \/ UNCHANGED vars
      \/ UNCHANGED planned /\ pc' \notin {"chains", "rules"}
  BY DEF Next, RulesApplied, PreInstantiate, StartWalk, DeferInject, Place, ReachFanIn, InjectNext,
         LeaveFanIn, Leave, Advance, InstantiateFanIn, StartDrain, FinishDrain, StartExports,
         EmitExport, Finish, Terminated
<1> QED BY <1>1, <1>2, <1>3, <1>4, <1>5, <1>6, <1>7

-----------------------------------------------------------------------------
(* The emission.  While the chains are made nothing is defined.             *)
LEMMA EarlyLets ==
  ASSUME Inv, FreshInv, Fine(wac), MadeInv, pc \in {"chains", "rules"},
         pc' \in {"chains", "rules", "providers"}, UNCHANGED <<wac, todo, routes>>
  PROVE  FreshInv' /\ Fine(wac') /\ MadeInv'
<1>1. wac.lines = <<>> /\ todo = <<>> /\ deferred = <<>> /\ wac' = wac /\ todo' = todo /\ deferred' = deferred
  BY DEF FreshInv, TodoInv, Inv, EarlyInv, routes
<1>2. \A m : ~Spent(wac, m)
  BY <1>1 DEF Spent, Defined
<1>3. AheadInv'
  BY <1>1, <1>2, ElemsEmpty DEF AheadInv, Unspent
<1>4. TodoInv' /\ PutOffInv'
  BY <1>1, <1>2, ElemsEmpty DEF TodoInv, PutOffInv, Unspent
<1>5. MadeInv'
  BY <1>1 DEF MadeInv, Inv, EarlyInv, FanIn
<1> QED BY <1>1, <1>3, <1>4, <1>5 DEF FreshInv

(* A step that puts nothing in.                                             *)
LEMMA FreshKept ==
  ASSUME FreshInv, UNCHANGED <<chains, todo, deferred>>, pc' \notin {"chains", "rules"},
         pc' \notin {"inject", "drain"} => todo = <<>>, pc' = "drain" <=> pc = "drain",
         \A m : Spent(wac', m) => Spent(wac, m),
         \A k \in DOMAIN chains : \A p \in DOMAIN chains[k].plan : Ahead(k, p)' => Ahead(k, p)
  PROVE  FreshInv'
<1>1. \A s : Unspent(wac, s) => Unspent(wac', s)
  BY DEF Unspent
<1>2. \A k, p : PlanAt(k, p)' = PlanAt(k, p)
  BY DEF PlanAt
<1>3. \A d : PutOff(d)' <=> PutOff(d)
  BY DEF PutOff
<1>4. AheadInv'
  BY <1>1, <1>2 DEF FreshInv, AheadInv
<1>5. TodoInv'
  BY <1>1 DEF FreshInv, TodoInv
<1>6. PutOffInv'
  BY <1>1, <1>3 DEF FreshInv, PutOffInv
<1> QED BY <1>4, <1>5, <1>6 DEF FreshInv

LEMMA MadeKept ==
  ASSUME MadeInv, UNCHANGED chains, pc' \notin {"exports", "done"} \/ pc \in {"exports", "done"},
         \A n \in FanIn : wac'.inst[n] = wac.inst[n] /\ (outer[n] # None => outer'[n] # None)
  PROVE  MadeInv'
BY FanInKept DEF MadeInv

(* A consumer of two interfaces stands at the end of every chain it is in.  *)
LEMMA FanInsAtEnd ==
  ASSUME Inv, ChainsInv, FanInsEnd, NEW n \in FanIn, NEW k \in DOMAIN chains,
         NEW p \in DOMAIN chains[k].nodes, chains[k].nodes[p] = n
  PROVE  p = Len(chains[k].nodes)
<1>1. n \in Nodes /\ \E i, j \in DOMAIN chains : i # j /\ Consumes(n, i) /\ Consumes(n, j)
  BY DEF FanIn
<1>2. PICK i \in DOMAIN chains, j \in DOMAIN chains : i # j /\ Consumes(n, i) /\ Consumes(n, j)
  BY <1>1
<1>3. ASSUME NEW l \in DOMAIN chains, Consumes(n, l) PROVE chains[l].iface \in Internal(n)
  <2>1. PICK q \in DOMAIN chains[l].nodes : q > 1 /\ chains[l].nodes[q] = n
    BY <1>3 DEF Consumes
  <2>2. chains[l].nodes \in Seq(Nodes) /\ chains[l].iface \in Ifaces
    BY DEF Inv, Types, ChainType
  <2>3. chains[l].nodes[q - 1] \in Nodes
    BY <2>1, <2>2
  <2>4. imports[n][chains[l].iface] = chains[l].nodes[q - 1]
    BY <2>1 DEF ChainsInv, InLine
  <2>5. Host \notin Nodes
    BY DEF Host, Nodes
  <2> QED BY <2>2, <2>3, <2>4, <2>5 DEF Internal
<1>4. chains[i].iface # chains[j].iface
  BY <1>2 DEF ChainsInv
<1>5. \A m \in Nodes, e \in Ifaces : imports[m][e] # n
  BY <1>1, <1>2, <1>3, <1>4 DEF FanInsEnd
<1>6. chains[k].nodes \in Seq(Nodes) /\ chains[k].iface \in Ifaces
  BY DEF Inv, Types, ChainType
<1>7. CASE p # Len(chains[k].nodes)
  <2>1. p + 1 \in DOMAIN chains[k].nodes /\ p + 1 > 1 /\ (p + 1) - 1 = p
    BY <1>6, <1>7
  <2>2. imports[chains[k].nodes[p + 1]][chains[k].iface] = n /\ chains[k].nodes[p + 1] \in Nodes
    BY <1>6, <2>1 DEF ChainsInv, InLine
  <2> QED BY <1>5, <1>6, <2>2
<1> QED BY <1>7

LEMMA PreInstantiateLets ==
  ASSUME Inv, FreshInv, Fine(wac), MadeInv, NEW n \in Nodes, PreInstantiate(n)
  PROVE  FreshInv' /\ Fine(wac') /\ MadeInv'
<1>1. /\ pc = "providers" /\ pc' = pc /\ wac' = GetOrCreateInst(wac, n, None) /\ n \in PureProviders
      /\ UNCHANGED <<chains, todo, deferred, at, outer>> /\ GraphType /\ Builder(wac)
  BY DEF PreInstantiate, Unmade, planned, routes, Inv, Types
<1>2. /\ Fine(wac') /\ \A m : Spent(wac', m) <=> Spent(wac, m)
      /\ \A m \in Nodes \ {n} : wac'.inst[m] = wac.inst[m]
  BY <1>1, GetOrCreateFine, GetOrCreateBuilds
<1>3. n \notin FanIn /\ FanIn \subseteq Nodes
  BY <1>1 DEF PureProviders, FanIn
<1>4. MadeInv'
  BY <1>1, <1>2, <1>3, MadeKept
<1>5. \A k, p : Ahead(k, p)' => Ahead(k, p)
  BY <1>1 DEF Ahead
<1>6. FreshInv'
  BY <1>1, <1>2, <1>5, FreshKept DEF FreshInv, TodoInv
<1> QED BY <1>2, <1>4, <1>6

LEMMA StartWalkLets ==
  ASSUME Inv, FreshInv, Fine(wac), MadeInv, StartWalk
  PROVE  FreshInv' /\ Fine(wac') /\ MadeInv'
<1>1. /\ pc = "providers" /\ pc' \in {"walk", "fanin"}
      /\ UNCHANGED <<chains, todo, deferred, wac, outer>>
  BY DEF StartWalk, planned, routes
<1>2. \A k, p : Ahead(k, p)' => Ahead(k, p)
  BY <1>1 DEF Ahead
<1>3. FreshInv'
  BY <1>1, <1>2, FreshKept DEF FreshInv, TodoInv
<1> QED BY <1>1, <1>3, MadeKept

(* The position at the cursor is ahead until the walk leaves it.            *)
LEMMA AtCursor ==
  ASSUME Inv, pc = "walk"
  PROVE  at[1] \in DOMAIN chains /\ at[2] \in DOMAIN chains[at[1]].plan /\ Ahead(at[1], at[2])
         /\ Plan = PlanAt(at[1], at[2]) /\ Plan \in Seq(Mdls)
<1>1. Chain \in ChainType /\ at[1] \in DOMAIN chains /\ at[2] \in DOMAIN Chain.nodes /\ Plan \in Seq(Mdls)
  BY Walking DEF Inv, CursorInv
<1>2. DOMAIN Chain.plan = DOMAIN Chain.nodes
  BY <1>1 DEF ChainType
<1>3. at[1] \in Nat /\ at[2] \in Nat
  BY DEF Inv, Types
<1> QED BY <1>1, <1>2, <1>3 DEF Ahead, Chain, Plan, PlanAt

LEMMA AheadAdvance ==
  ASSUME Inv, pc \in {"walk", "inject"}, Advance, UNCHANGED chains,
         NEW k \in DOMAIN chains, NEW p \in DOMAIN chains[k].plan, Ahead(k, p)'
  PROVE  Ahead(k, p) /\ (k # at[1] \/ p # at[2])
<1>1. /\ at[1] \in Nat /\ at[2] \in Nat /\ k \in Nat /\ p \in Nat /\ p >= 1
  <2>1. chains \in Seq(ChainType) /\ at \in Nat \X Nat /\ p \in DOMAIN chains[k].nodes
    BY PlanType DEF Inv, Types
  <2>2. chains[k].nodes \in Seq(Nodes)
    BY <2>1 DEF ChainType
  <2> QED BY <2>1, <2>2
<1>2. CASE ~IsLast
  <2>1. at' = <<at[1], at[2] + 1>> /\ pc' = "walk"
    BY <1>2 DEF Advance
  <2>2. k > at[1] \/ (k = at[1] /\ p >= at[2] + 1)
    BY <1>1, <2>1 DEF Ahead
  <2> QED BY <1>1, <2>2 DEF Ahead
<1>3. CASE IsLast
  <2>1. at' = <<at[1] + 1, 1>> /\ pc' \in {"walk", "fanin"}
    BY <1>3 DEF Advance
  <2>2. k > at[1] + 1 \/ (k = at[1] + 1 /\ p >= 1)
    BY <1>1, <2>1 DEF Ahead
  <2> QED BY <1>1, <2>2 DEF Ahead
<1> QED BY <1>2, <1>3

LEMMA DeferInjectLets ==
  ASSUME Inv, PlanInv, FreshInv, Fine(wac), MadeInv, DeferInject
  PROVE  FreshInv' /\ Fine(wac') /\ MadeInv'
<1> DEFINE d == [node |-> Node, iface |-> Chain.iface, mdls |-> Plan]
<1>1. /\ pc = "walk" /\ Advance /\ pc' \in {"walk", "fanin"} /\ UNCHANGED <<chains, wac, todo, outer>>
      /\ deferred' = IF Plan = <<>> THEN deferred ELSE Append(deferred, d)
      /\ todo = <<>> /\ deferred \in Seq(InjectType)
  BY DEF DeferInject, Advance, planned, FreshInv, TodoInv, Inv, Types
<1>2. /\ at[1] \in DOMAIN chains /\ at[2] \in DOMAIN chains[at[1]].plan /\ Ahead(at[1], at[2])
      /\ Plan = PlanAt(at[1], at[2])
  BY <1>1, AtCursor
<1>3. d.mdls = PlanAt(at[1], at[2]) /\ d \in InjectType
  BY <1>1, <1>2, Walking DEF InjectType
<1> HIDE DEF d
<1>4. ASSUME NEW e \in DOMAIN deferred'
      PROVE  \/ e \in DOMAIN deferred /\ deferred'[e] = deferred[e]
             \/ e = Len(deferred) + 1 /\ deferred'[e] = d
  BY <1>1, <1>3, AppendFacts
<1>5. \A k, p : PlanAt(k, p)' = PlanAt(k, p)
  BY <1>1 DEF PlanAt
<1>6. AheadInv'
  <2> SUFFICES ASSUME NEW k \in DOMAIN chains, NEW p \in DOMAIN chains[k].plan, Ahead(k, p)'
               PROVE  /\ Unspent(wac, PlanAt(k, p)) /\ Elems(PlanAt(k, p)) \cap Elems(todo) = {}
                      /\ \A e \in DOMAIN deferred' : Elems(PlanAt(k, p)) \cap Elems(deferred'[e].mdls) = {}
    BY <1>1, <1>5 DEF AheadInv
  <2>1. Ahead(k, p) /\ (k # at[1] \/ p # at[2])
    BY <1>1, AheadAdvance
  <2>2. Elems(PlanAt(k, p)) \cap Elems(d.mdls) = {}
    BY <1>2, <1>3, <2>1 DEF PlanInv
  <2> QED BY <1>4, <2>1, <2>2 DEF FreshInv, AheadInv
<1>7. TodoInv'
  BY <1>1 DEF FreshInv, TodoInv
<1>8. /\ Once(d.mdls) /\ Unspent(wac, d.mdls)
      /\ \A e \in DOMAIN deferred : Elems(d.mdls) \cap Elems(deferred[e].mdls) = {}
  BY <1>2, <1>3 DEF FreshInv, AheadInv, PlanInv
<1>9. PutOffInv'
  <2> SUFFICES ASSUME NEW e \in DOMAIN deferred'
               PROVE  /\ Once(deferred'[e].mdls) /\ Unspent(wac, deferred'[e].mdls)
                      /\ \A f \in DOMAIN deferred' :
                           e # f => Elems(deferred'[e].mdls) \cap Elems(deferred'[f].mdls) = {}
    BY <1>1, ElemsEmpty DEF PutOffInv
  <2>1. Once(deferred'[e].mdls) /\ Unspent(wac, deferred'[e].mdls)
    BY <1>1, <1>4, <1>8 DEF FreshInv, PutOffInv, PutOff
  <2>2. ASSUME NEW f \in DOMAIN deferred', e # f
        PROVE  Elems(deferred'[e].mdls) \cap Elems(deferred'[f].mdls) = {}
    BY <1>4, <1>8, <2>2 DEF FreshInv, PutOffInv
  <2> QED BY <2>1, <2>2
<1> QED BY <1>1, <1>6, <1>7, <1>9, MadeKept DEF FreshInv

(* The middleware of the cursor's position is taken in hand.                *)
LEMMA TakePlan ==
  ASSUME Inv, PlanInv, FreshInv, pc = "walk", pc' = "inject", todo' = Reverse(Plan),
         UNCHANGED <<chains, at, deferred>>, \A m : Spent(wac', m) => Spent(wac, m)
  PROVE  FreshInv'
<1>1. /\ at[1] \in DOMAIN chains /\ at[2] \in DOMAIN chains[at[1]].plan /\ Ahead(at[1], at[2])
      /\ Plan = PlanAt(at[1], at[2]) /\ Plan \in Seq(Mdls)
  BY AtCursor
<1>2. Once(todo') /\ Elems(todo') = Elems(Plan)
  BY <1>1, ReverseOnce DEF PlanInv
<1>3. (\A s : Unspent(wac, s) => Unspent(wac', s)) /\ (Unspent(wac', Plan) => Unspent(wac', todo'))
  BY <1>2 DEF Unspent
<1>4. \A k, p : PlanAt(k, p)' = PlanAt(k, p)
  BY DEF PlanAt
<1>5. AheadInv'
  <2> SUFFICES ASSUME NEW k \in DOMAIN chains, NEW p \in DOMAIN chains[k].plan, Ahead(k, p)'
               PROVE  /\ Unspent(wac', PlanAt(k, p)) /\ Elems(PlanAt(k, p)) \cap Elems(Plan) = {}
                      /\ \A d \in DOMAIN deferred : Elems(PlanAt(k, p)) \cap Elems(deferred[d].mdls) = {}
    BY <1>2, <1>4 DEF AheadInv
  <2>1. Ahead(k, p) /\ (k # at[1] \/ p # at[2])
    <3>1. k > at[1] \/ (k = at[1] /\ p > at[2])
      BY DEF Ahead
    <3>2. k \in Nat /\ p \in Nat /\ at[1] \in Nat /\ at[2] \in Nat
      <4>1. chains \in Seq(ChainType) /\ at \in Nat \X Nat /\ p \in DOMAIN chains[k].nodes
        BY PlanType DEF Inv, Types
      <4>2. chains[k].nodes \in Seq(Nodes)
        BY <4>1 DEF ChainType
      <4> QED BY <4>1, <4>2
    <3> QED BY <3>1, <3>2 DEF Ahead
  <2> QED BY <1>1, <1>3, <2>1 DEF FreshInv, AheadInv, PlanInv
<1>6. TodoInv'
  BY <1>1, <1>2, <1>3 DEF FreshInv, AheadInv, TodoInv
<1>7. \A d \in DOMAIN deferred : Elems(Plan) \cap Elems(deferred[d].mdls) = {}
  BY <1>1 DEF FreshInv, AheadInv
<1>8. PutOffInv'
  BY <1>2, <1>3, <1>7 DEF FreshInv, PutOffInv, PutOff
<1> QED BY <1>5, <1>6, <1>8 DEF FreshInv

LEMMA PlaceLets ==
  ASSUME Inv, ChainsInv, FanInsEnd, PlanInv, FreshInv, Fine(wac), MadeInv, Place
  PROVE  FreshInv' /\ Fine(wac') /\ MadeInv'
<1>1. /\ pc = "walk" /\ pc' = "inject" /\ ~IsFanInLast /\ wac' = Placed(wac, Node, Chain.iface)
      /\ todo' = Reverse(Plan) /\ UNCHANGED <<chains, at, deferred, outer>>
      /\ GraphType /\ Builder(wac) /\ Node \in Nodes /\ Chain.iface \in Ifaces
  BY Walking DEF Place, planned, routes, Inv, Types
<1>2. Fine(wac') /\ \A m : Spent(wac', m) <=> Spent(wac, m)
  BY <1>1, PlacedFine
<1>3. Node \notin FanIn
  <2> SUFFICES ASSUME Node \in FanIn PROVE FALSE
    OBVIOUS
  <2>1. at[1] \in DOMAIN chains /\ at[2] \in DOMAIN chains[at[1]].nodes /\ chains[at[1]].nodes[at[2]] = Node
    BY <1>1 DEF Inv, CursorInv, Chain, Node
  <2>2. IsLast
    BY <2>1, FanInsAtEnd DEF IsLast, Chain
  <2> QED BY <1>1, <2>2 DEF IsFanInLast
<1>4. \A m \in Nodes \ {Node} : wac'.inst[m] = wac.inst[m]
  BY <1>1, PlacedBuilds
<1>5. FanIn \subseteq Nodes
  BY DEF FanIn
<1>6. MadeInv'
  BY <1>1, <1>3, <1>4, <1>5, MadeKept
<1>7. FreshInv'
  BY <1>1, <1>2, TakePlan
<1> QED BY <1>2, <1>6, <1>7

LEMMA ReachFanInLets ==
  ASSUME Inv, PlanInv, FreshInv, Fine(wac), MadeInv, ReachFanIn
  PROVE  FreshInv' /\ Fine(wac') /\ MadeInv'
<1>1. /\ pc = "walk" /\ pc' = "inject" /\ todo' = Reverse(Plan)
      /\ UNCHANGED <<chains, at, deferred, outer, wac>>
  BY DEF ReachFanIn, planned, routes
<1> QED BY <1>1, TakePlan, MadeKept

(* The next middleware is put in, and no other.                             *)
LEMMA InjectNextLets ==
  ASSUME Inv, FreshInv, Fine(wac), MadeInv, InjectNext
  PROVE  FreshInv' /\ Fine(wac') /\ MadeInv'
<1> DEFINE m == Head(todo)
<1>1. /\ pc \in {"inject", "drain"} /\ todo # <<>> /\ wac' = CreateMdl(wac, m, Target)
      /\ todo' = Tail(todo) /\ UNCHANGED <<pc, at, chains, deferred, outer>>
      /\ todo \in Seq(Mdls) /\ m \in Mdls /\ Builder(wac) /\ wac.last # None /\ Target \in Ifaces
  BY TargetType DEF InjectNext, planned, routes, Inv, Types, LastInv
<1>2. /\ m \in Elems(todo) /\ m \notin Elems(todo') /\ Once(todo') /\ Elems(todo') \subseteq Elems(todo)
  BY <1>1, TailOnce DEF FreshInv, TodoInv
<1>3. ~Spent(wac, m)
  BY <1>2 DEF FreshInv, TodoInv, Unspent
<1> HIDE DEF m
<1>4. Fine(wac') /\ \A l : Spent(wac', l) => Spent(wac, l) \/ l = m
  BY <1>1, <1>3, CreateMdlFine
<1>5. wac'.inst = wac.inst
  BY <1>1, CreateMdlBuilds
<1>6. \A s : Unspent(wac, s) /\ m \notin Elems(s) => Unspent(wac', s)
  BY <1>4 DEF Unspent
<1>7. (\A k, p : PlanAt(k, p)' = PlanAt(k, p)) /\ (\A k, p : Ahead(k, p)' <=> Ahead(k, p))
      /\ \A d : PutOff(d)' <=> PutOff(d)
  BY <1>1 DEF PlanAt, Ahead, PutOff
<1>8. AheadInv'
  BY <1>1, <1>2, <1>6, <1>7 DEF FreshInv, AheadInv
<1>9. Unspent(wac, todo')
  BY <1>2 DEF FreshInv, TodoInv, Unspent
<1>10. TodoInv'
  BY <1>1, <1>2, <1>6, <1>9 DEF TodoInv
<1>11. PutOffInv'
  BY <1>1, <1>2, <1>6, <1>7 DEF FreshInv, PutOffInv
<1> QED BY <1>1, <1>4, <1>5, <1>8, <1>10, <1>11, MadeKept DEF FreshInv

LEMMA LeaveLets ==
  ASSUME Inv, FreshInv, Fine(wac), MadeInv, LeaveFanIn \/ Leave
  PROVE  FreshInv' /\ Fine(wac') /\ MadeInv'
<1>1. /\ pc = "inject" /\ todo = <<>> /\ Advance /\ pc' \in {"walk", "fanin"}
      /\ UNCHANGED <<chains, wac, todo, deferred>>
      /\ outer' = outer \/ outer' = [outer EXCEPT ![Node] = wac.last]
  BY DEF LeaveFanIn, Leave, Advance, planned
<1>2. wac.last # None /\ outer \in [Nodes -> Variables \union {None}] /\ FanIn \subseteq Nodes
  BY <1>1 DEF Inv, LastInv, Types, FanIn
<1>3. \A n \in FanIn : outer[n] # None => outer'[n] # None
  BY <1>1, <1>2
<1>4. \A k \in DOMAIN chains : \A p \in DOMAIN chains[k].plan : Ahead(k, p)' => Ahead(k, p)
  BY <1>1, AheadAdvance
<1>5. FreshInv'
  BY <1>1, <1>4, FreshKept
<1> QED BY <1>1, <1>3, <1>5, MadeKept

(* A fan-in consumer is made here and nowhere else.                         *)
LEMMA InstantiateFanInLets ==
  ASSUME Inv, FreshInv, Fine(wac), MadeInv, NEW n \in Nodes, InstantiateFanIn(n)
  PROVE  FreshInv' /\ Fine(wac') /\ MadeInv'
<1> DEFINE x == Let(wac, NodeVar(n), FanInWiring(n))
<1>1. /\ pc = "fanin" /\ pc' = pc /\ fanVars[n] # {} /\ outer[n] = None
      /\ UNCHANGED <<at, chains, todo, deferred>> /\ n \in FanIn
      /\ outer \in [Nodes -> Variables \union {None}] /\ wac \in WacType
  BY DEF InstantiateFanIn, Waiting, planned, Inv, Types, SplitInv, Builder
<1>2. wac.inst[n] = None
  BY <1>1 DEF MadeInv
<1>3. wac' = [x EXCEPT !.inst[n] = NodeVar(n)] /\ outer' = [outer EXCEPT ![n] = NodeVar(n)]
  BY <1>2 DEF InstantiateFanIn
<1>4. NodeVar(n) \in Variables /\ NodeVar(n) # None /\ ~Defined(wac, NodeVar(n))
  BY <1>2, VariableTypes, NoneAssumption DEF Fine, Known
<1>5. Distinct(x) /\ \A u : Defined(x, u) <=> Defined(wac, u) \/ u = NodeVar(n)
  BY <1>1, <1>4, FanInWired, LetFine DEF Fine
<1>6. x \in WacType /\ x.inst = wac.inst /\ x.emitted = wac.emitted
  BY <1>4, FanInWired, LetBuilds DEF Builder, Inv
<1> HIDE DEF x
<1>7. /\ wac'.lines = x.lines /\ wac'.emitted = wac.emitted
      /\ wac'.inst[n] # None /\ \A m \in Nodes \ {n} : wac'.inst[m] = wac.inst[m]
  BY <1>3, <1>4, <1>6 DEF WacType
<1>8. Distinct(wac') /\ \A u : Defined(wac', u) <=> Defined(wac, u) \/ u = NodeVar(n)
  BY <1>5, <1>7, SameLines
<1>9. Known(wac')
  BY <1>7, <1>8, NamesDiffer DEF Fine, Known
<1>10. \A m : Spent(wac', m) <=> Spent(wac, m)
  BY <1>8, NamesDiffer DEF Spent
<1>11. outer'[n] # None /\ \A m \in Nodes \ {n} : outer'[m] = outer[m]
  BY <1>1, <1>3, <1>4
<1>12. FanIn' = FanIn /\ FanIn \subseteq Nodes
  BY <1>1, FanInKept DEF FanIn
<1>13. MadeInv'
  BY <1>1, <1>7, <1>11, <1>12 DEF MadeInv
<1>14. \A k, p : Ahead(k, p)' => Ahead(k, p)
  BY <1>1 DEF Ahead
<1>15. FreshInv'
  BY <1>1, <1>10, <1>14, FreshKept DEF FreshInv, TodoInv
<1> QED BY <1>8, <1>9, <1>13, <1>15 DEF Fine

LEMMA StartDrainLets ==
  ASSUME Inv, FreshInv, Fine(wac), MadeInv, StartDrain
  PROVE  FreshInv' /\ Fine(wac') /\ MadeInv'
<1>1. /\ pc = "fanin" /\ Waiting = {} /\ deferred # <<>> /\ UNCHANGED <<at, chains, deferred, outer>>
      /\ deferred \in Seq(InjectType) /\ 1 \in DOMAIN deferred /\ Head(deferred) = deferred[1]
      /\ wac \in WacType
  BY DEF StartDrain, planned, routes, Inv, Types, Builder
<1>2. deferred[1] \in InjectType /\ deferred[1].node \in FanIn
  BY <1>1 DEF Inv, WalkInv
<1>3. wac.inst[deferred[1].node] # None /\ deferred[1].mdls \in Seq(Mdls)
  BY <1>1, <1>2, FanInMade DEF InjectType
<1>4. /\ pc' = "drain" /\ wac' = [wac EXCEPT !.last = wac.inst[deferred[1].node]]
      /\ todo' = Reverse(deferred[1].mdls)
  BY <1>1, <1>3 DEF StartDrain
<1>5. wac'.lines = wac.lines /\ wac'.inst = wac.inst /\ wac'.emitted = wac.emitted
  BY <1>1, <1>4 DEF WacType
<1>6. Distinct(wac') /\ (\A u : Defined(wac', u) <=> Defined(wac, u)) /\ \A m : Spent(wac', m) <=> Spent(wac, m)
  BY <1>5, SameLines DEF Fine
<1>7. Fine(wac')
  BY <1>5, <1>6 DEF Fine, Known
<1>8. MadeInv'
  BY <1>1, <1>4, <1>5, MadeKept
<1>9. Once(todo') /\ Elems(todo') = Elems(deferred[1].mdls)
  BY <1>1, <1>3, <1>4, ReverseOnce DEF FreshInv, PutOffInv
<1>10. AheadInv'
  BY <1>1, <1>4 DEF AheadInv, Ahead
<1>11. \A s : Unspent(wac', s) <=> Unspent(wac, s)
  BY <1>6 DEF Unspent
<1>12. Unspent(wac', deferred[1].mdls) /\ (Unspent(wac', deferred[1].mdls) => Unspent(wac', todo'))
  <2>1. Unspent(wac, deferred[1].mdls)
    BY <1>1 DEF FreshInv, PutOffInv, PutOff
  <2> QED BY <1>9, <1>11, <2>1 DEF Unspent
<1>13. TodoInv'
  BY <1>4, <1>9, <1>12 DEF TodoInv
<1>14. PutOffInv'
  <2>1. ASSUME NEW d \in DOMAIN deferred
        PROVE  /\ Once(deferred[d].mdls)
               /\ PutOff(d)' => d # 1
               /\ Unspent(wac, deferred[d].mdls)
               /\ \A e \in DOMAIN deferred : d # e => Elems(deferred[d].mdls) \cap Elems(deferred[e].mdls) = {}
    <3>1. PutOff(d)
      BY <1>1, <2>1 DEF PutOff
    <3>2. PutOff(d)' => d # 1
      BY <1>1, <1>4, <2>1 DEF PutOff
    <3> QED BY <2>1, <3>1, <3>2 DEF FreshInv, PutOffInv
  <2>2. ASSUME NEW d \in DOMAIN deferred, PutOff(d)'
        PROVE  Unspent(wac', deferred[d].mdls) /\ Elems(deferred[d].mdls) \cap Elems(todo') = {}
    BY <1>1, <1>9, <1>11, <2>1, <2>2
  <2> QED BY <1>1, <2>1, <2>2 DEF PutOffInv
<1> QED BY <1>7, <1>8, <1>10, <1>13, <1>14 DEF FreshInv

LEMMA FinishDrainLets ==
  ASSUME Inv, FreshInv, Fine(wac), MadeInv, FinishDrain
  PROVE  FreshInv' /\ Fine(wac') /\ MadeInv'
<1>1. /\ pc = "drain" /\ pc' = "fanin" /\ todo = <<>> /\ deferred' = Tail(deferred)
      /\ UNCHANGED <<at, chains, wac, todo, outer>>
      /\ deferred \in Seq(InjectType) /\ deferred # <<>>
  BY DEF FinishDrain, planned, Inv, Types, CursorInv
<1>2. \A d \in DOMAIN deferred' :
        d + 1 \in DOMAIN deferred /\ d + 1 > 1 /\ deferred'[d] = deferred[d + 1] /\ d \in Nat
  BY <1>1
<1>3. AheadInv'
  BY <1>1 DEF AheadInv, Ahead
<1>4. TodoInv'
  BY <1>1 DEF FreshInv, TodoInv
<1>5. PutOffInv'
  <2> SUFFICES ASSUME NEW d \in DOMAIN deferred'
               PROVE  /\ Once(deferred'[d].mdls) /\ Unspent(wac, deferred'[d].mdls)
                      /\ \A e \in DOMAIN deferred' :
                           d # e => Elems(deferred'[d].mdls) \cap Elems(deferred'[e].mdls) = {}
    BY <1>1, ElemsEmpty DEF PutOffInv
  <2>1. d + 1 \in DOMAIN deferred /\ PutOff(d + 1) /\ deferred'[d] = deferred[d + 1]
    BY <1>2 DEF PutOff
  <2>2. ASSUME NEW e \in DOMAIN deferred', d # e
        PROVE  e + 1 \in DOMAIN deferred /\ d + 1 # e + 1 /\ deferred'[e] = deferred[e + 1]
    BY <1>2, <2>2
  <2> QED BY <2>1, <2>2 DEF FreshInv, PutOffInv
<1> QED BY <1>1, <1>3, <1>4, <1>5, MadeKept DEF FreshInv

LEMMA StartExportsLets ==
  ASSUME Inv, FreshInv, Fine(wac), MadeInv, StartExports
  PROVE  FreshInv' /\ Fine(wac') /\ MadeInv'
<1>1. /\ pc = "fanin" /\ pc' = "exports" /\ Waiting = {}
      /\ UNCHANGED <<chains, wac, todo, deferred, outer>>
  BY DEF StartExports, planned, routes
<1>2. \A n \in FanIn : wac.inst[n] # None
  BY <1>1, FanInMade
<1>3. MadeInv'
  BY <1>1, <1>2, FanInKept DEF MadeInv
<1>4. \A k, p : Ahead(k, p)' => Ahead(k, p)
  BY <1>1 DEF Ahead
<1>5. FreshInv'
  BY <1>1, <1>4, FreshKept DEF FreshInv, TodoInv
<1> QED BY <1>1, <1>3, <1>5

(* An export makes no consumer: those are made, and known by their export.  *)
LEMMA EmitExportLets ==
  ASSUME Inv, FreshInv, Fine(wac), MadeInv, NEW i \in Ifaces, EmitExport(i)
  PROVE  FreshInv' /\ Fine(wac') /\ MadeInv'
<1> DEFINE n == Resolve(exports[i])
<1>1. /\ pc = "exports" /\ pc' = pc /\ UNCHANGED <<chains, todo, deferred, outer>>
      /\ GraphType /\ Builder(wac)
  BY DEF EmitExport, planned, Inv, Types
<1>2. /\ Fine(wac') /\ (\A m : Spent(wac', m) <=> Spent(wac, m))
      /\ \A m \in FanIn : wac'.inst[m] = wac.inst[m]
  <2>1. CASE UNCHANGED wac
    BY <2>1
  <2>2. CASE ~Skipped(i) /\ wac' = GetOrCreateInst(wac, n, None)
    <3>1. n \in Nodes
      <4>1. exports[i] \in Nodes
        BY <2>2 DEF Inv, Types, Skipped
      <4> QED BY <1>1, <4>1, SplitType DEF Resolve
    <3> HIDE DEF n
    <3>2. /\ Fine(wac') /\ (\A m : Spent(wac', m) <=> Spent(wac, m)) /\ Extends(wac, wac')
      BY <1>1, <2>2, <3>1, GetOrCreateFine, GetOrCreateBuilds
    <3>3. \A m \in FanIn : m \in Nodes /\ wac.inst[m] # None
      BY <1>1 DEF MadeInv, FanIn
    <3> QED BY <3>2, <3>3 DEF Extends
  <2> QED BY <2>1, <2>2 DEF EmitExport
<1>3. MadeInv'
  BY <1>1, <1>2, MadeKept
<1>4. \A k, p : Ahead(k, p)' => Ahead(k, p)
  BY <1>1 DEF Ahead
<1>5. FreshInv'
  BY <1>1, <1>2, <1>4, FreshKept DEF FreshInv, TodoInv
<1> QED BY <1>2, <1>3, <1>5

LEMMA FinishLets ==
  ASSUME Inv, FreshInv, Fine(wac), MadeInv, Finish
  PROVE  FreshInv' /\ Fine(wac') /\ MadeInv'
<1>1. /\ pc = "exports" /\ pc' = "done" /\ UNCHANGED <<chains, wac, todo, deferred, outer>>
  BY DEF Finish, planned, routes
<1>2. \A k, p : Ahead(k, p)' => Ahead(k, p)
  BY <1>1 DEF Ahead
<1>3. FreshInv'
  BY <1>1, <1>2, FreshKept DEF FreshInv, TodoInv
<1> QED BY <1>1, <1>3, MadeKept

LEMMA StutterLets ==
  ASSUME FreshInv, Fine(wac), MadeInv, UNCHANGED vars
  PROVE  FreshInv' /\ Fine(wac') /\ MadeInv'
<1>1. (\A k, p : PlanAt(k, p)' = PlanAt(k, p)) /\ (\A k, p : Ahead(k, p)' <=> Ahead(k, p))
      /\ \A d : PutOff(d)' <=> PutOff(d)
  BY DEF PlanAt, Ahead, PutOff, vars
<1>2. AheadInv' /\ TodoInv' /\ PutOffInv'
  BY <1>1 DEF FreshInv, AheadInv, TodoInv, PutOffInv, vars
<1>3. MadeInv' /\ wac' = wac
  BY FanInKept DEF MadeInv, vars
<1> QED BY <1>2, <1>3 DEF FreshInv

LEMMA LetsStep ==
  ASSUME Inv, InputInv, ChainsInv, LetsInv, ProvidersNamed, FanInsEnd, [Next]_vars
  PROVE  LetsInv'
<1>1. PlanInv' /\ PlanInv /\ FreshInv /\ Fine(wac) /\ MadeInv
  BY PlanStep DEF LetsInv
<1>2. CASE SkipImport \/ StartChain \/ GrowChain \/ CloseChain \/ Standalone \/ ApplyRule \/ RulesApplied
  <2>1. /\ pc \in {"chains", "rules"} /\ pc' \in {"chains", "rules", "providers"}
        /\ UNCHANGED <<wac, todo, routes>>
    BY <1>2 DEF SkipImport, StartChain, GrowChain, CloseChain, Standalone, ApplyRule, RulesApplied, NextImport
  <2> QED BY <1>1, <2>1, EarlyLets DEF LetsInv
<1>3. CASE (\E n \in Nodes : PreInstantiate(n)) \/ StartWalk
  BY <1>1, <1>3, PreInstantiateLets, StartWalkLets DEF LetsInv
<1>4. CASE DeferInject \/ Place \/ ReachFanIn
  BY <1>1, <1>4, DeferInjectLets, PlaceLets, ReachFanInLets DEF LetsInv
<1>5. CASE InjectNext \/ LeaveFanIn \/ Leave
  BY <1>1, <1>5, InjectNextLets, LeaveLets DEF LetsInv
<1>6. CASE (\E n \in Nodes : InstantiateFanIn(n)) \/ StartDrain \/ FinishDrain
  BY <1>1, <1>6, InstantiateFanInLets, StartDrainLets, FinishDrainLets DEF LetsInv
<1>7. CASE StartExports \/ (\E i \in Ifaces : EmitExport(i)) \/ Finish
  BY <1>1, <1>7, StartExportsLets, EmitExportLets, FinishLets DEF LetsInv
<1>8. CASE Terminated \/ UNCHANGED vars
  BY <1>1, <1>8, StutterLets DEF LetsInv, Terminated
<1> QED BY <1>2, <1>3, <1>4, <1>5, <1>6, <1>7, <1>8 DEF Next

(* generate_wac names every instance once, so that wac accepts the script:  *)
(* for every graph, shim map and list of rules, unless a rule without a     *)
(* provider matches all along a chain, or a node that consumes two          *)
(* interfaces is imported from, and so is made by two passes.               *)
THEOREM LetsAreUnique == Spec => []LetsUnique
<1> DEFINE Hyp == ProvidersNamed /\ FanInsEnd
<1>1. Init => Inv /\ InputInv /\ ChainsInv /\ (Hyp => LetsInv)
  BY InitInv, InitLets
<1>2. Inv /\ InputInv /\ ChainsInv /\ (Hyp => LetsInv) /\ [Next]_vars
        => (Inv /\ InputInv /\ ChainsInv /\ (Hyp => LetsInv))'
  <2> SUFFICES ASSUME Inv, InputInv, ChainsInv, Hyp => LetsInv, [Next]_vars
               PROVE  (Inv /\ InputInv /\ ChainsInv /\ (Hyp => LetsInv))'
    OBVIOUS
  <2>1. Inv' /\ InputInv' /\ ChainsInv' /\ UNCHANGED input
    BY NextInv, InputStep, ChainsStep
  <2>2. Hyp' <=> Hyp
    BY <2>1 DEF input, ProvidersNamed, FanInsEnd, Handled, Internal
  <2>3. Hyp => LetsInv'
    BY LetsStep
  <2> QED BY <2>1, <2>2, <2>3
<1>3. Inv /\ (Hyp => LetsInv) => LetsUnique
  <2> SUFFICES ASSUME Inv, LetsInv PROVE UniqueLets
    BY DEF LetsUnique
  <2>1. wac.lines \in Seq(LineType) /\ Distinct(wac)
    BY DEF Inv, Builder, WacType, LetsInv, Fine
  <2> QED BY <2>1 DEF UniqueLets, Distinct, Lines
<1> QED BY <1>1, <1>2, <1>3, PTL DEF Spec
=============================================================================
