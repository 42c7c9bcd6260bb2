--------------------------- MODULE WacSpliceProofs ---------------------------
(***************************************************************************)
(* Proofs about WacPlan: after the rules, the plan of every chain position *)
(* is what the rules ask for there; on an ordinary composition every edge  *)
(* comes back through that, and, the exports being ordinary, so does every *)
(* export.                                                                 *)
(***************************************************************************)
EXTENDS WacPlanProofs, NaturalsInduction, WellFoundedInduction

-----------------------------------------------------------------------------
(* Every nonempty set of places has a first.                                *)
Less == {p \in Nat \X Nat : p[1] < p[2]}

LEMMA FirstOf ==
  ASSUME NEW T, T \subseteq Nat, T # {}
  PROVE  \E x \in T : \A y \in T : x <= y
<1>1. IsWellFoundedOn(Less, Nat)
  BY NatLessThanWellFounded DEF OpToRel, Less
<1>2. PICK x \in T : \A y \in T : ~(<<y, x>> \in Less)
  BY <1>1, WFMin
<1>3. ASSUME NEW y \in T PROVE x <= y
  <2>1. x \in Nat /\ y \in Nat /\ ~(<<y, x>> \in Less)
    BY <1>2
  <2>2. <<y, x>> \in Nat \X Nat /\ <<y, x>>[1] = y /\ <<y, x>>[2] = x
    BY <2>1
  <2>3. ~(y < x)
    BY <2>1, <2>2 DEF Less
  <2> QED BY <2>1, <2>3
<1> QED BY <1>3

-----------------------------------------------------------------------------
(* What the rules ask for, rule by rule: the recursion has a solution, for  *)
(* one up to rule n - 1 extends to rule n.                                  *)
AskedStep(f, k, i, p, q) ==
  IF k = 0 THEN <<>> ELSE IF Asks(rules[k], i, p, q) THEN f[k - 1] \o rules[k].mdls ELSE f[k - 1]

LEMMA AskedSolved ==
  ASSUME NEW i, NEW p, NEW q, NEW n \in Nat
  PROVE  \E f : f = [k \in 0..n |-> AskedStep(f, k, i, p, q)]
<1> DEFINE T == {m \in Nat : ~\E f : f = [k \in 0..m |-> AskedStep(f, k, i, p, q)]}
<1>1. SUFFICES ASSUME T # {} PROVE FALSE
  OBVIOUS
<1>2. PICK m \in T : \A y \in T : m <= y
  BY <1>1, FirstOf
<1>3. m \in Nat /\ ~\E f : f = [k \in 0..m |-> AskedStep(f, k, i, p, q)]
  BY <1>2
<1>4. CASE m = 0
  <2> DEFINE g == [k \in 0..m |-> <<>>]
  <2>1. \A k \in 0..m : AskedStep(g, k, i, p, q) = <<>>
    BY <1>4 DEF AskedStep
  <2>2. g = [k \in 0..m |-> AskedStep(g, k, i, p, q)]
    BY <2>1
  <2> QED BY <1>3, <2>2
<1>5. CASE m > 0
  <2>1. m - 1 \in Nat /\ m - 1 \notin T
    BY <1>2, <1>3, <1>5
  <2>2. PICK f : f = [k \in 0..(m - 1) |-> AskedStep(f, k, i, p, q)]
    BY <2>1
  <2> DEFINE g == [k \in 0..m |-> IF k < m THEN f[k] ELSE AskedStep(f, k, i, p, q)]
  <2>3. \A k \in 0..m : k > 0 => g[k - 1] = f[k - 1]
    BY <1>3
  <2>4. \A k \in 0..m : AskedStep(g, k, i, p, q) = AskedStep(f, k, i, p, q)
    BY <1>3, <2>3 DEF AskedStep
  <2>5. \A k \in 0..m : k < m => f[k] = AskedStep(f, k, i, p, q)
    <3>1. \A k \in 0..m : k < m => k \in 0..(m - 1)
      BY <1>3
    <3> HIDE DEF g
    <3> QED BY <2>2, <3>1
  <2>6. \A k \in 0..m : g[k] = AskedStep(g, k, i, p, q)
    BY <2>4, <2>5
  <2>7. g = [k \in 0..m |-> AskedStep(g, k, i, p, q)]
    BY <2>6
  <2> QED BY <1>3, <2>7
<1> QED BY <1>3, <1>4, <1>5

LEMMA AskedUnfolds ==
  ASSUME rules \in Seq(Rules), NEW i, NEW p, NEW q
  PROVE  \A k \in 0..Len(rules) :
           RequestedUpTo(i, p, q)[k] = AskedStep(RequestedUpTo(i, p, q), k, i, p, q)
<1> DEFINE r == RequestedUpTo(i, p, q)
<1>1. PICK f : f = [k \in 0..Len(rules) |-> AskedStep(f, k, i, p, q)]
  BY AskedSolved
<1>2. r = CHOOSE g : g = [k \in 0..Len(rules) |-> AskedStep(g, k, i, p, q)]
  BY DEF RequestedUpTo, AskedStep
<1>3. r = [k \in 0..Len(rules) |-> AskedStep(r, k, i, p, q)]
  BY <1>1, <1>2
<1> HIDE DEF r
<1> QED BY <1>3 DEF r

-----------------------------------------------------------------------------
(* The chains.  One that is handled runs from a node that imports the       *)
(* interface from the host to one nobody imports it from; the others are    *)
(* one exported node and come last.  Nothing seen is left out.              *)
Passing(m, a) == m > at[1] \/ (m = at[1] /\ a < at[2])
Shaped ==
  /\ \A k \in DOMAIN chains : LET c == chains[k] IN
       /\ c.iface \in Handled =>
            Len(c.nodes) > 1 /\ imports[c.nodes[1]][c.iface] = Host /\ c.nodes[Len(c.nodes)] \in Ends(c.iface)
       /\ c.iface \notin Handled => exports[c.iface] # Host /\ c.nodes = <<exports[c.iface]>>
  /\ \A j, k \in DOMAIN chains : chains[j].iface \in Handled /\ chains[k].iface \notin Handled => j < k
Growing == growing # <<>> => Len(growing) > 1 /\ growing[Len(growing)] \in Ends(Cursor)
Scanned ==
  /\ pc = "chains" => \A a \in DOMAIN IfaceOrder :
       /\ \A m \in Nodes : Passing(m, a) /\ imports[m][IfaceOrder[a]] # Host => IfaceOrder[a] \in Planned
       /\ at[1] = 0 /\ a < at[2] /\ exports[IfaceOrder[a]] # Host => IfaceOrder[a] \in Planned
  /\ pc # "chains" => \A i \in Ifaces : i \in Handled \/ exports[i] # Host => i \in Planned
ShapeInv == Shaped /\ Growing /\ Scanned

LEMMA InitShape == Init => ShapeInv
<1> SUFFICES ASSUME Init PROVE ShapeInv
  OBVIOUS
<1>1. /\ chains = <<>> /\ growing = <<>> /\ pc = "chains" /\ at = <<NumNodes, 1>>
  BY DEF Init
<1>2. Shaped /\ Growing
  BY <1>1 DEF Shaped, Growing
<1>3. \A a \in DOMAIN IfaceOrder : ~(a < 1) /\ \A m \in Nodes : ~(m > NumNodes)
  BY SizesAssumption DEF Nodes
<1>4. Scanned
  BY <1>1, <1>3 DEF Scanned, Passing
<1> QED BY <1>2, <1>4 DEF ShapeInv

LEMMA GraphKept ==
  ASSUME UNCHANGED imports
  PROVE  Handled' = Handled /\ (\A i : Ends(i)' = Ends(i)) /\ \A n : Internal(n)' = Internal(n)
BY DEF Handled, Ends, Internal

(* A chain is started from the largest consumer; nobody imports from it.    *)
LEMMA StartChainShape == ASSUME Inv, InputInv, ShapeInv, StartChain PROVE ShapeInv'
<1>1. /\ pc = "chains" /\ at[1] \in Nodes /\ Cursor \in Ifaces /\ Cursor \notin Planned
      /\ imports[at[1]][Cursor] # Host /\ UNCHANGED <<input, pc, at, chains>>
      /\ growing' = <<imports[at[1]][Cursor], at[1]>>
      /\ imports \in [Nodes -> [Ifaces -> {Host} \union Nodes]]
  <2>1. StartChain /\ pc = "chains" /\ at[1] \in Nodes /\ Cursor \in Ifaces
    BY CursorIface, SizesAssumption DEF Inv, StartChain, CursorInv, Types, Nodes
  <2> QED BY <2>1 DEF StartChain, Inv, Types, GraphType
<1>2. /\ Handled' = Handled /\ Cursor' = Cursor /\ Planned' = Planned /\ \A i : Ends(i)' = Ends(i)
  BY <1>1, GraphKept DEF Cursor, Planned, input
<1>3. ASSUME NEW m \in Nodes, imports[m][Cursor] = at[1] PROVE FALSE
  <2>1. at[1] < m /\ m \in Nat /\ at[1] \in Nat
    BY <1>1, <1>3, SizesAssumption DEF InputInv, Nodes
  <2>2. at[2] \in DOMAIN IfaceOrder /\ Cursor = IfaceOrder[at[2]]
    BY <1>1 DEF Inv, CursorInv, Cursor
  <2>3. imports[m][Cursor] # Host
    BY <1>1, <1>3 DEF Nodes, Host
  <2>4. Cursor \in Planned
    BY <1>1, <2>1, <2>2, <2>3 DEF ShapeInv, Scanned, Passing
  <2> QED BY <1>1, <2>4
<1>4. at[1] \in Ends(Cursor)
  BY <1>1, <1>3 DEF Ends
<1>5. Len(growing') = 2 /\ growing'[2] = at[1]
  BY <1>1
<1>6. Growing'
  BY <1>2, <1>4, <1>5 DEF Growing
<1> QED BY <1>1, <1>2, <1>6 DEF ShapeInv, Shaped, Scanned, Passing, input

LEMMA GrowChainShape == ASSUME Inv, InputInv, ShapeInv, GrowChain PROVE ShapeInv'
<1> DEFINE e == imports[growing[1]][Cursor]
<1>1. /\ pc = "chains" /\ growing # <<>> /\ growing \in Seq(Nodes) /\ growing[1] \in Nodes
      /\ Cursor \in Ifaces /\ e \in Nodes /\ growing' = <<e>> \o growing
      /\ UNCHANGED <<input, pc, at, chains>>
  BY CursorIface DEF Inv, GrowChain, Types, GraphType
<1> HIDE DEF e
<1>2. /\ Handled' = Handled /\ Cursor' = Cursor /\ Planned' = Planned /\ \A i : Ends(i)' = Ends(i)
  BY <1>1, GraphKept DEF Cursor, Planned, input
<1>3. Len(growing') = Len(growing) + 1 /\ Len(growing) \in Nat
      /\ \A j \in 2..(Len(growing) + 1) : growing'[j] = growing[j - 1]
  BY <1>1, PrependFacts
<1>4. Len(growing) > 1 /\ growing'[Len(growing')] = growing[Len(growing)]
  BY <1>1, <1>3 DEF ShapeInv, Growing
<1>5. Growing'
  BY <1>1, <1>2, <1>3, <1>4 DEF ShapeInv, Growing
<1> QED BY <1>1, <1>2, <1>5 DEF ShapeInv, Shaped, Scanned, Passing, input

(* The scan goes on: what is passed next is what was passed, or the cursor. *)
LEMMA ScanGoesOn ==
  ASSUME Inv, pc = "chains", at[1] > 0, NextImport
  PROVE  /\ \A a \in DOMAIN IfaceOrder, m \in Nodes : Passing(m, a)' => Passing(m, a) \/ (m = at[1] /\ a = at[2])
         /\ at'[1] = 0 => at'[2] = 1
<1>1. /\ at \in Nat \X Nat /\ at[1] \in 1..NumNodes /\ NumNodes \in Nat
      /\ at[2] \in 1..Len(IfaceOrder) /\ Len(IfaceOrder) \in Nat \ {0}
      /\ DOMAIN IfaceOrder = 1..Len(IfaceOrder)
  BY SizesAssumption, CursorIface DEF Inv, Types, CursorInv
<1>2. at' = IF at[2] < Len(IfaceOrder) THEN <<at[1], at[2] + 1>> ELSE <<at[1] - 1, 1>>
  BY DEF NextImport
<1>3. CASE at[2] < Len(IfaceOrder)
  BY <1>1, <1>2, <1>3 DEF Passing, Nodes
<1>4. CASE ~(at[2] < Len(IfaceOrder))
  <2>1. at'[1] = at[1] - 1 /\ at'[2] = 1 /\ at[2] = Len(IfaceOrder)
    BY <1>1, <1>2, <1>4
  <2> QED BY <1>1, <2>1 DEF Passing, Nodes
<1> QED BY <1>3, <1>4

LEMMA ScannedNext ==
  ASSUME Inv, Scanned, pc = "chains", pc' = "chains", at[1] > 0, NextImport, UNCHANGED input,
         Planned \subseteq Planned', imports[at[1]][Cursor] = Host \/ Cursor \in Planned'
  PROVE  Scanned'
<1>1. /\ \A a \in DOMAIN IfaceOrder, m \in Nodes : Passing(m, a)' => Passing(m, a) \/ (m = at[1] /\ a = at[2])
      /\ at'[1] = 0 => at'[2] = 1
  BY ScanGoesOn
<1>2. \A a \in DOMAIN IfaceOrder : ~(a < 1)
  BY SizesAssumption
<1> QED BY <1>1, <1>2 DEF Scanned, Cursor, input

LEMMA SkipImportShape == ASSUME Inv, ShapeInv, SkipImport PROVE ShapeInv'
<1>1. /\ pc = "chains" /\ pc' = "chains" /\ at[1] > 0 /\ growing = <<>> /\ NextImport
      /\ UNCHANGED <<input, planned>> /\ (imports[at[1]][Cursor] = Host \/ Cursor \in Planned)
  BY DEF SkipImport, NextImport
<1>2. /\ Handled' = Handled /\ Planned' = Planned /\ \A i : Ends(i)' = Ends(i)
  BY <1>1, GraphKept DEF Planned, input, planned
<1>3. Scanned'
  BY <1>1, <1>2, ScannedNext DEF ShapeInv
<1> QED BY <1>1, <1>2, <1>3 DEF ShapeInv, Shaped, Growing, input, planned

(* A new chain among the others.                                            *)
LEMMA ShapedMore ==
  ASSUME Inv, Shaped, UNCHANGED input, NEW i \in Ifaces, NEW nodes \in Seq(Nodes), nodes # <<>>,
         chains' = Append(chains, NewChain(i, nodes)),
         i \in Handled =>
           /\ Len(nodes) > 1 /\ imports[nodes[1]][i] = Host /\ nodes[Len(nodes)] \in Ends(i)
           /\ \A k \in DOMAIN chains : chains[k].iface \in Handled,
         i \notin Handled => exports[i] # Host /\ nodes = <<exports[i]>>
  PROVE  Shaped' /\ Planned' = Planned \union {i}
<1> DEFINE c == NewChain(i, nodes)
<1>1. chains \in Seq(ChainType) /\ c \in ChainType /\ c.iface = i /\ c.nodes = nodes
  BY NewChainType, NewChainFacts DEF Inv, Types
<1> HIDE DEF c
<1>2. /\ Len(chains') = Len(chains) + 1 /\ Len(chains) \in Nat /\ chains' \in Seq(ChainType)
      /\ chains'[Len(chains) + 1] = c
      /\ \A j \in 1..Len(chains) : chains'[j] = chains[j]
  BY <1>1, AppendFacts DEF c
<1>3. /\ Handled' = Handled /\ \A j : Ends(j)' = Ends(j)
  BY GraphKept DEF input
<1>4. /\ DOMAIN chains = 1..Len(chains) /\ DOMAIN chains' = 1..(Len(chains) + 1)
  BY <1>1, <1>2
<1>5. ASSUME NEW k \in DOMAIN chains'
      PROVE  LET d == chains'[k] IN
             /\ d.iface \in Handled =>
                  Len(d.nodes) > 1 /\ imports[d.nodes[1]][d.iface] = Host /\ d.nodes[Len(d.nodes)] \in Ends(d.iface)
             /\ d.iface \notin Handled => exports[d.iface] # Host /\ d.nodes = <<exports[d.iface]>>
  <2>1. CASE k \in 1..Len(chains)
    BY <1>2, <1>4, <2>1 DEF Shaped
  <2>2. CASE k = Len(chains) + 1
    BY <1>1, <1>2, <2>2
  <2> QED BY <1>2, <1>4, <2>1, <2>2
<1>6. ASSUME NEW j \in DOMAIN chains', NEW k \in DOMAIN chains',
             chains'[j].iface \in Handled, chains'[k].iface \notin Handled
      PROVE  j < k
  <2>1. k = Len(chains) + 1 => j \in 1..Len(chains)
    BY <1>1, <1>2, <1>4, <1>6
  <2>2. k # Len(chains) + 1 => chains'[k] = chains[k] /\ k \in DOMAIN chains
    BY <1>2, <1>4
  <2>3. CASE j = Len(chains) + 1
    BY <1>1, <1>2, <1>6, <2>1, <2>2, <2>3
  <2>4. CASE j # Len(chains) + 1
    BY <1>2, <1>4, <1>6, <2>1, <2>2, <2>4 DEF Shaped
  <2> QED BY <2>3, <2>4
<1>7. Shaped'
  BY <1>3, <1>5, <1>6 DEF Shaped, input
<1>8. Planned' = Planned \union {i}
  BY <1>1, <1>2, <1>4 DEF Planned
<1> QED BY <1>7, <1>8

LEMMA CloseChainShape == ASSUME Inv, ChainsInv, ShapeInv, CloseChain PROVE ShapeInv'
<1>1. /\ pc = "chains" /\ pc' = "chains" /\ growing # <<>> /\ growing \in Seq(Nodes)
      /\ Cursor \in Ifaces /\ at[1] > 0 /\ at[1] # 0
      /\ chains' = Append(chains, NewChain(Cursor, growing)) /\ growing' = <<>> /\ UNCHANGED input
      /\ NextImport /\ imports[growing[1]][Cursor] = Host
  BY CursorIface DEF Inv, CloseChain, NextImport, Types, CursorInv
<1>2. Cursor \in Handled /\ \A k \in DOMAIN chains : chains[k].iface \in Handled
  BY <1>1 DEF ChainsInv
<1>3. Len(growing) > 1 /\ growing[Len(growing)] \in Ends(Cursor)
  BY <1>1 DEF ShapeInv, Growing
<1>4. Shaped' /\ Planned' = Planned \union {Cursor}
  BY <1>1, <1>2, <1>3, ShapedMore DEF ShapeInv
<1>5. Scanned'
  BY <1>1, <1>4, ScannedNext DEF ShapeInv
<1> QED BY <1>1, <1>4, <1>5 DEF ShapeInv, Growing

LEMMA StandaloneShape == ASSUME Inv, ChainsInv, ShapeInv, Standalone PROVE ShapeInv'
<1>1. /\ pc = "chains" /\ at[1] = 0 /\ growing = <<>> /\ growing' = <<>> /\ Cursor \in Ifaces
      /\ at[2] \in 1..Len(IfaceOrder) /\ Len(IfaceOrder) \in Nat /\ Cursor = IfaceOrder[at[2]]
      /\ UNCHANGED input /\ exports[Cursor] \in {Host} \union Nodes
  BY CursorIface DEF Inv, Standalone, CursorInv, Types, Cursor
<1>2. Shaped' /\ Planned \subseteq Planned' /\ (Cursor \in Planned' \/ Cursor \in Handled \/ exports[Cursor] = Host)
  <2>1. CASE exports[Cursor] = Host \/ Cursor \in Handled
    <3>1. chains' = chains
      BY <2>1 DEF Standalone
    <3> QED BY <1>1, <2>1, <3>1, GraphKept DEF ShapeInv, Shaped, Planned, input
  <2>2. CASE ~(exports[Cursor] = Host \/ Cursor \in Handled)
    <3> DEFINE ns == <<exports[Cursor]>>
    <3>1. ns \in Seq(Nodes) /\ ns # <<>> /\ chains' = Append(chains, NewChain(Cursor, ns))
      BY <1>1, <2>2 DEF Standalone
    <3>2. ns = <<exports[Cursor]>>
      OBVIOUS
    <3> HIDE DEF ns
    <3> QED BY <1>1, <2>2, <3>1, <3>2, ShapedMore DEF ShapeInv
  <2> QED BY <2>1, <2>2
<1>3. /\ DOMAIN IfaceOrder = 1..Len(IfaceOrder) /\ (\A a \in DOMAIN IfaceOrder : IfaceOrder[a] \in Ifaces)
      /\ \A i \in Ifaces : \E a \in DOMAIN IfaceOrder : i = IfaceOrder[a]
  BY SizesAssumption DEF Ifaces
<1>4. Handled \subseteq Planned
  <2> SUFFICES ASSUME NEW i \in Handled PROVE i \in Planned
    OBVIOUS
  <2>1. i \in Ifaces /\ \E n \in Nodes : imports[n][i] # Host
    BY DEF Handled
  <2>2. PICK a \in DOMAIN IfaceOrder : i = IfaceOrder[a]
    BY <1>3, <2>1
  <2>3. PICK n \in Nodes : imports[n][i] # Host
    BY <2>1
  <2>4. n > at[1]
    BY <1>1, SizesAssumption DEF Nodes
  <2> QED BY <1>1, <2>2, <2>3, <2>4 DEF ShapeInv, Scanned, Passing
<1>5. \A a \in DOMAIN IfaceOrder : a <= at[2] /\ exports[IfaceOrder[a]] # Host => IfaceOrder[a] \in Planned'
  BY <1>1, <1>2, <1>3, <1>4 DEF ShapeInv, Scanned
<1>6. CASE at[2] < Len(IfaceOrder)
  <2>1. at' = <<0, at[2] + 1>> /\ pc' = "chains"
    BY <1>6 DEF Standalone
  <2>2. \A a \in DOMAIN IfaceOrder : \A m \in Nodes : imports[m][IfaceOrder[a]] # Host => IfaceOrder[a] \in Planned'
    BY <1>2, <1>3, <1>4 DEF Handled
  <2>3. \A a \in DOMAIN IfaceOrder : a < at[2] + 1 => a <= at[2]
    BY <1>1, <1>3
  <2>4. Scanned'
    BY <1>1, <1>5, <2>1, <2>2, <2>3 DEF Scanned, input
  <2> QED BY <1>1, <1>2, <2>4 DEF ShapeInv, Growing
<1>7. CASE ~(at[2] < Len(IfaceOrder))
  <2>1. pc' = "rules" /\ \A a \in DOMAIN IfaceOrder : a <= at[2]
    BY <1>1, <1>3, <1>7 DEF Standalone
  <2>2. \A i \in Ifaces : i \in Handled \/ exports[i] # Host => i \in Planned'
    BY <1>2, <1>3, <1>4, <1>5, <2>1
  <2>3. Scanned'
    BY <1>1, <2>1, <2>2, GraphKept DEF Scanned, input
  <2> QED BY <1>1, <1>2, <2>3 DEF ShapeInv, Growing
<1> QED BY <1>6, <1>7

(* Rules do not change the shape, and later nothing does.                   *)
LEMMA ShapeKept ==
  ASSUME ShapeInv, UNCHANGED <<input, growing>>, growing = <<>>, pc # "chains", pc' # "chains",
         DOMAIN chains' = DOMAIN chains,
         \A k \in DOMAIN chains : chains'[k].iface = chains[k].iface /\ chains'[k].nodes = chains[k].nodes
  PROVE  ShapeInv'
<1>1. Handled' = Handled /\ Planned' = Planned /\ \A i : Ends(i)' = Ends(i)
  BY GraphKept DEF Planned, input
<1> QED BY <1>1 DEF ShapeInv, Shaped, Growing, Scanned, input

LEMMA ShapeStep == ASSUME Inv, InputInv, ChainsInv, ShapeInv, [Next]_vars PROVE ShapeInv'
<1>1. CASE SkipImport \/ StartChain \/ GrowChain \/ CloseChain \/ Standalone
  BY <1>1, SkipImportShape, StartChainShape, GrowChainShape, CloseChainShape, StandaloneShape
<1>2. CASE ApplyRule
  <2>1. /\ pc = "rules" /\ pc' = "rules" /\ growing' = growing /\ UNCHANGED input
        /\ chains \in Seq(ChainType) /\ growing = <<>>
        /\ chains' = [k \in DOMAIN chains |-> WithRule(rules[at[1]], chains[k])]
    BY <1>2 DEF ApplyRule, Inv, Types, ChainsInv
  <2>2. \A k \in DOMAIN chains : chains'[k].iface = chains[k].iface /\ chains'[k].nodes = chains[k].nodes
    BY <2>1, WithRuleFacts
  <2> QED BY <2>1, <2>2, ShapeKept
<1>3. CASE UNCHANGED vars
  BY <1>3, GraphKept DEF vars, ShapeInv, Shaped, Growing, Scanned, Passing, Cursor, Planned
<1>4. CASE UNCHANGED <<input, planned>> /\ pc # "chains" /\ pc' # "chains"
  <2>1. growing = <<>>
    BY <1>4 DEF ChainsInv
  <2> QED BY <1>4, <2>1, ShapeKept DEF planned
<1>5. \/ SkipImport \/ StartChain \/ GrowChain \/ CloseChain \/ Standalone \/ ApplyRule
      \/ UNCHANGED vars
      \/ UNCHANGED <<input, planned>> /\ pc # "chains" /\ pc' # "chains"
  BY DEF Next, RulesApplied, PreInstantiate, StartWalk, DeferInject, Place, ReachFanIn, InjectNext,
         LeaveFanIn, Leave, Advance, InstantiateFanIn, StartDrain, FinishDrain, StartExports,
         EmitExport, Finish, Terminated
<1> QED BY <1>1, <1>2, <1>3, <1>4, <1>5

-----------------------------------------------------------------------------
(* The plan: at each position, what the rules ask for there.                *)
Outer(k, p) == IF p < Len(chains[k].nodes) THEN chains[k].nodes[p + 1] ELSE Host
AskedAt(k, p) == RequestedUpTo(chains[k].iface, chains[k].nodes[p], Outer(k, p))
Applied == IF pc = "chains" THEN 0 ELSE IF pc = "rules" THEN at[1] - 1 ELSE Len(rules)
PlansInv ==
  /\ Applied \in 0..Len(rules)
  /\ \A k \in DOMAIN chains : \A p \in DOMAIN chains[k].nodes : PlanAt(k, p) = AskedAt(k, p)[Applied]

LEMMA RequestedKept ==
  ASSUME UNCHANGED rules
  PROVE  \A i, p, q : RequestedUpTo(i, p, q)' = RequestedUpTo(i, p, q)
BY DEF RequestedUpTo, Asks

LEMMA AskedZero ==
  ASSUME rules \in Seq(Rules), NEW i, NEW p, NEW q
  PROVE  RequestedUpTo(i, p, q)[0] = <<>>
BY AskedUnfolds DEF AskedStep

LEMMA AskedNext ==
  ASSUME rules \in Seq(Rules), NEW i, NEW p, NEW q, NEW k \in 1..Len(rules)
  PROVE  RequestedUpTo(i, p, q)[k] =
           IF Asks(rules[k], i, p, q) THEN RequestedUpTo(i, p, q)[k - 1] \o rules[k].mdls
           ELSE RequestedUpTo(i, p, q)[k - 1]
BY AskedUnfolds DEF AskedStep

LEMMA HostIsNoNode == Host \notin Nodes
BY DEF Host, Nodes

(* A rule matches at a position exactly when it asks for something there.   *)
LEMMA MatchesAsks ==
  ASSUME Inv, NEW r \in Rules, NEW k \in DOMAIN chains, NEW p \in DOMAIN chains[k].nodes
  PROVE  Matches(r, chains[k], p) <=> Asks(r, chains[k].iface, chains[k].nodes[p], Outer(k, p))
<1>1. chains[k] \in ChainType /\ chains[k].nodes \in Seq(Nodes) /\ p \in 1..Len(chains[k].nodes)
  BY DEF Inv, Types, ChainType
<1>2. CASE p < Len(chains[k].nodes)
  <2>1. chains[k].nodes[p + 1] \in Nodes
    BY <1>1, <1>2
  <2>2. Outer(k, p) = chains[k].nodes[p + 1] /\ Outer(k, p) # Host
    BY <1>2, <2>1, HostIsNoNode DEF Outer
  <2> QED BY <1>2, <2>2 DEF Matches, Asks
<1>3. CASE ~(p < Len(chains[k].nodes))
  <2>1. Outer(k, p) = Host
    BY <1>3 DEF Outer
  <2> QED BY <1>3, <2>1 DEF Matches, Asks
<1> QED BY <1>2, <1>3

LEMMA InitPlans == Init => PlansInv
<1> SUFFICES ASSUME Init PROVE PlansInv
  OBVIOUS
<1>1. chains = <<>> /\ Applied = 0 /\ rules \in Seq(Rules)
  BY InitInv DEF Init, Applied, Inv, Types
<1> QED BY <1>1 DEF PlansInv

(* While there is no rule applied the plans are empty.                      *)
LEMMA ChainPassPlans ==
  ASSUME Inv, PlansInv, pc = "chains", pc' \in {"chains", "rules"}, UNCHANGED input,
         pc' = "rules" => at'[1] = 1,
         \/ UNCHANGED chains
         \/ \E i \in Ifaces, nodes \in Seq(Nodes) : nodes # <<>> /\ chains' = Append(chains, NewChain(i, nodes))
  PROVE  PlansInv'
<1>1. rules' = rules /\ rules \in Seq(Rules) /\ Len(rules) \in Nat /\ Applied = 0 /\ Applied' = 0
  BY DEF input, Inv, Types, Applied
<1>2. \A k \in DOMAIN chains : \A p \in DOMAIN chains[k].nodes : chains[k].plan[p] = <<>>
  BY <1>1, AskedZero DEF PlansInv, PlanAt, AskedAt
<1>3. \A k \in DOMAIN chains' : \A p \in DOMAIN chains'[k].nodes : chains'[k].plan[p] = <<>>
  <2>1. CASE UNCHANGED chains
    BY <1>2, <2>1
  <2>2. ASSUME NEW i \in Ifaces, NEW nodes \in Seq(Nodes), nodes # <<>>,
               chains' = Append(chains, NewChain(i, nodes))
        PROVE  \A k \in DOMAIN chains' : \A p \in DOMAIN chains'[k].nodes : chains'[k].plan[p] = <<>>
    <3> DEFINE c == NewChain(i, nodes)
    <3>1. c \in ChainType /\ chains \in Seq(ChainType) /\ \A p \in DOMAIN c.nodes : c.plan[p] = <<>>
      BY <2>2, NewChainType, NewChainFacts DEF Inv, Types
    <3> HIDE DEF c
    <3>2. \A k \in DOMAIN chains' : (k \in DOMAIN chains /\ chains'[k] = chains[k]) \/ chains'[k] = c
      BY <2>2, <3>1, AppendFacts DEF c
    <3> QED BY <1>2, <3>1, <3>2
  <2> QED BY <2>1, <2>2
<1>4. ASSUME NEW k \in DOMAIN chains', NEW p \in DOMAIN chains'[k].nodes
      PROVE  PlanAt(k, p)' = AskedAt(k, p)'[Applied']
  <2>1. AskedAt(k, p)'[0] = <<>>
    BY <1>1, RequestedKept, AskedZero DEF AskedAt
  <2> QED BY <1>1, <1>3, <2>1 DEF PlanAt
<1> QED BY <1>1, <1>4 DEF PlansInv

LEMMA ApplyRulePlans == ASSUME Inv, PlansInv, ApplyRule PROVE PlansInv'
<1> DEFINE r == rules[at[1]]
<1>1. /\ pc = "rules" /\ pc' = "rules" /\ at' = <<at[1] + 1, 1>> /\ at[1] \in 1..Len(rules)
      /\ rules' = rules /\ rules \in Seq(Rules) /\ chains \in Seq(ChainType)
      /\ chains' = [k \in DOMAIN chains |-> WithRule(r, chains[k])]
  BY DEF ApplyRule, Inv, Types, CursorInv, input
<1>2. r \in Rules /\ Applied = at[1] - 1 /\ Applied' = at[1]
  BY <1>1 DEF Applied
<1>3. ASSUME NEW k \in DOMAIN chains
      PROVE  /\ chains'[k].iface = chains[k].iface /\ chains'[k].nodes = chains[k].nodes
             /\ DOMAIN chains[k].plan = DOMAIN chains[k].nodes
             /\ \A p \in DOMAIN chains[k].nodes : /\ Outer(k, p)' = Outer(k, p)
                  /\ PlanAt(k, p)' = IF Matches(r, chains[k], p) THEN PlanAt(k, p) \o r.mdls ELSE PlanAt(k, p)
  BY <1>1, WithRuleFacts DEF PlanAt, Outer
<1>4. DOMAIN chains' = DOMAIN chains
  BY <1>1
<1>5. ASSUME NEW k \in DOMAIN chains, NEW p \in DOMAIN chains[k].nodes
      PROVE  PlanAt(k, p)' = AskedAt(k, p)'[Applied']
  <2>1. AskedAt(k, p)' = AskedAt(k, p)
    BY <1>1, <1>3, RequestedKept DEF AskedAt
  <2>2. PlanAt(k, p) = AskedAt(k, p)[at[1] - 1]
    BY <1>2 DEF PlansInv
  <2>3. Matches(r, chains[k], p) <=> Asks(r, chains[k].iface, chains[k].nodes[p], Outer(k, p))
    BY <1>2, MatchesAsks
  <2>4. AskedAt(k, p)[at[1]] = IF Asks(r, chains[k].iface, chains[k].nodes[p], Outer(k, p))
                               THEN AskedAt(k, p)[at[1] - 1] \o r.mdls ELSE AskedAt(k, p)[at[1] - 1]
    BY <1>1, AskedNext DEF AskedAt
  <2> QED BY <1>2, <1>3, <2>1, <2>2, <2>3, <2>4
<1>6. Applied' \in 0..Len(rules')
  BY <1>1, <1>2
<1> QED BY <1>3, <1>4, <1>5, <1>6 DEF PlansInv

LEMMA PlansKept ==
  ASSUME Inv, PlansInv, UNCHANGED <<rules, chains>>, Applied' = Applied
  PROVE  PlansInv'
BY RequestedKept DEF PlansInv, PlanAt, AskedAt, Outer

LEMMA PlansStep == ASSUME Inv, PlansInv, [Next]_vars PROVE PlansInv'
<1>1. CASE SkipImport \/ StartChain \/ GrowChain
  BY <1>1, ChainPassPlans DEF SkipImport, StartChain, GrowChain, NextImport, planned
<1>2. CASE CloseChain
  <2>1. growing \in Seq(Nodes) /\ growing # <<>> /\ Cursor \in Ifaces
    BY <1>2, CursorIface DEF CloseChain, Inv, Types
  <2> QED BY <1>2, <2>1, ChainPassPlans DEF CloseChain, NextImport
<1>3. CASE Standalone
  <2>1. pc = "chains" /\ Cursor \in Ifaces /\ exports[Cursor] \in {Host} \union Nodes
    BY <1>3, CursorIface DEF Standalone, Inv, Types
  <2>2. CASE exports[Cursor] = Host \/ Cursor \in Handled
    <3>1. chains' = chains /\ pc' \in {"chains", "rules"} /\ (pc' = "rules" => at'[1] = 1) /\ UNCHANGED input
      BY <1>3, <2>2 DEF Standalone
    <3> QED BY <2>1, <3>1, ChainPassPlans
  <2>3. CASE ~(exports[Cursor] = Host \/ Cursor \in Handled)
    <3>1. /\ chains' = Append(chains, NewChain(Cursor, <<exports[Cursor]>>))
          /\ pc' \in {"chains", "rules"} /\ (pc' = "rules" => at'[1] = 1) /\ UNCHANGED input
      BY <1>3, <2>3 DEF Standalone
    <3>2. <<exports[Cursor]>> \in Seq(Nodes) /\ <<exports[Cursor]>> # <<>>
      BY <2>1, <2>3
    <3> QED BY <2>1, <3>1, <3>2, ChainPassPlans
  <2> QED BY <2>2, <2>3
<1>4. CASE ApplyRule
  BY <1>4, ApplyRulePlans
<1>5. CASE RulesApplied
  <2>1. /\ pc = "rules" /\ pc' = "providers" /\ at[1] > Len(rules) /\ UNCHANGED <<rules, chains>>
        /\ at[1] \in Nat /\ Len(rules) \in Nat
    BY <1>5 DEF RulesApplied, planned, input, Inv, Types
  <2>2. Applied = at[1] - 1 /\ Applied' = Len(rules)
    BY <2>1 DEF Applied
  <2>3. Applied = Len(rules)
    BY <2>1, <2>2 DEF PlansInv
  <2> QED BY <2>1, <2>2, <2>3, PlansKept
<1>6. CASE UNCHANGED vars
  BY <1>6, PlansKept DEF vars, Applied
<1>7. CASE UNCHANGED <<input, planned>> /\ pc \notin {"chains", "rules"} /\ pc' \notin {"chains", "rules"}
  BY <1>7, PlansKept DEF planned, input, Applied
<1>8. \/ SkipImport \/ StartChain \/ GrowChain \/ CloseChain \/ Standalone \/ ApplyRule \/ RulesApplied
      \/ UNCHANGED vars
      \/ UNCHANGED <<input, planned>> /\ pc \notin {"chains", "rules"} /\ pc' \notin {"chains", "rules"}
  BY DEF Next, PreInstantiate, StartWalk, DeferInject, Place, ReachFanIn, InjectNext,
         LeaveFanIn, Leave, Advance, InstantiateFanIn, StartDrain, FinishDrain, StartExports,
         EmitExport, Finish, Terminated
<1> QED BY <1>1, <1>2, <1>3, <1>4, <1>5, <1>6, <1>7, <1>8

-----------------------------------------------------------------------------
(* Where nodes stand.  Every consumer of an interface stands behind its     *)
(* provider in the chain of that interface.                                 *)
End(k) == chains[k].nodes[Len(chains[k].nodes)]
Left(k) == Passed(k, Len(chains[k].nodes))
Stands(n, i) ==
  \E k \in DOMAIN chains : \E p \in DOMAIN chains[k].nodes :
    chains[k].iface = i /\ p > 1 /\ chains[k].nodes[p] = n

LEMMA ChainFacts ==
  ASSUME Inv, NEW k \in DOMAIN chains
  PROVE  /\ chains[k] \in ChainType /\ chains[k].nodes \in Seq(Nodes) /\ chains[k].iface \in Ifaces
         /\ DOMAIN chains[k].nodes = 1..Len(chains[k].nodes) /\ Len(chains[k].nodes) \in Nat \ {0}
         /\ DOMAIN chains[k].plan = DOMAIN chains[k].nodes
         /\ End(k) \in Nodes /\ chains[k].nodes[1] \in Nodes
         /\ Len(chains[k].nodes) \in DOMAIN chains[k].nodes
         /\ k \in Nat /\ Len(chains) \in Nat /\ DOMAIN chains = 1..Len(chains)
<1>1. chains \in Seq(ChainType) /\ chains[k] \in ChainType
  BY DEF Inv, Types
<1>2. /\ chains[k].nodes \in Seq(Nodes) /\ chains[k].nodes # <<>> /\ chains[k].iface \in Ifaces
      /\ Len(chains[k].plan) = Len(chains[k].nodes) /\ chains[k].plan \in Seq(Seq(Mdls))
  BY <1>1 DEF ChainType
<1> QED BY <1>1, <1>2 DEF End

LEMMA Behind ==
  ASSUME Inv, ChainsInv, NEW k \in DOMAIN chains, NEW p \in DOMAIN chains[k].nodes, p > 1
  PROVE  /\ chains[k].iface \in Internal(chains[k].nodes[p]) /\ chains[k].iface \in Handled
         /\ imports[chains[k].nodes[p]][chains[k].iface] = chains[k].nodes[p - 1]
         /\ p - 1 \in DOMAIN chains[k].nodes /\ chains[k].nodes[p - 1] \in Nodes /\ chains[k].nodes[p] \in Nodes
         /\ Outer(k, p - 1) = chains[k].nodes[p]
<1>1. /\ chains[k].nodes \in Seq(Nodes) /\ chains[k].iface \in Ifaces /\ p \in 1..Len(chains[k].nodes)
      /\ Len(chains[k].nodes) \in Nat
  BY ChainFacts
<1>2. /\ p - 1 \in DOMAIN chains[k].nodes /\ chains[k].nodes[p - 1] \in Nodes /\ chains[k].nodes[p] \in Nodes
      /\ p - 1 < Len(chains[k].nodes) /\ (p - 1) + 1 = p
  BY <1>1
<1>3. imports[chains[k].nodes[p]][chains[k].iface] = chains[k].nodes[p - 1]
  BY DEF ChainsInv, InLine
<1>4. imports[chains[k].nodes[p]][chains[k].iface] # Host
  BY <1>2, <1>3, HostIsNoNode
<1> QED BY <1>1, <1>2, <1>3, <1>4 DEF Internal, Handled, Outer

(* A consumer nobody imports from is the end of the chain; any other is the *)
(* provider of one that stands in it, and no chain starts at a consumer.    *)
LEMMA Placement ==
  ASSUME Inv, InputInv, ChainsInv, ShapeInv, pc # "chains", Lined, NEW n \in Nodes, NEW i \in Internal(n)
  PROVE  Stands(n, i)
<1> DEFINE Bad == {m \in Nodes : i \in Internal(m) /\ ~Stands(m, i)}
<1>1. SUFFICES ASSUME Bad # {} PROVE FALSE
  OBVIOUS
<1>2. i \in Ifaces /\ \A m \in Nodes : m \in Nat /\ NumNodes - m \in Nat
  BY SizesAssumption DEF Internal, Nodes
<1>3. {NumNodes - m : m \in Bad} \subseteq Nat /\ {NumNodes - m : m \in Bad} # {}
  BY <1>1, <1>2
<1>4. PICK x \in {NumNodes - m : m \in Bad} : \A y \in {NumNodes - m : m \in Bad} : x <= y
  BY <1>3, FirstOf
<1>5. PICK b \in Bad : x = NumNodes - b
  BY <1>4
<1>6. b \in Nodes /\ i \in Internal(b) /\ ~Stands(b, i) /\ imports[b][i] # Host
  BY DEF Internal
<1>7. \A m \in Nodes : m > b /\ i \in Internal(m) => Stands(m, i)
  <2> SUFFICES ASSUME NEW m \in Nodes, m > b, m \in Bad PROVE FALSE
    OBVIOUS
  <2>1. NumNodes - b <= NumNodes - m
    BY <1>4, <1>5
  <2> QED BY <1>2, <1>6, <2>1, SizesAssumption
<1>8. CASE b \in Ends(i)
  <2>1. i \in Handled
    BY <1>2, <1>6 DEF Handled
  <2>2. PICK k \in DOMAIN chains : chains[k].iface = i
    BY <1>2, <2>1 DEF ShapeInv, Scanned, Planned
  <2>3. Len(chains[k].nodes) > 1 /\ End(k) \in Ends(i)
    BY <2>1, <2>2 DEF ShapeInv, Shaped, End
  <2>4. End(k) = b
    BY <1>2, <1>8, <2>3 DEF Lined
  <2> QED BY <1>6, <2>2, <2>3, <2>4, ChainFacts DEF Stands, End
<1>9. CASE b \notin Ends(i)
  <2>1. PICK m \in Nodes : imports[m][i] = b
    BY <1>6, <1>9 DEF Ends
  <2>2. m > b /\ i \in Internal(m)
    <3>1. b < m /\ b # Host
      BY <1>2, <1>6, <2>1, HostIsNoNode DEF InputInv
    <3> QED BY <1>2, <1>6, <2>1, <3>1 DEF Internal
  <2>3a. PICK k \in DOMAIN chains : \E p \in DOMAIN chains[k].nodes :
          chains[k].iface = i /\ p > 1 /\ chains[k].nodes[p] = m
    BY <1>7, <2>2 DEF Stands
  <2>3. PICK p \in DOMAIN chains[k].nodes :
          chains[k].iface = i /\ p > 1 /\ chains[k].nodes[p] = m
    BY <2>3a
  <2>4. p - 1 \in DOMAIN chains[k].nodes /\ chains[k].nodes[p - 1] = b /\ i \in Handled
    BY <2>1, <2>3, Behind
  <2>5. p \in Nat
    BY ChainFacts
  <2>6. CASE p - 1 = 1
    <3>1. imports[chains[k].nodes[1]][i] = Host
      BY <2>3, <2>4 DEF ShapeInv, Shaped
    <3> QED BY <1>6, <2>4, <2>6, <3>1
  <2>7. CASE p - 1 # 1
    BY <1>6, <2>3, <2>4, <2>5, <2>7 DEF Stands
  <2> QED BY <2>6, <2>7
<1> QED BY <1>8, <1>9

(* A fan-in consumer imports two interfaces from nodes.                     *)
LEMMA FanInImports ==
  ASSUME Inv, ChainsInv, NEW n \in FanIn
  PROVE  n \in Nodes /\ \E i, j \in Internal(n) : i # j
<1>1. PICK i \in DOMAIN chains, j \in DOMAIN chains : i # j /\ Consumes(n, i) /\ Consumes(n, j)
  BY DEF FanIn
<1>2. ASSUME NEW l \in DOMAIN chains, Consumes(n, l) PROVE chains[l].iface \in Internal(n)
  BY <1>2, Behind DEF Consumes
<1>3. chains[i].iface # chains[j].iface
  BY <1>1 DEF ChainsInv
<1> QED BY <1>1, <1>2, <1>3 DEF FanIn

LEMMA ImportsFanIn ==
  ASSUME Inv, InputInv, ChainsInv, ShapeInv, pc # "chains", Lined,
         NEW n \in Nodes, NEW i \in Internal(n), NEW j \in Internal(n), i # j
  PROVE  n \in FanIn
<1>1. Stands(n, i) /\ Stands(n, j)
  BY Placement
<1>2. PICK k \in DOMAIN chains : chains[k].iface = i /\ Consumes(n, k)
  BY <1>1 DEF Stands, Consumes
<1>3. PICK l \in DOMAIN chains : chains[l].iface = j /\ Consumes(n, l)
  BY <1>1 DEF Stands, Consumes
<1> QED BY <1>2, <1>3 DEF FanIn

-----------------------------------------------------------------------------
(* The builder again: what a line wires stays, and a middleware is wired to *)
(* what came last.                                                          *)
WiresKept(w, x) == \A v, i, y : Wired(w, v, i, y) => Wired(x, v, i, y)

LEMMA SameLinesWire == ASSUME NEW w, NEW x, x.lines = w.lines PROVE WiresKept(w, x)
BY DEF WiresKept, Wired

LEMMA WiresTrans ==
  ASSUME NEW w, NEW x, NEW y, WiresKept(w, x), WiresKept(x, y)
  PROVE  WiresKept(w, y)
BY DEF WiresKept

LEMMA LetWires ==
  ASSUME NEW w \in WacType, NEW v \in Variables, NEW uses \in SUBSET Wires
  PROVE  /\ WiresKept(w, Let(w, v, uses))
         /\ \A i, y : {u \in uses : u.iface = i} = {Wire(i, y)} => Wired(Let(w, v, uses), v, i, y)
<1> DEFINE line == [var |-> v, uses |-> uses]
           x == Let(w, v, uses)
<1>1. w.lines \in Seq(LineType) /\ line \in LineType /\ line.var = v /\ line.uses = uses
  BY DEF WacType, LineType
<1>2. x.lines = Append(w.lines, line)
  BY DEF Let, WacType
<1> HIDE DEF x, line
<1>3. /\ Len(x.lines) = Len(w.lines) + 1 /\ Len(w.lines) \in Nat /\ x.lines \in Seq(LineType)
      /\ x.lines[Len(w.lines) + 1] = line
      /\ \A j \in 1..Len(w.lines) : x.lines[j] = w.lines[j]
  BY <1>1, <1>2, AppendFacts
<1>4. DOMAIN w.lines = 1..Len(w.lines) /\ DOMAIN x.lines = 1..(Len(w.lines) + 1)
  BY <1>1, <1>3
<1>5. WiresKept(w, x)
  BY <1>3, <1>4 DEF WiresKept, Wired
<1>6. \A i, y : {u \in uses : u.iface = i} = {Wire(i, y)} => Wired(x, v, i, y)
  BY <1>1, <1>3, <1>4 DEF Wired
<1> QED BY <1>5, <1>6 DEF x

LEMMA LatestWires ==
  ASSUME NEW w \in WacType, NEW i, NEW v
  PROVE  WiresKept(w, Latest(w, i, v)) /\ Latest(w, i, v).over = Wire(i, v)
<1>1. Latest(w, i, v).lines = w.lines /\ Latest(w, i, v).over = Wire(i, v)
  BY DEF Latest, WacType
<1> QED BY <1>1, SameLinesWire

LEMMA EmitRealWires ==
  ASSUME NEW w, Builder(w), NEW m \in Mdls
  PROVE  WiresKept(w, EmitReal(w, m))
<1> DEFINE e  == [w EXCEPT !.emitted = w.emitted \union {m}]
           y  == IF m \in Configured THEN Let(e, ConfigVar(m), {}) ELSE e
           us == IF m \in Configured THEN {Wire("config", ConfigVar(m))} ELSE {}
<1>0. MdlVar(m) \in Variables /\ ConfigVar(m) \in Variables
  BY VariableTypes
<1>1. w \in WacType /\ e \in WacType /\ e.lines = w.lines
  BY DEF Builder, WacType
<1> HIDE DEF e
<1>2. y \in WacType /\ WiresKept(e, y)
  <2>1. CASE m \in Configured
    <3>1. Let(e, ConfigVar(m), {}) \in WacType
      <4>1. [var |-> ConfigVar(m), uses |-> {}] \in LineType /\ e.lines \in Seq(LineType)
        BY <1>0, <1>1 DEF LineType, WacType
      <4>2. Append(e.lines, [var |-> ConfigVar(m), uses |-> {}]) \in Seq(LineType)
        BY <4>1, AppendFacts
      <4> QED BY <1>1, <4>2 DEF Let, WacType
    <3> QED BY <1>0, <1>1, <2>1, <3>1, LetWires
  <2>2. CASE m \notin Configured
    BY <1>1, <2>2, SameLinesWire
  <2> QED BY <2>1, <2>2
<1>3. us \in SUBSET Wires
  BY <1>0 DEF Wires, Wire
<1>4. m \in w.emitted \/ EmitReal(w, m) = Let(y, MdlVar(m), us)
  BY DEF EmitReal, e
<1> HIDE DEF y, us
<1>5. WiresKept(w, Let(y, MdlVar(m), us))
  BY <1>0, <1>1, <1>2, <1>3, LetWires, SameLinesWire, WiresTrans
<1>6. CASE m \in w.emitted
  BY <1>6, SameLinesWire DEF EmitReal
<1> QED BY <1>4, <1>5, <1>6

OnStage(m, i) == IF m \in Adapted THEN AdapterVar(m, i) ELSE MdlVar(m)
LEMMA CreateMdlWires ==
  ASSUME NEW w, Builder(w), w.last # None, NEW m \in Mdls, NEW i \in Ifaces
  PROVE  LET x == CreateMdl(w, m, i)
         IN  /\ WiresKept(w, x) /\ Wired(x, OnStage(m, i), i, w.last)
             /\ x.last = OnStage(m, i) /\ x.over = Wire(i, x.last)
<1> DEFINE x == CreateMdl(w, m, i)
           y == IF m \in Adapted THEN EmitReal(w, m) ELSE w
           us == IF m \in Adapted THEN {Wire(i, w.last), Wire("hooks", MdlVar(m))} ELSE {Wire(i, w.last)}
           z == Let(y, OnStage(m, i), us)
<1>0. /\ MdlVar(m) \in Variables /\ AdapterVar(m, i) \in Variables /\ OnStage(m, i) \in Variables
      /\ w.last \in Variables /\ Defined(w, w.last)
  BY VariableTypes, NoneAssumption DEF Builder, WacType, Remembered, OnStage
<1>1. Builder(y) /\ Extends(w, y) /\ WiresKept(w, y) /\ y.last = w.last /\ (m \in Adapted => Defined(y, MdlVar(m)))
  BY EmitRealBuilds, EmitRealWires, ExtendsRefl, SameLinesWire
<1>2. us \in SUBSET Wires /\ \A u \in us : Defined(y, u.from)
  BY <1>0, <1>1 DEF Wires, Wire, Extends
<1>3. {u \in us : u.iface = i} = {Wire(i, w.last)}
  <2>1. i # "hooks" /\ Wire(i, w.last).iface = i /\ Wire("hooks", MdlVar(m)).iface = "hooks"
    BY SizesAssumption DEF Wire
  <2> QED BY <2>1
<1>4. x = Latest(z, i, OnStage(m, i))
  BY <1>1 DEF CreateMdl, OnStage
<1> HIDE DEF x, y, us
<1>5. Builder(z) /\ Defined(z, OnStage(m, i)) /\ WiresKept(y, z) /\ Wired(z, OnStage(m, i), i, w.last)
  BY <1>0, <1>1, <1>2, <1>3, LetBuilds, LetWires DEF Builder
<1> HIDE DEF z
<1>6. x.last = OnStage(m, i) /\ x.over = Wire(i, OnStage(m, i)) /\ WiresKept(z, x)
  BY <1>0, <1>4, <1>5, LatestBuilds, LatestWires DEF Builder
<1>7. WiresKept(w, x)
  BY <1>1, <1>5, <1>6, WiresTrans
<1> QED BY <1>5, <1>6, <1>7 DEF x, WiresKept

(* A node is made where it is first needed, wired to what it is given.      *)
LEMMA GetOrCreateWires ==
  ASSUME GraphType, NEW w, Builder(w), NEW n \in Nodes, NEW over \in Wires \union {None},
         over # None => Defined(w, over.from)
  PROVE  LET x == GetOrCreateInst(w, n, over)
         IN  /\ WiresKept(w, x)
             /\ w.inst[n] = None /\ w.split[Split(n)] = None =>
                  \A i, y : {u \in Wiring(w, n, over) : u.iface = i} = {Wire(i, y)} => Wired(x, x.inst[n], i, y)
             /\ w.inst[n] # None => x = w
             /\ \A s : s # Split(n) => x.split[s] = w.split[s]
<1> DEFINE x == GetOrCreateInst(w, n, over)
           y == Let(w, NodeVar(n), Wiring(w, n, over))
<1>0. w \in WacType /\ Split(n) \in Nodes \union {Root} /\ NodeVar(n) \in Variables
      /\ Wiring(w, n, over) \in SUBSET Wires
  BY SplitType, VariableTypes, WiringDefined DEF Builder
<1>1. CASE w.inst[n] # None
  BY <1>1, SameLinesWire DEF GetOrCreateInst
<1>2. CASE w.inst[n] = None /\ w.split[Split(n)] # None
  <2>1. x.lines = w.lines /\ x.split = w.split
    BY <1>0, <1>2 DEF GetOrCreateInst, WacType
  <2> QED BY <1>2, <2>1, SameLinesWire
<1>3. CASE w.inst[n] = None /\ w.split[Split(n)] = None
  <2>1. x = [y EXCEPT !.inst[n] = NodeVar(n), !.split[Split(n)] = NodeVar(n)]
    BY <1>3 DEF GetOrCreateInst
  <2>2. Builder(y) /\ y.inst = w.inst /\ y.split = w.split
    BY <1>0, WiringDefined, LetBuilds
  <2>3. WiresKept(w, y) /\ \A i, t : {u \in Wiring(w, n, over) : u.iface = i} = {Wire(i, t)} => Wired(y, NodeVar(n), i, t)
    BY <1>0, LetWires
  <2> HIDE DEF x, y
  <2>4. y \in WacType
    BY <2>2 DEF Builder
  <2>5. x.lines = y.lines /\ x.inst[n] = NodeVar(n) /\ x.split = [w.split EXCEPT ![Split(n)] = NodeVar(n)]
    BY <1>0, <2>1, <2>2, <2>4 DEF WacType
  <2>6. WiresKept(y, x) /\ WiresKept(w, x)
    BY <2>3, <2>5, SameLinesWire, WiresTrans
  <2>7. \A i, t : {u \in Wiring(w, n, over) : u.iface = i} = {Wire(i, t)} => Wired(x, x.inst[n], i, t)
    BY <2>3, <2>5, <2>6 DEF WiresKept
  <2>8. \A s : s # Split(n) => x.split[s] = w.split[s]
    BY <2>5
  <2> QED BY <1>3, <2>6, <2>7, <2>8 DEF x
<1> QED BY <1>1, <1>2, <1>3

-----------------------------------------------------------------------------
(* The splices.  On an ordinary composition, what is put in stands in front *)
(* of what is in hand: t is still to come, ms is asked for in front of u.   *)
Ground == Inv /\ InputInv /\ ChainsInv /\ LetsInv /\ ShapeInv /\ PlansInv /\ Ordinary

InHand(w, t, i, ms, u) ==
  /\ u # None /\ Len(t) <= Len(ms) /\ \A x \in DOMAIN t : t[x] = ms[Len(t) + 1 - x]
  /\ w.last = Stage(i, ms, u, Len(t) + 1)
  /\ \A a \in DOMAIN ms : a > Len(t) => Wired(w, Stage(i, ms, u, a), i, Stage(i, ms, u, a + 1))
Ready(v, i, n) == Spliced(wac, v, i, imports[n][i], n)

SharedInv == \A n \in Nodes : wac.split[n] # None => wac.inst[n] # None
HandInv ==
  /\ pc = "walk" /\ at[2] > 1 => Ready(wac.last, Chain.iface, Node) /\ wac.over = Wire(Chain.iface, wac.last)
  /\ pc = "inject" /\ IsFanInLast => todo = <<>> /\ at[2] > 1 /\ Ready(wac.last, Chain.iface, Node)
  /\ pc = "inject" /\ ~IsFanInLast =>
       InHand(wac, todo, Chain.iface, Plan, wac.inst[Node]) /\ wac.over = Wire(Chain.iface, wac.last)
  /\ pc = "drain" =>
       InHand(wac, todo, Head(deferred).iface, Head(deferred).mdls, wac.inst[Head(deferred).node])
FanVarsInv ==
  /\ \A n \in Nodes : \A f \in fanVars[n] : f.iface \in Internal(n) /\ Ready(f.from, f.iface, n)
  /\ \A k \in DOMAIN chains : chains[k].iface \in Handled /\ End(k) \in FanIn /\ Left(k) =>
       \E f \in fanVars[End(k)] : f.iface = chains[k].iface
WiredInv ==
  \A n \in Nodes : wac.inst[n] # None => \A i \in Internal(n) : \E v \in Variables :
    Wired(wac, wac.inst[n], i, v) /\ Ready(v, i, n)
SpliceInv == SharedInv /\ HandInv /\ FanVarsInv /\ WiredInv

LEMMA NoShims ==
  ASSUME Ground
  PROVE  \A n \in Nodes : Split(n) = n /\ Resolve(n) = n
BY DEF Ground, Ordinary, Split, Resolve

LEMMA InHandStart ==
  ASSUME NEW w, NEW i, NEW ms \in Seq(Mdls), NEW u, u # None, w.last = u
  PROVE  InHand(w, Reverse(ms), i, ms, u)
<1>1. Len(Reverse(ms)) = Len(ms) /\ Len(ms) \in Nat /\ DOMAIN ms = 1..Len(ms)
      /\ DOMAIN Reverse(ms) = 1..Len(ms)
      /\ \A x \in 1..Len(ms) : Reverse(ms)[x] = ms[Len(ms) + 1 - x]
  <2>1. Reverse(ms) \in Seq(Mdls)
    BY ReverseType
  <2>2. Len(ms) \in Nat /\ DOMAIN Reverse(ms) = 1..Len(ms)
    BY DEF Reverse
  <2>3. \A x \in 1..Len(ms) : Reverse(ms)[x] = ms[Len(ms) - x + 1] /\ Len(ms) - x + 1 = Len(ms) + 1 - x
    BY DEF Reverse
  <2> QED BY <2>1, <2>2, <2>3
<1>2. Stage(i, ms, u, Len(ms) + 1) = u
  BY <1>1 DEF Stage
<1> QED BY <1>1, <1>2 DEF InHand

LEMMA InHandNext ==
  ASSUME NEW w, Builder(w), w.last # None, NEW i \in Ifaces, NEW ms \in Seq(Mdls), NEW u,
         NEW t \in Seq(Mdls), t # <<>>, InHand(w, t, i, ms, u)
  PROVE  LET x == CreateMdl(w, Head(t), i)
         IN  InHand(x, Tail(t), i, ms, u) /\ WiresKept(w, x) /\ x.over = Wire(i, x.last)
<1> DEFINE x == CreateMdl(w, Head(t), i)
           l == Len(t)
<1>1. /\ l \in Nat /\ l > 0 /\ l <= Len(ms) /\ Len(ms) \in Nat /\ DOMAIN ms = 1..Len(ms) /\ DOMAIN t = 1..l
      /\ Head(t) = t[1] /\ Head(t) \in Mdls /\ Len(Tail(t)) = l - 1 /\ DOMAIN Tail(t) = 1..(l - 1)
      /\ \A y \in 1..(l - 1) : Tail(t)[y] = t[y + 1]
  BY DEF InHand
<1>2. \A y \in 1..l : t[y] = ms[l + 1 - y]
  BY <1>1 DEF InHand
<1>3. Head(t) = ms[l] /\ \A y \in 1..(l - 1) : Tail(t)[y] = ms[(l - 1) + 1 - y]
  BY <1>1, <1>2
<1>4. /\ WiresKept(w, x) /\ Wired(x, OnStage(Head(t), i), i, w.last)
      /\ x.last = OnStage(Head(t), i) /\ x.over = Wire(i, x.last)
  BY <1>1, CreateMdlWires
<1>5. w.last = Stage(i, ms, u, l + 1) /\ u # None
      /\ \A a \in DOMAIN ms : a > l => Wired(w, Stage(i, ms, u, a), i, Stage(i, ms, u, a + 1))
  BY DEF InHand
<1> HIDE DEF x
<1>6. Stage(i, ms, u, l) = OnStage(Head(t), i)
  BY <1>1, <1>3 DEF Stage, OnStage
<1>7. ASSUME NEW a \in DOMAIN ms, a > l - 1 PROVE Wired(x, Stage(i, ms, u, a), i, Stage(i, ms, u, a + 1))
  <2>1. CASE a = l
    BY <1>4, <1>5, <1>6, <2>1
  <2>2. CASE a # l
    <3>1. a > l
      BY <1>1, <1>7, <2>2
    <3> QED BY <1>4, <1>5, <3>1 DEF WiresKept
  <2> QED BY <2>1, <2>2
<1>8. (l - 1) + 1 = l
  BY <1>1
<1>9. InHand(x, Tail(t), i, ms, u)
  BY <1>1, <1>3, <1>4, <1>5, <1>6, <1>7, <1>8 DEF InHand
<1> QED BY <1>4, <1>9 DEF x

(* When nothing is to come the splice stands.                               *)
LEMMA InHandDone ==
  ASSUME Ground, NEW i, NEW p \in Nodes, NEW q, Requested(i, p, q) \in Seq(Mdls),
         InHand(wac, <<>>, i, Requested(i, p, q), wac.inst[p])
  PROVE  Spliced(wac, wac.last, i, p, q)
<1> DEFINE ms == Requested(i, p, q)
<1>1. ms \in Seq(Mdls) /\ DOMAIN ms = 1..Len(ms) /\ Len(ms) \in Nat
  OBVIOUS
<1>2. Len(<<>>) = 0 /\ \A a \in DOMAIN ms : a > 0
  BY <1>1
<1>3. /\ wac.inst[p] # None /\ wac.last = Stage(i, ms, wac.inst[p], 0 + 1)
      /\ \A a \in DOMAIN ms : Wired(wac, Stage(i, ms, wac.inst[p], a), i, Stage(i, ms, wac.inst[p], a + 1))
  BY <1>2 DEF InHand
<1>4. Resolve(p) = p
  BY NoShims
<1> HIDE DEF ms
<1> QED BY <1>3, <1>4 DEF Spliced, ms

(* Nothing being asked for, the provider is what the edge is wired to.      *)
LEMMA UnaskedSpliced ==
  ASSUME Ground, NEW i, NEW p \in Nodes, NEW q, Requested(i, p, q) = <<>>, wac.inst[p] # None
  PROVE  Spliced(wac, wac.inst[p], i, p, q)
<1>2. Resolve(p) = p /\ Len(<<>>) = 0 /\ DOMAIN <<>> = {}
  BY NoShims
<1>3. Stage(i, <<>>, wac.inst[p], 1) = wac.inst[p]
  BY <1>2 DEF Stage
<1> QED BY <1>2, <1>3 DEF Spliced

(* After the rules, the plan is what is asked for.                          *)
LEMMA PlanIsRequested ==
  ASSUME Ground, pc \notin {"chains", "rules"}, NEW k \in DOMAIN chains, NEW p \in DOMAIN chains[k].nodes
  PROVE  /\ PlanAt(k, p) = Requested(chains[k].iface, chains[k].nodes[p], Outer(k, p))
         /\ PlanAt(k, p) \in Seq(Mdls)
<1>1. PlanAt(k, p) = Requested(chains[k].iface, chains[k].nodes[p], Outer(k, p))
  BY DEF Ground, PlansInv, Applied, AskedAt, Requested
<1>2. PlanAt(k, p) \in Seq(Mdls)
  BY ChainFacts, PlanType DEF Ground
<1> QED BY <1>1, <1>2

(* ... and nothing is, in front of a fan-in consumer.                       *)
LEMMA FanInUnasked ==
  ASSUME Ground, NEW n \in FanIn, NEW i \in Internal(n)
  PROVE  Requested(i, n, Host) = <<>>
<1>1. rules \in Seq(Rules) /\ Len(rules) \in Nat /\ DOMAIN rules = 1..Len(rules)
  BY DEF Ground, Inv, Types
<1>2. n \in Nodes /\ (\E j \in Internal(n) : i # j) /\ i \in Ifaces /\ i \in Handled
  BY FanInImports DEF Ground, Internal, Handled
<1>3. \A k \in DOMAIN rules : ~Asks(rules[k], i, n, Host)
  BY <1>2 DEF Ground, Ordinary, ProvidersNamed, FanInsUnnamed, Asks
<1> DEFINE r == RequestedUpTo(i, n, Host)
           T == {k \in 0..Len(rules) : r[k] # <<>>}
<1>4. r[0] = <<>> /\ \A k \in 1..Len(rules) : r[k] = r[k - 1]
  BY <1>1, <1>3, AskedZero, AskedNext
<1> HIDE DEF r
<1>5. T = {}
  <2> SUFFICES ASSUME T # {} PROVE FALSE
    OBVIOUS
  <2>1. T \subseteq Nat
    OBVIOUS
  <2>2. PICK k \in T : \A y \in T : k <= y
    BY <2>1, FirstOf
  <2>3. k \in 1..Len(rules) /\ k - 1 \in 0..Len(rules) /\ ~(k <= k - 1)
    BY <1>1, <1>4, <2>2
  <2> QED BY <1>4, <2>2, <2>3
<1> QED BY <1>1, <1>5 DEF Requested, r

-----------------------------------------------------------------------------
(* What a step of the builder leaves of the splices.                        *)
LEMMA SplicedKept ==
  ASSUME Ground, UNCHANGED input, Extends(wac, wac'), WiresKept(wac, wac')
  PROVE  \A v, i, q : \A p \in Nodes : Spliced(wac, v, i, p, q) => Spliced(wac, v, i, p, q)'
<1> SUFFICES ASSUME NEW v, NEW i, NEW q, NEW p \in Nodes, Spliced(wac, v, i, p, q)
             PROVE  Spliced(wac, v, i, p, q)'
  OBVIOUS
<1>1. Requested(i, p, q)' = Requested(i, p, q)
  BY RequestedKept DEF Requested, input
<1>2. Resolve(p)' = Resolve(p) /\ Resolve(p) = p
  BY NoShims DEF Resolve, Split, input
<1>3. wac.inst[p] # None
  BY <1>2 DEF Spliced
<1>4. wac'.inst[p] = wac.inst[p]
  BY <1>3 DEF Extends
<1> QED BY <1>1, <1>2, <1>4 DEF Spliced, WiresKept

LEMMA SplicedSame ==
  ASSUME UNCHANGED <<input, wac>>
  PROVE  \A v, i, n : Spliced(wac, v, i, n, Host)' <=> Spliced(wac, v, i, n, Host)
BY RequestedKept DEF Spliced, Requested, Resolve, Split, input

LEMMA Provider ==
  ASSUME Inv, NEW n \in Nodes, NEW i \in Internal(n)
  PROVE  imports[n][i] \in Nodes /\ i \in Ifaces
BY DEF Inv, Types, GraphType, Internal

LEMMA ReadyKept ==
  ASSUME Ground, UNCHANGED input, Extends(wac, wac'), WiresKept(wac, wac')
  PROVE  \A v : \A n \in Nodes : \A i \in Internal(n) : Ready(v, i, n) => Ready(v, i, n)'
BY SplicedKept, Provider DEF Ready, Ground, input

LEMMA EndKept ==
  ASSUME UNCHANGED chains
  PROVE  /\ \A k : End(k)' = End(k)
         /\ \A k, p : Outer(k, p)' = Outer(k, p)
         /\ \A k, p : PlanAt(k, p)' = PlanAt(k, p)
BY DEF End, Outer, PlanAt

LEMMA SharedKept ==
  ASSUME SharedInv, Extends(wac, wac'), \A n \in Nodes : wac'.split[n] = wac.split[n] \/ wac'.inst[n] # None
  PROVE  SharedInv'
BY DEF SharedInv, Extends

LEMMA WiredKept ==
  ASSUME Ground, WiredInv, UNCHANGED input, Extends(wac, wac'), WiresKept(wac, wac'),
         \A n \in Nodes : wac.inst[n] = None /\ wac'.inst[n] # None => \A i \in Internal(n) : \E v \in Variables :
           Wired(wac', wac'.inst[n], i, v) /\ Ready(v, i, n)'
  PROVE  WiredInv'
<1>1. \A n : Internal(n)' = Internal(n)
  BY GraphKept DEF input
<1> SUFFICES ASSUME NEW n \in Nodes, wac'.inst[n] # None, NEW i \in Internal(n), wac.inst[n] # None
             PROVE  \E v \in Variables : Wired(wac', wac'.inst[n], i, v) /\ Ready(v, i, n)'
  BY <1>1 DEF WiredInv
<1>2. PICK v \in Variables : Wired(wac, wac.inst[n], i, v) /\ Ready(v, i, n)
  BY DEF WiredInv
<1> QED BY <1>2, ReadyKept DEF Extends, WiresKept

LEMMA FanVarsKept ==
  ASSUME Ground, FanVarsInv, UNCHANGED <<input, chains>>, Extends(wac, wac'), WiresKept(wac, wac'),
         \A n \in Nodes : fanVars[n] \subseteq fanVars'[n],
         \A n \in Nodes : \A f \in fanVars'[n] :
           f \in fanVars[n] \/ (f.iface \in Internal(n) /\ Ready(f.from, f.iface, n)'),
         \A k \in DOMAIN chains : Left(k)' /\ chains[k].iface \in Handled /\ End(k) \in FanIn =>
           Left(k) \/ \E f \in fanVars'[End(k)] : f.iface = chains[k].iface
  PROVE  FanVarsInv'
<1>1. /\ (\A n : Internal(n)' = Internal(n)) /\ Handled' = Handled
      /\ FanIn' = FanIn /\ \A k : End(k)' = End(k)
  BY GraphKept, FanInKept, EndKept DEF input
<1>2. ASSUME NEW n \in Nodes, NEW f \in fanVars'[n]
      PROVE  f.iface \in Internal(n) /\ Ready(f.from, f.iface, n)'
  BY ReadyKept DEF FanVarsInv
<1>3. ASSUME NEW k \in DOMAIN chains, chains[k].iface \in Handled, End(k) \in FanIn, Left(k)'
      PROVE  \E f \in fanVars'[End(k)] : f.iface = chains[k].iface
  <2>1. End(k) \in Nodes
    BY ChainFacts DEF Ground
  <2> QED BY <1>3, <2>1 DEF FanVarsInv
<1> QED BY <1>1, <1>2, <1>3 DEF FanVarsInv

(* Who imports from a node stands in a chain that is passed, or is not      *)
(* made; a consumer of one interface that the walk has passed is made.      *)
LEMMA PassedMade ==
  ASSUME Ground, NEW n \in Nodes \ FanIn, NEW k \in DOMAIN chains, NEW p \in DOMAIN chains[k].nodes,
         p > 1, Passed(k, p), chains[k].nodes[p] = n
  PROVE  wac.inst[n] # None
BY DEF Ground, Inv, WalkInv, SplitInv, Reached

LEMMA StandsAt ==
  ASSUME Ground, pc # "chains", NEW n \in Nodes, NEW i \in Internal(n)
  PROVE  \E k \in DOMAIN chains : \E p \in DOMAIN chains[k].nodes :
           chains[k].iface = i /\ i \in Handled /\ p > 1 /\ chains[k].nodes[p] = n
<1>1. Stands(n, i)
  BY Placement DEF Ground, Ordinary
<1>2. i \in Handled
  BY DEF Handled, Internal
<1> QED BY <1>1, <1>2 DEF Stands

(* A node that is made with nothing to wire.                                *)
LEMMA MadeAlone ==
  ASSUME Ground, SharedInv, WiredInv, UNCHANGED input, NEW n \in Nodes, NEW over \in Wires \union {None},
         over # None => Defined(wac, over.from), wac.inst[n] = None => Internal(n) = {},
         Extends(wac, wac'), WiresKept(wac, wac'),
         wac'.inst = GetOrCreateInst(wac, n, over).inst, wac'.split = GetOrCreateInst(wac, n, over).split
  PROVE  SharedInv' /\ WiredInv'
<1> DEFINE x == GetOrCreateInst(wac, n, over)
<1>1. GraphType /\ Builder(wac) /\ Split(n) = n
  BY NoShims DEF Ground, Inv, Types
<1>2. /\ x.inst[n] # None /\ (\A m \in Nodes \ {n} : x.inst[m] = wac.inst[m])
      /\ \A s : s # n => x.split[s] = wac.split[s]
  BY <1>1, GetOrCreateBuilds, GetOrCreateWires
<1>3. wac'.inst = x.inst /\ wac'.split = x.split
  OBVIOUS
<1> HIDE DEF x
<1>4. SharedInv'
  BY <1>2, <1>3, SharedKept
<1>5. \A m \in Nodes : wac.inst[m] = None /\ wac'.inst[m] # None => m = n
  BY <1>2, <1>3
<1>6. WiredInv'
  BY <1>5, WiredKept
<1> QED BY <1>4, <1>6

-----------------------------------------------------------------------------
(* The steps, one by one.  Before the walk nothing is spliced.              *)
LEMMA EarlySplice ==
  ASSUME Ground, SpliceInv, pc \in {"chains", "rules"}, pc' \in {"chains", "rules", "providers"},
         UNCHANGED <<input, wac, todo, routes>>
  PROVE  SpliceInv'
<1>1. \A n \in Nodes : wac'.inst[n] = None /\ fanVars'[n] = {}
  BY DEF Ground, Inv, EarlyInv, routes
<1>2. \A k : ~Left(k)'
  BY DEF Left, Passed
<1>3. SharedInv' /\ HandInv' /\ FanVarsInv' /\ WiredInv'
  BY <1>1, <1>2 DEF SpliceInv, SharedInv, HandInv, FanVarsInv, WiredInv
<1> QED BY <1>3 DEF SpliceInv

LEMMA PreInstantiateSplice ==
  ASSUME Ground, SpliceInv, NEW n \in Nodes, PreInstantiate(n)
  PROVE  SpliceInv'
<1>1. /\ pc = "providers" /\ pc' = pc /\ n \in PureProviders /\ wac' = GetOrCreateInst(wac, n, None)
      /\ UNCHANGED <<input, chains, fanVars>> /\ GraphType /\ Builder(wac)
  BY DEF PreInstantiate, Unmade, planned, routes, Ground, Inv, Types
<1>2. Extends(wac, wac') /\ WiresKept(wac, wac')
  BY <1>1, GetOrCreateBuilds, GetOrCreateWires
<1>3. Internal(n) = {}
  <2> SUFFICES ASSUME NEW i \in Internal(n) PROVE FALSE
    OBVIOUS
  <2>1. PICK k \in DOMAIN chains : \E p \in DOMAIN chains[k].nodes : p > 1 /\ chains[k].nodes[p] = n
    BY <1>1, StandsAt
  <2> QED BY <1>1, <2>1 DEF PureProviders, Consumes
<1>4. SharedInv' /\ WiredInv'
  BY <1>1, <1>2, <1>3, MadeAlone DEF SpliceInv
<1>5. \A k : ~Left(k)'
  BY <1>1 DEF Left, Passed
<1>6. FanVarsInv'
  BY <1>1, <1>2, <1>5, FanVarsKept DEF SpliceInv
<1>7. HandInv'
  BY <1>1 DEF HandInv
<1> QED BY <1>4, <1>6, <1>7 DEF SpliceInv

LEMMA StayWires ==
  ASSUME UNCHANGED wac
  PROVE  Extends(wac, wac') /\ WiresKept(wac, wac')
BY ExtendsRefl, SameLinesWire

LEMMA StartWalkLeft == ASSUME Inv, StartWalk PROVE \A k \in DOMAIN chains : ~Left(k)'
<1> SUFFICES ASSUME NEW k \in DOMAIN chains, Left(k)' PROVE FALSE
  OBVIOUS
<1>1. at' = <<1, 1>> /\ pc' = (IF chains = <<>> THEN "fanin" ELSE "walk") /\ UNCHANGED chains
  BY DEF StartWalk, planned
<1>2. k \in Nat \ {0} /\ Len(chains[k].nodes) \in Nat \ {0} /\ chains # <<>>
  BY ChainFacts
<1> QED BY <1>1, <1>2 DEF Left, Passed

LEMMA StartWalkSplice == ASSUME Ground, SpliceInv, StartWalk PROVE SpliceInv'
<1>1. /\ at' = <<1, 1>> /\ pc' = (IF chains = <<>> THEN "fanin" ELSE "walk")
      /\ UNCHANGED <<input, chains, wac, fanVars>>
  BY DEF StartWalk, planned, routes
<1>2. Extends(wac, wac') /\ WiresKept(wac, wac')
  BY <1>1, StayWires
<1>3. \A k \in DOMAIN chains : ~Left(k)'
  BY StartWalkLeft DEF Ground
<1>4. SharedInv' /\ WiredInv'
  BY <1>1, <1>2, SharedKept, WiredKept DEF SpliceInv
<1>5. FanVarsInv'
  BY <1>1, <1>2, <1>3, FanVarsKept DEF SpliceInv
<1>6. HandInv'
  BY <1>1 DEF HandInv
<1> QED BY <1>4, <1>5, <1>6 DEF SpliceInv

(* Where the walk is.                                                       *)
LEMMA WalkingAt ==
  ASSUME Ground, pc \in {"walk", "inject"}
  PROVE  /\ at[1] \in DOMAIN chains /\ at[2] \in DOMAIN chains[at[1]].nodes /\ at[1] \in Nat /\ at[2] \in Nat
         /\ Chain = chains[at[1]] /\ Node = chains[at[1]].nodes[at[2]] /\ Node \in Nodes
         /\ Plan = PlanAt(at[1], at[2]) /\ Plan \in Seq(Mdls) /\ Chain.iface \in Ifaces
         /\ Plan = Requested(Chain.iface, Node, Outer(at[1], at[2]))
         /\ at[2] > 1 => Chain.iface \in Internal(Node) /\ Chain.iface \in Handled
         /\ at[2] = 1 \/ at[2] > 1
         /\ IsLast => Node = End(at[1]) /\ Outer(at[1], at[2]) = Host
<1>1. at[1] \in DOMAIN chains /\ at[2] \in DOMAIN chains[at[1]].nodes
  BY DEF Ground, Inv, CursorInv, Chain
<1>2. at[2] \in 1..Len(chains[at[1]].nodes) /\ Len(chains[at[1]].nodes) \in Nat /\ at[1] \in Nat
  BY <1>1, ChainFacts DEF Ground
<1>3. Plan = PlanAt(at[1], at[2]) /\ Plan = Requested(Chain.iface, Node, Outer(at[1], at[2]))
  BY <1>1, PlanIsRequested DEF Plan, PlanAt, Chain, Node
<1>4. at[2] > 1 => Chain.iface \in Internal(Node) /\ Chain.iface \in Handled
  BY <1>1, Behind DEF Ground, Chain, Node
<1>5. IsLast => Node = End(at[1]) /\ Outer(at[1], at[2]) = Host
  BY <1>2 DEF IsLast, End, Outer, Chain, Node
<1>6. Node \in Nodes /\ Plan \in Seq(Mdls) /\ Chain.iface \in Ifaces
  BY Walking DEF Ground
<1> QED BY <1>1, <1>2, <1>3, <1>4, <1>5, <1>6 DEF Chain, Node

LEMMA AdvanceLeft ==
  ASSUME Ground, pc \in {"walk", "inject"}, Advance, UNCHANGED chains
  PROVE  /\ \A k \in DOMAIN chains : Left(k)' => Left(k) \/ (k = at[1] /\ IsLast)
         /\ IsLast => ~(pc' = "walk" /\ at'[2] > 1)
         /\ pc' \in {"walk", "fanin"}
<1>1. \A k \in DOMAIN chains : \A p \in DOMAIN chains[k].nodes :
        Passed(k, p)' => Passed(k, p) \/ (k = at[1] /\ p = at[2])
  BY Advanced DEF Ground
<1>2. \A k \in DOMAIN chains : Len(chains[k].nodes) \in DOMAIN chains[k].nodes
  BY ChainFacts DEF Ground
<1>3. ASSUME NEW k \in DOMAIN chains, Left(k)' PROVE Left(k) \/ (k = at[1] /\ IsLast)
  <2>1. Passed(k, Len(chains[k].nodes))'
    BY <1>3 DEF Left
  <2> QED BY <1>1, <1>2, <2>1 DEF Left, IsLast, Chain
<1> QED BY <1>3 DEF Advance

LEMMA DeferInjectSplice == ASSUME Ground, SpliceInv, DeferInject PROVE SpliceInv'
<1>1. /\ pc = "walk" /\ IsLast /\ Len(Chain.nodes) = 1 /\ Advance
      /\ UNCHANGED <<input, chains, wac, fanVars>>
  BY DEF DeferInject, IsFanInLast, planned
<1>2. Extends(wac, wac') /\ WiresKept(wac, wac')
  BY <1>1, StayWires
<1>3. SharedInv' /\ WiredInv'
  BY <1>1, <1>2, SharedKept, WiredKept DEF SpliceInv
<1>4. \A k \in DOMAIN chains : Left(k)' /\ chains[k].iface \in Handled => Left(k)
  <2>1. chains[at[1]].iface \notin Handled
    BY <1>1, WalkingAt DEF Ground, ShapeInv, Shaped, Chain
  <2> QED BY <1>1, <2>1, AdvanceLeft
<1>5. FanVarsInv'
  BY <1>1, <1>2, <1>4, FanVarsKept DEF SpliceInv
<1>6. HandInv'
  BY <1>1, AdvanceLeft DEF HandInv
<1> QED BY <1>3, <1>5, <1>6 DEF SpliceInv

LEMMA PlacedWires ==
  ASSUME GraphType, NEW w, Builder(w), NEW n \in Nodes, NEW i \in Ifaces
  PROVE  LET x == Placed(w, n, i)
             v == GetOrCreateInst(w, n, w.over)
         IN  /\ x.inst = v.inst /\ x.split = v.split /\ x.last = x.inst[n] /\ x.over = Wire(i, x.last)
             /\ WiresKept(w, x) /\ WiresKept(v, x)
<1> DEFINE v == GetOrCreateInst(w, n, w.over)
           x == Latest(v, i, v.inst[n])
<1>1. w.over \in Wires \union {None} /\ (w.over # None => Defined(w, w.over.from))
  BY DEF Builder, WacType, Remembered
<1>2. Builder(v) /\ v.inst[n] # None /\ Defined(v, v.inst[n]) /\ WiresKept(w, v)
  BY <1>1, GetOrCreateBuilds, GetOrCreateWires
<1> HIDE DEF v
<1>3. v \in WacType /\ v.inst[n] \in Variables
  BY <1>2 DEF Builder, WacType
<1>4. /\ x.last = v.inst[n] /\ x.inst = v.inst /\ x.split = v.split
      /\ WiresKept(v, x) /\ x.over = Wire(i, v.inst[n])
  BY <1>2, <1>3, LatestBuilds, LatestWires
<1>5. WiresKept(w, x)
  BY <1>2, <1>4, WiresTrans
<1> HIDE DEF x
<1>6. x = Placed(w, n, i)
  BY DEF Placed, v, x
<1> QED BY <1>4, <1>5, <1>6 DEF v

(* A node the walk makes is no fan-in consumer.  The first of a chain wires *)
(* nothing; a later one wires what was put in in front of its provider.     *)
LEMMA PlacedPlain == ASSUME Ground, pc \in {"walk", "inject"}, ~IsFanInLast PROVE Node \notin FanIn
<1> SUFFICES ASSUME Node \in FanIn PROVE FALSE
  OBVIOUS
<1>1. at[1] \in DOMAIN chains /\ at[2] \in DOMAIN chains[at[1]].nodes /\ chains[at[1]].nodes[at[2]] = Node
  BY WalkingAt
<1>2. IsLast
  BY <1>1, FanInsAtEnd DEF IsLast, Chain, Ground, Ordinary
<1> QED BY <1>2 DEF IsFanInLast

LEMMA FirstWiresNothing ==
  ASSUME Ground, pc = "walk", ~IsFanInLast, at[2] = 1, wac.inst[Node] = None
  PROVE  Internal(Node) = {}
<1> SUFFICES ASSUME NEW j \in Internal(Node) PROVE FALSE
  OBVIOUS
<1>1. at[1] \in DOMAIN chains /\ Node = chains[at[1]].nodes[1] /\ Node \in Nodes /\ Chain = chains[at[1]]
      /\ at[1] \in Nat /\ Chain.iface \in Ifaces
  BY WalkingAt
<1>2. CASE Chain.iface \in Handled
  <2>1. Len(Chain.nodes) > 1 /\ imports[Node][Chain.iface] = Host
    BY <1>1, <1>2 DEF Ground, ShapeInv, Shaped
  <2>2. 2 \in DOMAIN chains[at[1]].nodes
    BY <1>1, <2>1, ChainFacts DEF Ground
  <2> DEFINE m == chains[at[1]].nodes[2]
  <2>3. m \in Nodes /\ Chain.iface \in Internal(m) /\ imports[m][Chain.iface] = chains[at[1]].nodes[2 - 1]
    BY <1>1, <2>2, Behind DEF Ground
  <2>4. imports[m][Chain.iface] = Node
    BY <1>1, <2>3
  <2> QED BY <2>1, <2>3, <2>4 DEF Ground, Ordinary, Lined
<1>3. CASE Chain.iface \notin Handled
  <2>1. PICK k \in DOMAIN chains : \E p \in DOMAIN chains[k].nodes :
          chains[k].iface = j /\ j \in Handled /\ p > 1 /\ chains[k].nodes[p] = Node
    BY <1>1, StandsAt
  <2>2. PICK p \in DOMAIN chains[k].nodes : p > 1 /\ chains[k].nodes[p] = Node
    BY <2>1
  <2>3. k < at[1]
    BY <1>1, <1>3, <2>1 DEF Ground, ShapeInv, Shaped
  <2>4. Passed(k, p)
    BY <2>3 DEF Passed
  <2> QED BY <1>1, <2>2, <2>4, PassedMade, PlacedPlain
<1> QED BY <1>2, <1>3

LEMMA LaterWiresOne ==
  ASSUME Ground, HandInv, pc = "walk", ~IsFanInLast, at[2] > 1
  PROVE  /\ Internal(Node) = {Chain.iface} /\ wac.last \in Variables
         /\ Wiring(wac, Node, wac.over) = {Wire(Chain.iface, wac.last)}
         /\ Ready(wac.last, Chain.iface, Node)
<1>1. /\ Node \in Nodes /\ Chain.iface \in Internal(Node) /\ Node \notin FanIn
      /\ wac.over = Wire(Chain.iface, wac.last) /\ Ready(wac.last, Chain.iface, Node)
  BY WalkingAt, PlacedPlain DEF HandInv
<1>2. Internal(Node) = {Chain.iface}
  BY <1>1, ImportsFanIn DEF Ground, Ordinary
<1>3. wac.last \in Variables /\ wac.last # None
  BY DEF Ground, Inv, LastInv, Builder, WacType
<1>4. Chain.iface \in Ifaces
  BY WalkingAt
<1>5. wac.over # None
  BY <1>1, <1>3, <1>4, NoneAssumption DEF Wire
<1>6. SourceOf(wac, Node, Chain.iface, wac.over) = wac.last
  BY <1>1, <1>5 DEF SourceOf, Wire
<1>7. Wiring(wac, Node, wac.over) = {Wire(Chain.iface, wac.last)}
  BY <1>2, <1>3, <1>5, <1>6 DEF Wiring
<1> QED BY <1>1, <1>2, <1>3, <1>7

LEMMA PlaceSplice == ASSUME Ground, SpliceInv, Place PROVE SpliceInv'
<1> DEFINE x == GetOrCreateInst(wac, Node, wac.over)
<1>1. /\ pc = "walk" /\ pc' = "inject" /\ ~IsFanInLast /\ wac' = Placed(wac, Node, Chain.iface)
      /\ todo' = Reverse(Plan) /\ UNCHANGED <<input, at, chains, fanVars>> /\ GraphType /\ Builder(wac)
  BY DEF Place, planned, routes, Ground, Inv, Types
<1>2. Node \in Nodes /\ Chain.iface \in Ifaces /\ Plan \in Seq(Mdls) /\ (at[2] = 1 \/ at[2] > 1)
  BY <1>1, WalkingAt
<1>3. /\ wac'.inst = x.inst /\ wac'.split = x.split /\ wac'.last = wac'.inst[Node]
      /\ wac'.over = Wire(Chain.iface, wac'.last) /\ WiresKept(wac, wac') /\ WiresKept(x, wac')
      /\ Extends(wac, wac') /\ wac'.inst[Node] # None
  BY <1>1, <1>2, PlacedWires, PlacedBuilds
<1>4. wac.over \in Wires \union {None} /\ (wac.over # None => Defined(wac, wac.over.from))
  BY <1>1 DEF Builder, WacType, Remembered
<1>5. SharedInv' /\ WiredInv'
  <2>1. CASE wac.inst[Node] # None \/ at[2] = 1
    BY <1>1, <1>2, <1>3, <1>4, <2>1, FirstWiresNothing, MadeAlone DEF SpliceInv
  <2>2. CASE wac.inst[Node] = None /\ at[2] > 1
    <3>1. Split(Node) = Node /\ wac.split[Node] = None
      BY <1>2, <2>2, NoShims DEF SpliceInv, SharedInv
    <3>2. /\ \A i, y : {u \in Wiring(wac, Node, wac.over) : u.iface = i} = {Wire(i, y)} => Wired(x, x.inst[Node], i, y)
          /\ \A s : s # Node => x.split[s] = wac.split[s]
          /\ \A m \in Nodes \ {Node} : x.inst[m] = wac.inst[m]
      BY <1>1, <1>2, <1>4, <2>2, <3>1, GetOrCreateWires, GetOrCreateBuilds
    <3> HIDE DEF x
    <3>3. /\ Internal(Node) = {Chain.iface} /\ wac.last \in Variables /\ Ready(wac.last, Chain.iface, Node)
          /\ Wiring(wac, Node, wac.over) = {Wire(Chain.iface, wac.last)}
      BY <1>1, <2>2, LaterWiresOne DEF SpliceInv
    <3>4. {u \in Wiring(wac, Node, wac.over) : u.iface = Chain.iface} = {Wire(Chain.iface, wac.last)}
      BY <3>3 DEF Wire
    <3>5. Wired(wac', wac'.inst[Node], Chain.iface, wac.last)
      BY <1>3, <3>2, <3>4 DEF WiresKept
    <3>6. \A v, i, n : v = wac.last /\ i = Chain.iface /\ n = Node => Ready(v, i, n)'
      BY <1>1, <1>2, <1>3, <3>3, ReadyKept
    <3>7. SharedInv'
      BY <1>2, <1>3, <3>2, SharedKept DEF SpliceInv
    <3>8. \A n \in Nodes : wac.inst[n] = None /\ wac'.inst[n] # None => n = Node
      BY <1>3, <3>2
    <3>9. \A n \in Nodes : wac.inst[n] = None /\ wac'.inst[n] # None => \A i \in Internal(n) : \E v \in Variables :
            Wired(wac', wac'.inst[n], i, v) /\ Ready(v, i, n)'
      BY <3>3, <3>5, <3>6, <3>8
    <3> QED BY <1>1, <1>3, <3>7, <3>9, WiredKept DEF SpliceInv
  <2> QED BY <1>2, <2>1, <2>2
<1> HIDE DEF x
<1>6. \A k : Left(k)' => Left(k)
  BY <1>1 DEF Left, Passed
<1>7. FanVarsInv'
  BY <1>1, <1>3, <1>6, FanVarsKept DEF SpliceInv
<1>8. Chain' = Chain /\ Node' = Node /\ Plan' = Plan /\ IsFanInLast' = IsFanInLast
  BY <1>1, FanInKept DEF Chain, Node, Plan, IsFanInLast, IsLast
<1>9. InHand(wac', Reverse(Plan), Chain.iface, Plan, wac'.inst[Node])
  BY <1>2, <1>3, InHandStart
<1>10. HandInv'
  BY <1>1, <1>3, <1>8, <1>9 DEF HandInv
<1> QED BY <1>5, <1>7, <1>10 DEF SpliceInv

LEMMA ReachFanInSplice == ASSUME Ground, SpliceInv, ReachFanIn PROVE SpliceInv'
<1>1. /\ pc = "walk" /\ pc' = "inject" /\ IsFanInLast /\ Len(Chain.nodes) > 1 /\ todo' = Reverse(Plan)
      /\ UNCHANGED <<input, at, chains, wac, fanVars>>
  BY DEF ReachFanIn, planned, routes
<1>2. Extends(wac, wac') /\ WiresKept(wac, wac')
  BY <1>1, StayWires
<1>3. SharedInv' /\ WiredInv'
  BY <1>1, <1>2, SharedKept, WiredKept DEF SpliceInv
<1>4. \A k : Left(k)' => Left(k)
  BY <1>1 DEF Left, Passed
<1>5. FanVarsInv'
  BY <1>1, <1>2, <1>4, FanVarsKept DEF SpliceInv
<1>6. Chain' = Chain /\ Node' = Node /\ IsFanInLast' = IsFanInLast
  BY <1>1, FanInKept DEF Chain, Node, IsFanInLast, IsLast
<1>7. at[2] > 1 /\ Node \in FanIn /\ Chain.iface \in Internal(Node) /\ Node \in Nodes
      /\ Plan = Requested(Chain.iface, Node, Host)
  BY <1>1, WalkingAt DEF IsFanInLast, IsLast
<1>8. todo' = <<>>
  <2>1. Plan = <<>>
    BY <1>7, FanInUnasked
  <2> QED BY <1>1, <2>1 DEF Reverse
<1>9. Ready(wac.last, Chain.iface, Node)
  BY <1>1, <1>7 DEF SpliceInv, HandInv
<1>10. Ready(wac.last, Chain.iface, Node)'
  <2>1. \A v, i, n : Ready(v, i, n)' <=> Ready(v, i, n)
    BY <1>1, RequestedKept DEF Ready, Spliced, Requested, Resolve, Split, input
  <2>2. \A v, i, n : v = wac.last /\ i = Chain.iface /\ n = Node => Ready(v, i, n)'
    BY <1>9, <2>1
  <2> QED BY <1>1, <1>6, <2>2
<1>11. HandInv'
  BY <1>1, <1>6, <1>7, <1>8, <1>10 DEF HandInv
<1> QED BY <1>3, <1>5, <1>11 DEF SpliceInv

(* The next middleware is wired to the one before it.                       *)
LEMMA InjectNextSplice == ASSUME Ground, SpliceInv, InjectNext PROVE SpliceInv'
<1>1. /\ pc \in {"inject", "drain"} /\ pc' = pc /\ todo # <<>> /\ wac' = CreateMdl(wac, Head(todo), Target)
      /\ todo' = Tail(todo) /\ UNCHANGED <<input, at, chains, fanVars, deferred>>
      /\ Builder(wac) /\ wac.last # None /\ todo \in Seq(Mdls) /\ Head(todo) \in Mdls /\ Target \in Ifaces
  BY TargetType DEF InjectNext, planned, routes, Ground, Inv, Types, LastInv
<1>2. /\ Extends(wac, wac') /\ WiresKept(wac, wac') /\ wac'.inst = wac.inst /\ wac'.split = wac.split
  BY <1>1, CreateMdlBuilds, CreateMdlWires
<1>3. SharedInv' /\ WiredInv'
  BY <1>1, <1>2, SharedKept, WiredKept DEF SpliceInv
<1>4. \A k : Left(k)' => Left(k)
  BY <1>1 DEF Left, Passed
<1>5. FanVarsInv'
  BY <1>1, <1>2, <1>4, FanVarsKept DEF SpliceInv
<1>6. Chain' = Chain /\ Node' = Node /\ Plan' = Plan /\ IsFanInLast' = IsFanInLast
  BY <1>1, FanInKept DEF Chain, Node, Plan, IsFanInLast, IsLast
<1>7. CASE pc = "inject"
  <2>1. ~IsFanInLast /\ Plan \in Seq(Mdls) /\ InHand(wac, todo, Chain.iface, Plan, wac.inst[Node])
    BY <1>1, <1>7, WalkingAt DEF SpliceInv, HandInv
  <2>2. /\ InHand(wac', todo', Chain.iface, Plan, wac.inst[Node]) /\ wac'.over = Wire(Chain.iface, wac'.last)
    BY <1>1, <1>7, <2>1, InHandNext DEF Target
  <2> QED BY <1>1, <1>2, <1>3, <1>5, <1>6, <1>7, <2>1, <2>2 DEF SpliceInv, HandInv
<1>8. CASE pc = "drain"
  <2> DEFINE d == Head(deferred)
  <2>1. d.mdls \in Seq(Mdls)
    <3>1. deferred \in Seq(InjectType) /\ deferred # <<>>
      BY <1>8 DEF Ground, Inv, Types, CursorInv
    <3>2. d \in InjectType
      BY <3>1
    <3> QED BY <3>2 DEF InjectType
  <2>2. InHand(wac, todo, d.iface, d.mdls, wac.inst[d.node])
    BY <1>8 DEF SpliceInv, HandInv
  <2>3. Target = d.iface
    BY <1>8 DEF Target
  <2> HIDE DEF d
  <2>4. InHand(wac', todo', d.iface, d.mdls, wac.inst[d.node])
    BY <1>1, <2>1, <2>2, <2>3, InHandNext
  <2>5. HandInv'
    BY <1>1, <1>2, <1>8, <2>4 DEF HandInv, d
  <2> QED BY <1>3, <1>5, <2>5 DEF SpliceInv
<1> QED BY <1>1, <1>7, <1>8

LEMMA LeaveFanInSplice == ASSUME Ground, SpliceInv, LeaveFanIn PROVE SpliceInv'
<1> DEFINE u == Wire(Chain.iface, wac.last)
<1>1. /\ pc = "inject" /\ IsFanInLast /\ IsLast /\ Advance
      /\ fanVars' = [fanVars EXCEPT ![Node] = fanVars[Node] \union {u}]
      /\ UNCHANGED <<input, chains, wac>> /\ fanVars \in [Nodes -> SUBSET Wires]
  BY DEF LeaveFanIn, IsFanInLast, planned, Ground, Inv, Types
<1>2. Extends(wac, wac') /\ WiresKept(wac, wac')
  BY <1>1, StayWires
<1>3. SharedInv' /\ WiredInv'
  BY <1>1, <1>2, SharedKept, WiredKept DEF SpliceInv
<1>4. /\ Node \in Nodes /\ Node = End(at[1]) /\ Chain = chains[at[1]]
      /\ Chain.iface \in Internal(Node) /\ Ready(wac.last, Chain.iface, Node)
  BY <1>1, WalkingAt DEF SpliceInv, HandInv
<1>5. u.iface = Chain.iface /\ u.from = wac.last
  BY DEF Wire
<1> HIDE DEF u
<1>6. fanVars'[Node] = fanVars[Node] \union {u} /\ \A n \in Nodes \ {Node} : fanVars'[n] = fanVars[n]
  BY <1>1, <1>4
<1>7. \A n \in Nodes : \A f \in fanVars'[n] :
        f \in fanVars[n] \/ (f.iface \in Internal(n) /\ Ready(f.from, f.iface, n)')
  <2>1. \A v, i, n : v = wac.last /\ i = Chain.iface /\ n = Node => i \in Internal(n) /\ Ready(v, i, n)'
    BY <1>1, <1>2, <1>4, ReadyKept
  <2> QED BY <1>5, <1>6, <2>1
<1>8. \A n \in Nodes : fanVars[n] \subseteq fanVars'[n]
  BY <1>4, <1>6
<1>9. \A k \in DOMAIN chains : Left(k)' =>
        Left(k) \/ \E f \in fanVars'[End(k)] : f.iface = chains[k].iface
  BY <1>1, <1>4, <1>5, <1>6, AdvanceLeft
<1>10. FanVarsInv'
  BY <1>1, <1>2, <1>7, <1>8, <1>9, FanVarsKept DEF SpliceInv
<1>11. HandInv'
  BY <1>1, AdvanceLeft DEF HandInv
<1> QED BY <1>3, <1>10, <1>11 DEF SpliceInv

(* What stands at a position when the walk leaves it.                       *)
LEMMA LeftSpliced ==
  ASSUME Ground, HandInv, Leave
  PROVE  /\ Spliced(wac, wac.last, Chain.iface, Node, Outer(at[1], at[2]))
         /\ wac.over = Wire(Chain.iface, wac.last)
<1>1. /\ pc = "inject" /\ todo = <<>> /\ ~IsFanInLast
  BY DEF Leave
<1>2. /\ Node \in Nodes /\ Plan = Requested(Chain.iface, Node, Outer(at[1], at[2])) /\ Plan \in Seq(Mdls)
      /\ InHand(wac, todo, Chain.iface, Plan, wac.inst[Node]) /\ wac.over = Wire(Chain.iface, wac.last)
  BY <1>1, WalkingAt DEF HandInv
<1>3. Requested(Chain.iface, Node, Outer(at[1], at[2])) \in Seq(Mdls)
      /\ InHand(wac, <<>>, Chain.iface, Requested(Chain.iface, Node, Outer(at[1], at[2])), wac.inst[Node])
  BY <1>1, <1>2
<1> QED BY <1>2, <1>3, InHandDone

LEMMA LeaveSplice == ASSUME Ground, SpliceInv, Leave PROVE SpliceInv'
<1>1. /\ pc = "inject" /\ ~IsFanInLast /\ Advance /\ UNCHANGED <<input, chains, wac, fanVars>>
  BY DEF Leave, planned
<1>2. Extends(wac, wac') /\ WiresKept(wac, wac')
  BY <1>1, StayWires
<1>3. SharedInv' /\ WiredInv'
  BY <1>1, <1>2, SharedKept, WiredKept DEF SpliceInv
<1>4. \A k \in DOMAIN chains : Left(k)' /\ End(k) \in FanIn => Left(k)
  BY <1>1, AdvanceLeft, WalkingAt DEF IsFanInLast
<1>5. FanVarsInv'
  BY <1>1, <1>2, <1>4, FanVarsKept DEF SpliceInv
<1>6. CASE IsLast
  BY <1>1, <1>3, <1>5, <1>6, AdvanceLeft DEF SpliceInv, HandInv
<1>7. CASE ~IsLast
  <2>1. /\ at[1] \in DOMAIN chains /\ at[2] \in DOMAIN chains[at[1]].nodes /\ at[2] \in Nat
        /\ Chain = chains[at[1]] /\ Node = chains[at[1]].nodes[at[2]]
    BY <1>1, WalkingAt
  <2>2. at' = <<at[1], at[2] + 1>> /\ pc' = "walk"
    BY <1>1, <1>7 DEF Advance
  <2>3. at[2] + 1 \in DOMAIN chains[at[1]].nodes /\ at[2] + 1 > 1 /\ (at[2] + 1) - 1 = at[2]
    BY <1>7, <2>1, ChainFacts DEF IsLast, Ground
  <2> DEFINE m == chains[at[1]].nodes[at[2] + 1]
  <2>4. m \in Nodes /\ imports[m][Chain.iface] = Node /\ Outer(at[1], at[2]) = m
    BY <2>1, <2>3, Behind DEF Ground
  <2>5. Chain' = Chain /\ Node' = m
    BY <1>1, <2>1, <2>2 DEF Chain, Node
  <2>6. Ready(wac.last, Chain.iface, m) /\ wac.over = Wire(Chain.iface, wac.last)
    BY <2>4, LeftSpliced DEF SpliceInv, Ready
  <2> HIDE DEF m
  <2>7. \A v, i, n : Ready(v, i, n)' <=> Ready(v, i, n)
    BY <1>1, RequestedKept DEF Ready, Spliced, Requested, Resolve, Split, input
  <2>8. \A v, i, n : v = wac.last /\ i = Chain.iface /\ n = m => Ready(v, i, n)'
    BY <2>6, <2>7
  <2>9. Ready(wac.last, Chain.iface, Node)'
    BY <1>1, <2>5, <2>8
  <2>10. HandInv'
    BY <1>1, <2>2, <2>5, <2>6, <2>9 DEF HandInv
  <2> QED BY <1>3, <1>5, <2>10 DEF SpliceInv
<1> QED BY <1>6, <1>7

-----------------------------------------------------------------------------
(* The fan-in pass: each interface of a consumer ends in it, and what was   *)
(* put in in front of it is remembered.                                     *)
LEMMA FanInSources ==
  ASSUME Ground, FanVarsInv, pc = "fanin", NEW n \in FanIn, NEW i \in Internal(n)
  PROVE  \E v \in Variables :
           Ready(v, i, n) /\ {u \in FanInWiring(n) : u.iface = i} = {Wire(i, v)}
<1>1. n \in Nodes
  BY FanInImports DEF Ground
<1>2. PICK k \in DOMAIN chains : \E p \in DOMAIN chains[k].nodes :
        chains[k].iface = i /\ i \in Handled /\ p > 1 /\ chains[k].nodes[p] = n
  BY <1>1, StandsAt
<1>3. PICK p \in DOMAIN chains[k].nodes : chains[k].nodes[p] = n
  BY <1>2
<1>4. p = Len(chains[k].nodes)
  BY <1>3, FanInsAtEnd DEF Ground, Ordinary
<1>5. End(k) = n /\ Left(k)
  BY <1>3, <1>4 DEF End, Left, Passed
<1>6. \E f \in fanVars[n] : f.iface = i
  BY <1>2, <1>5 DEF FanVarsInv
<1> DEFINE g == CHOOSE f \in fanVars[n] : f.iface = i
           v == g.from
<1>7. g \in fanVars[n] /\ g.iface = i /\ FanInSource(n, i) = v
  BY <1>6 DEF FanInSource
<1> HIDE DEF g
<1>8. fanVars[n] \in SUBSET Wires
  BY <1>1 DEF Ground, Inv, Types
<1>9. v \in Variables /\ v # None /\ Ready(v, i, n)
  <2>1. g \in Wires
    BY <1>7, <1>8
  <2>2. v \in Variables
    BY <2>1 DEF Wires
  <2>3. Ready(v, i, n)
    BY <1>1, <1>7 DEF FanVarsInv
  <2> QED BY <2>2, <2>3, NoneAssumption
<1> HIDE DEF v
<1>10. {u \in FanInWiring(n) : u.iface = i} = {Wire(i, v)}
  BY <1>7, <1>9 DEF FanInWiring, Wire
<1> QED BY <1>9, <1>10

LEMMA InstantiateFanInWires ==
  ASSUME Ground, NEW n \in Nodes, InstantiateFanIn(n)
  PROVE  /\ n \in FanIn /\ wac.inst[n] = None /\ NodeVar(n) # None
         /\ outer' = [outer EXCEPT ![n] = NodeVar(n)]
         /\ wac'.inst[n] = NodeVar(n) /\ wac'.split = wac.split
         /\ \A m \in Nodes \ {n} : wac'.inst[m] = wac.inst[m]
         /\ Extends(wac, wac') /\ WiresKept(wac, wac')
         /\ \A i, y : {u \in FanInWiring(n) : u.iface = i} = {Wire(i, y)} => Wired(wac', NodeVar(n), i, y)
<1> DEFINE x == Let(wac, NodeVar(n), FanInWiring(n))
<1>1. /\ outer[n] = None /\ fanVars[n] # {} /\ n \in FanIn /\ wac \in WacType /\ Builder(wac)
  BY DEF InstantiateFanIn, Waiting, Ground, Inv, SplitInv, Builder
<1>2. wac.inst[n] = None
  BY <1>1 DEF Ground, LetsInv, MadeInv
<1>3. wac' = [x EXCEPT !.inst[n] = NodeVar(n)] /\ outer' = [outer EXCEPT ![n] = NodeVar(n)]
  BY <1>2 DEF InstantiateFanIn
<1>4. /\ NodeVar(n) \in Variables /\ NodeVar(n) # None
      /\ FanInWiring(n) \in SUBSET Wires /\ \A u \in FanInWiring(n) : Defined(wac, u.from)
  BY VariableTypes, NoneAssumption, FanInWired DEF Ground, InstantiateFanIn
<1>5. /\ x \in WacType /\ x.inst = wac.inst /\ x.split = wac.split /\ Extends(wac, x) /\ WiresKept(wac, x)
      /\ \A i, y : {u \in FanInWiring(n) : u.iface = i} = {Wire(i, y)} => Wired(x, NodeVar(n), i, y)
  BY <1>1, <1>4, LetBuilds, LetWires DEF Builder
<1> HIDE DEF x
<1>6. /\ wac'.lines = x.lines /\ wac'.split = wac.split /\ wac'.inst[n] = NodeVar(n)
      /\ \A m \in Nodes \ {n} : wac'.inst[m] = wac.inst[m]
  BY <1>3, <1>5 DEF WacType
<1>7. WiresKept(x, wac') /\ WiresKept(wac, wac')
  BY <1>5, <1>6, SameLinesWire, WiresTrans
<1>8. Extends(wac, wac')
  <2>1. \A v : Defined(x, v) => Defined(wac', v)
    BY <1>6 DEF Defined
  <2> QED BY <1>2, <1>5, <1>6, <2>1 DEF Extends
<1>9. \A i, y : {u \in FanInWiring(n) : u.iface = i} = {Wire(i, y)} => Wired(wac', NodeVar(n), i, y)
  BY <1>5, <1>7 DEF WiresKept
<1> QED BY <1>1, <1>2, <1>3, <1>4, <1>6, <1>7, <1>8, <1>9

LEMMA InstantiateFanInSplice ==
  ASSUME Ground, SpliceInv, NEW n \in Nodes, InstantiateFanIn(n)
  PROVE  SpliceInv'
<1>1. pc = "fanin" /\ pc' = pc /\ UNCHANGED <<input, at, chains, fanVars>>
  BY DEF InstantiateFanIn, planned
<1>2. /\ n \in FanIn /\ wac.inst[n] = None /\ wac'.inst[n] = NodeVar(n) /\ wac'.split = wac.split
      /\ \A m \in Nodes \ {n} : wac'.inst[m] = wac.inst[m]
  BY InstantiateFanInWires
<1>3. Extends(wac, wac') /\ WiresKept(wac, wac')
  BY InstantiateFanInWires
<1>4. ASSUME NEW i \in Internal(n)
      PROVE  \E v \in Variables : Wired(wac', wac'.inst[n], i, v) /\ Ready(v, i, n)'
  <2>1. PICK v \in Variables : Ready(v, i, n) /\ {u \in FanInWiring(n) : u.iface = i} = {Wire(i, v)}
    BY <1>1, <1>2, FanInSources DEF SpliceInv
  <2>2. Wired(wac', NodeVar(n), i, v)
    BY <2>1, InstantiateFanInWires
  <2>3. Ready(v, i, n)'
    BY <1>1, <1>3, <2>1, ReadyKept
  <2> QED BY <1>2, <2>2, <2>3
<1>5. \A m \in Nodes : wac.inst[m] = None /\ wac'.inst[m] # None => m = n
  BY <1>2
<1>6. SharedInv' /\ WiredInv'
  BY <1>1, <1>2, <1>3, <1>4, <1>5, SharedKept, WiredKept DEF SpliceInv
<1>7. \A k : Left(k)' => Left(k)
  BY <1>1 DEF Left, Passed
<1>8. FanVarsInv'
  BY <1>1, <1>3, <1>7, FanVarsKept DEF SpliceInv
<1>9. HandInv'
  BY <1>1 DEF HandInv
<1> QED BY <1>6, <1>8, <1>9 DEF SpliceInv

LEMMA StartDrainWires ==
  ASSUME Ground, StartDrain
  PROVE  LET d == Head(deferred) IN
         /\ d.node \in Nodes /\ wac.inst[d.node] # None /\ d.mdls \in Seq(Mdls)
         /\ pc' = "drain" /\ todo' = Reverse(d.mdls) /\ wac'.last = wac.inst[d.node]
         /\ wac'.inst = wac.inst /\ wac'.split = wac.split
         /\ Extends(wac, wac') /\ WiresKept(wac, wac')
<1> DEFINE d == Head(deferred)
<1>1. /\ pc = "fanin" /\ Waiting = {} /\ deferred # <<>> /\ deferred \in Seq(InjectType) /\ wac \in WacType
  BY DEF StartDrain, Ground, Inv, Types, Builder
<1>2. d \in InjectType /\ d.node \in FanIn
  BY <1>1 DEF Ground, Inv, WalkInv
<1>3. d.node \in Nodes /\ wac.inst[d.node] # None /\ d.mdls \in Seq(Mdls)
  BY <1>1, <1>2, FanInMade DEF InjectType, Ground
<1>4. pc' = "drain" /\ wac' = [wac EXCEPT !.last = wac.inst[d.node]] /\ todo' = Reverse(d.mdls)
  BY <1>3 DEF StartDrain
<1> HIDE DEF d
<1>5. /\ wac'.lines = wac.lines /\ wac'.inst = wac.inst /\ wac'.split = wac.split
      /\ wac'.last = wac.inst[d.node]
  BY <1>1, <1>4 DEF WacType
<1>6. Extends(wac, wac') /\ WiresKept(wac, wac')
  BY <1>5, SameLinesWire DEF Extends, Defined
<1> QED BY <1>3, <1>4, <1>5, <1>6 DEF d

LEMMA StartDrainSplice == ASSUME Ground, SpliceInv, StartDrain PROVE SpliceInv'
<1> DEFINE d == Head(deferred)
<1>1. pc = "fanin" /\ UNCHANGED <<input, at, chains, fanVars, deferred>>
  BY DEF StartDrain, planned, routes
<1>2. /\ d.node \in Nodes /\ wac.inst[d.node] # None /\ d.mdls \in Seq(Mdls)
      /\ pc' = "drain" /\ todo' = Reverse(d.mdls) /\ wac'.last = wac.inst[d.node]
      /\ wac'.inst = wac.inst /\ wac'.split = wac.split
      /\ Extends(wac, wac') /\ WiresKept(wac, wac') /\ d' = d
  BY <1>1, StartDrainWires
<1> HIDE DEF d
<1>3. SharedInv' /\ WiredInv'
  BY <1>1, <1>2, SharedKept, WiredKept DEF SpliceInv
<1>4. \A k : Left(k)' => Left(k)
  BY <1>1, <1>2 DEF Left, Passed
<1>5. FanVarsInv'
  BY <1>1, <1>2, <1>4, FanVarsKept DEF SpliceInv
<1>6. InHand(wac', todo', d.iface, d.mdls, wac'.inst[d.node])
  BY <1>2, InHandStart
<1>7. HandInv'
  BY <1>2, <1>6 DEF HandInv, d
<1> QED BY <1>3, <1>5, <1>7 DEF SpliceInv

(* The steps that leave the script alone, and nothing in hand.              *)
LEMMA QuietSplice ==
  ASSUME Ground, SpliceInv, UNCHANGED <<input, chains, wac, fanVars>>,
         pc \in {"fanin", "drain", "exports", "done"}, pc' \in {"fanin", "exports", "done"}
  PROVE  SpliceInv'
<1>1. Extends(wac, wac') /\ WiresKept(wac, wac')
  BY StayWires
<1>2. SharedInv' /\ WiredInv'
  BY <1>1, SharedKept, WiredKept DEF SpliceInv
<1>3. \A k : Left(k)' => Left(k)
  BY DEF Left, Passed
<1>4. FanVarsInv'
  BY <1>1, <1>3, FanVarsKept DEF SpliceInv
<1>5. HandInv'
  BY DEF HandInv
<1> QED BY <1>2, <1>4, <1>5 DEF SpliceInv

LEMMA StutterSplice == ASSUME Ground, SpliceInv, UNCHANGED vars PROVE SpliceInv'
<1>1. UNCHANGED <<input, chains, wac, fanVars>> /\ Extends(wac, wac') /\ WiresKept(wac, wac')
  BY StayWires DEF vars, input
<1>2. SharedInv' /\ WiredInv'
  BY <1>1, SharedKept, WiredKept DEF SpliceInv
<1>3. \A k : Left(k)' => Left(k)
  BY DEF Left, Passed, vars
<1>4. FanVarsInv'
  BY <1>1, <1>3, FanVarsKept DEF SpliceInv
<1>5. Chain' = Chain /\ Node' = Node /\ Plan' = Plan /\ IsFanInLast' = IsFanInLast
  BY <1>1, FanInKept DEF Chain, Node, Plan, IsFanInLast, IsLast, vars
<1>6. \A v, i, n : Ready(v, i, n)' <=> Ready(v, i, n)
  BY <1>1, RequestedKept DEF Ready, Spliced, Requested, Resolve, Split, input
<1>7. Ready(wac.last, Chain.iface, Node)' <=> Ready(wac.last, Chain.iface, Node)
  <2>1. \A v, i, n : v = wac.last /\ i = Chain.iface /\ n = Node =>
          (Ready(v, i, n)' <=> Ready(wac.last, Chain.iface, Node))
    BY <1>6
  <2> QED BY <1>1, <1>5, <2>1
<1>8. HandInv'
  BY <1>1, <1>5, <1>7 DEF SpliceInv, HandInv, vars
<1> QED BY <1>2, <1>4, <1>8 DEF SpliceInv

LEMMA EmitExportSplice == ASSUME Ground, SpliceInv, NEW i \in Ifaces, EmitExport(i) PROVE SpliceInv'
<1> DEFINE n == Resolve(exports[i])
<1>1. /\ pc = "exports" /\ pc' = pc /\ UNCHANGED <<input, chains, fanVars>> /\ GraphType /\ Builder(wac)
  BY DEF EmitExport, planned, Ground, Inv, Types
<1>2. /\ Extends(wac, wac') /\ WiresKept(wac, wac') /\ SharedInv' /\ WiredInv'
  <2>1. CASE UNCHANGED wac
    <3>1. Extends(wac, wac') /\ WiresKept(wac, wac')
      BY <2>1, StayWires
    <3> QED BY <1>1, <2>1, <3>1, SharedKept, WiredKept DEF SpliceInv
  <2>2. CASE ~Skipped(i) /\ wac' = GetOrCreateInst(wac, n, None)
    <3>1. n \in Nodes
      <4>1. exports[i] \in Nodes
        BY <2>2 DEF Ground, Inv, Types, Skipped
      <4> QED BY <4>1, NoShims
    <3> HIDE DEF n
    <3>2. Extends(wac, wac') /\ WiresKept(wac, wac')
      BY <1>1, <2>2, <3>1, GetOrCreateBuilds, GetOrCreateWires
    <3>3. wac.inst[n] = None => Internal(n) = {}
      <4> SUFFICES ASSUME wac.inst[n] = None, NEW j \in Internal(n) PROVE FALSE
        OBVIOUS
      <4>1. PICK k \in DOMAIN chains : \E p \in DOMAIN chains[k].nodes : p > 1 /\ chains[k].nodes[p] = n
        BY <1>1, <3>1, StandsAt
      <4>2. PICK p \in DOMAIN chains[k].nodes : p > 1 /\ chains[k].nodes[p] = n
        BY <4>1
      <4>3. Passed(k, p)
        BY <1>1 DEF Passed
      <4>4. CASE n \in FanIn
        BY <1>1, <4>4 DEF Ground, LetsInv, MadeInv
      <4>5. CASE n \notin FanIn
        BY <3>1, <4>2, <4>3, <4>5, PassedMade
      <4> QED BY <4>4, <4>5
    <3>4. SharedInv' /\ WiredInv'
      BY <1>1, <2>2, <3>1, <3>2, <3>3, MadeAlone DEF SpliceInv
    <3> QED BY <3>2, <3>4
  <2> QED BY <2>1, <2>2 DEF EmitExport
<1>3. \A k : Left(k)' => Left(k)
  BY <1>1 DEF Left, Passed
<1>4. FanVarsInv'
  BY <1>1, <1>2, <1>3, FanVarsKept DEF SpliceInv
<1>5. HandInv'
  BY <1>1 DEF HandInv
<1> QED BY <1>2, <1>4, <1>5 DEF SpliceInv

LEMMA SpliceStep == ASSUME Ground, SpliceInv, [Next]_vars PROVE SpliceInv'
<1>1. CASE SkipImport \/ StartChain \/ GrowChain \/ CloseChain \/ Standalone \/ ApplyRule \/ RulesApplied
  <2>1. /\ pc \in {"chains", "rules"} /\ pc' \in {"chains", "rules", "providers"}
        /\ UNCHANGED <<input, wac, todo, routes>>
    BY <1>1 DEF SkipImport, StartChain, GrowChain, CloseChain, Standalone, ApplyRule, RulesApplied, NextImport
  <2> QED BY <2>1, EarlySplice
<1>2. CASE (\E n \in Nodes : PreInstantiate(n)) \/ StartWalk
  BY <1>2, PreInstantiateSplice, StartWalkSplice
<1>3. CASE DeferInject \/ Place \/ ReachFanIn \/ InjectNext \/ LeaveFanIn \/ Leave
  BY <1>3, DeferInjectSplice, PlaceSplice, ReachFanInSplice, InjectNextSplice, LeaveFanInSplice, LeaveSplice
<1>4. CASE (\E n \in Nodes : InstantiateFanIn(n)) \/ StartDrain
  BY <1>4, InstantiateFanInSplice, StartDrainSplice
<1>5. CASE FinishDrain \/ StartExports \/ Finish
  BY <1>5, QuietSplice DEF FinishDrain, StartExports, Finish, planned, routes
<1>6. CASE \E i \in Ifaces : EmitExport(i)
  BY <1>6, EmitExportSplice
<1>7. CASE Terminated \/ UNCHANGED vars
  BY <1>7, StutterSplice DEF Terminated
<1> QED BY <1>1, <1>2, <1>3, <1>4, <1>5, <1>6, <1>7 DEF Next

LEMMA InitSplice == Init => SpliceInv
<1> SUFFICES ASSUME Init PROVE SpliceInv
  OBVIOUS
<1>1. /\ pc = "chains" /\ chains = <<>> /\ (\A n \in Nodes : wac.inst[n] = None /\ wac.split[n] = None)
      /\ \A n \in Nodes : fanVars[n] = {}
  BY DEF Init
<1> QED BY <1>1 DEF SpliceInv, SharedInv, HandInv, FanVarsInv, WiredInv

-----------------------------------------------------------------------------
(* The exports.  The end of a line that is exported is known by what stands *)
(* in front of it; what was put off until the consumers were made comes in  *)
(* front of them, and each export finds one or the other.                   *)
OuterInv ==
  /\ \A n \in FanIn : outer[n] # None => outer[n] = wac.inst[n]
  /\ \A k \in DOMAIN chains : exports[chains[k].iface] = End(k) /\ Left(k) /\ End(k) \notin FanIn =>
       Spliced(wac, outer[End(k)], chains[k].iface, End(k), Host)
OverrideInv ==
  /\ \A d \in DOMAIN deferred :
       deferred[d].mdls = Requested(deferred[d].iface, deferred[d].node, Host)
  /\ \A o \in overrides : Spliced(wac, o.var, o.iface, o.node, Host)
  /\ \A k \in DOMAIN chains : chains[k].iface \notin Handled /\ End(k) \in FanIn /\ Left(k) =>
       \/ PlanAt(k, 1) = <<>>
       \/ \E d \in DOMAIN deferred : deferred[d].node = End(k) /\ deferred[d].iface = chains[k].iface
       \/ Overriding(End(k), chains[k].iface) # {}
ExportedInv ==
  /\ pc \in {"exports", "done"} => deferred = <<>>
  /\ \A i \in Ifaces : exported[i] # None =>
       exports[i] # Host /\ Spliced(wac, exported[i], i, exports[i], Host)
  /\ \A a \in DOMAIN IfaceOrder : exports[IfaceOrder[a]] # Host =>
       /\ pc = "exports" /\ a < at[1] => exported[IfaceOrder[a]] # None
       /\ pc = "done" => exported[IfaceOrder[a]] # None
ExportInv == OuterInv /\ OverrideInv /\ ExportedInv

LEMMA OuterKept ==
  ASSUME Ground, OuterInv, UNCHANGED <<input, chains, outer>>, Extends(wac, wac'), WiresKept(wac, wac'),
         \A k \in DOMAIN chains : Left(k)' /\ End(k) \notin FanIn => Left(k)
  PROVE  OuterInv'
<1>1. FanIn' = FanIn /\ (\A k : End(k)' = End(k)) /\ FanIn \subseteq Nodes
  BY FanInKept, EndKept DEF FanIn
<1>2. \A n \in FanIn : outer[n] # None => wac.inst[n] # None /\ wac'.inst[n] = wac.inst[n]
  BY <1>1 DEF Ground, Inv, WalkInv, Extends
<1>3. ASSUME NEW k \in DOMAIN chains, exports[chains[k].iface] = End(k), Left(k)', End(k) \notin FanIn
      PROVE  \A v, i, n : v = outer[End(k)] /\ i = chains[k].iface /\ n = End(k) => Spliced(wac, v, i, n, Host)'
  <2>1. Left(k) /\ End(k) \in Nodes
    BY <1>3, ChainFacts DEF Ground
  <2>2. Spliced(wac, outer[End(k)], chains[k].iface, End(k), Host)
    BY <1>3, <2>1 DEF OuterInv
  <2> QED BY <2>1, <2>2, SplicedKept
<1>4. \A k \in DOMAIN chains : exports'[chains'[k].iface] = End(k)' /\ Left(k)' /\ End(k)' \notin FanIn' =>
        Spliced(wac, outer[End(k)], chains[k].iface, End(k), Host)'
  BY <1>1, <1>3 DEF input
<1> QED BY <1>1, <1>2, <1>4 DEF OuterInv

LEMMA OverrideKept ==
  ASSUME Ground, OverrideInv, UNCHANGED <<input, chains, deferred, overrides>>, Extends(wac, wac'),
         WiresKept(wac, wac'),
         \A k \in DOMAIN chains : Left(k)' /\ chains[k].iface \notin Handled /\ End(k) \in FanIn => Left(k)
  PROVE  OverrideInv'
<1>1. /\ FanIn' = FanIn /\ (\A k : End(k)' = End(k)) /\ Handled' = Handled
      /\ \A k, p : PlanAt(k, p)' = PlanAt(k, p)
  BY FanInKept, EndKept, GraphKept DEF input
<1>2. \A i, p, q : Requested(i, p, q)' = Requested(i, p, q)
  BY RequestedKept DEF Requested, input
<1>3. \A n, i : Overriding(n, i)' = Overriding(n, i)
  BY DEF Overriding
<1>4. \A o \in overrides : Spliced(wac, o.var, o.iface, o.node, Host)'
  <2>1. \A o \in overrides : o.node \in Nodes
    BY DEF Ground, Inv, Types, OverrideType
  <2> QED BY <2>1, SplicedKept DEF OverrideInv
<1> QED BY <1>1, <1>2, <1>3, <1>4 DEF OverrideInv

LEMMA ExportedKept ==
  ASSUME Ground, ExportedInv, UNCHANGED <<input, exported>>, Extends(wac, wac'), WiresKept(wac, wac'),
         pc' \in {"exports", "done"} => pc = pc' /\ UNCHANGED <<at, deferred>>
  PROVE  ExportedInv'
<1>1. \A i \in Ifaces : exported[i] # None => exports[i] # Host /\ Spliced(wac, exported[i], i, exports[i], Host)'
  <2>1. \A i \in Ifaces : exports[i] # Host => exports[i] \in Nodes
    BY DEF Ground, Inv, Types
  <2> SUFFICES ASSUME NEW i \in Ifaces, exported[i] # None
               PROVE  exports[i] # Host /\ Spliced(wac, exported[i], i, exports[i], Host)'
    OBVIOUS
  <2>2. exports[i] # Host /\ exports[i] \in Nodes /\ Spliced(wac, exported[i], i, exports[i], Host)
    BY <2>1 DEF ExportedInv
  <2>3. \A v, n : v = exported[i] /\ n = exports[i] => Spliced(wac, v, i, n, Host)'
    BY <2>2, SplicedKept
  <2> QED BY <2>2, <2>3 DEF input
<1> QED BY <1>1 DEF ExportedInv, input

LEMMA NothingExported ==
  ASSUME ExportedInv, UNCHANGED <<input, wac, exported>>, pc' \notin {"exports", "done"}
  PROVE  ExportedInv'
<1>1. \A v, i, n : Spliced(wac, v, i, n, Host)' <=> Spliced(wac, v, i, n, Host)
  BY SplicedSame
<1> QED BY <1>1 DEF ExportedInv, input

(* A step that keeps what it finds.                                         *)
LEMMA ExportKept ==
  ASSUME Ground, ExportInv, UNCHANGED <<input, chains, outer, deferred, overrides, exported>>,
         Extends(wac, wac'), WiresKept(wac, wac'), \A k \in DOMAIN chains : Left(k)' => Left(k),
         pc' \in {"exports", "done"} => pc = pc' /\ UNCHANGED at
  PROVE  ExportInv'
BY OuterKept, OverrideKept, ExportedKept DEF ExportInv

-----------------------------------------------------------------------------
(* The steps, for the exports.                                              *)
LEMMA EarlyExport ==
  ASSUME Ground, ExportInv, pc \in {"chains", "rules"}, pc' \in {"chains", "rules", "providers"},
         UNCHANGED <<input, wac, todo, routes>>
  PROVE  ExportInv'
<1>1. deferred = <<>> /\ \A n \in Nodes : outer[n] = None
  BY DEF Ground, Inv, EarlyInv, WalkInv
<1>2. UNCHANGED <<outer, deferred, overrides, exported>> /\ \A k : ~Left(k)'
  BY DEF routes, Left, Passed
<1>3. \A v, i, n : Spliced(wac, v, i, n, Host)' <=> Spliced(wac, v, i, n, Host)
  BY SplicedSame
<1>4. OuterInv'
  BY <1>1, <1>2 DEF OuterInv, FanIn
<1>5. OverrideInv'
  BY <1>1, <1>2, <1>3 DEF OverrideInv, ExportInv
<1>6. ExportedInv'
  BY <1>2, NothingExported DEF ExportInv
<1> QED BY <1>4, <1>5, <1>6 DEF ExportInv

LEMMA BuildersExport ==
  ASSUME Ground, ExportInv, (\E n \in Nodes : PreInstantiate(n)) \/ StartWalk \/ Place \/ ReachFanIn \/ InjectNext
  PROVE  ExportInv'
<1>1. UNCHANGED <<input, chains, outer, deferred, overrides, exported>> /\ pc' \notin {"exports", "done"}
  BY DEF PreInstantiate, StartWalk, Place, ReachFanIn, InjectNext, planned, routes
<1>2. GraphType /\ Builder(wac) /\ pc' \notin {"exports", "done"}
  BY <1>1 DEF Ground, Inv, Types
<1>3. Extends(wac, wac') /\ WiresKept(wac, wac')
  <2>1. CASE \E n \in Nodes : PreInstantiate(n)
    BY <1>2, <2>1, GetOrCreateBuilds, GetOrCreateWires DEF PreInstantiate
  <2>2. CASE StartWalk \/ ReachFanIn
    BY <2>2, StayWires DEF StartWalk, ReachFanIn
  <2>3. CASE Place
    <3>1. Node \in Nodes /\ Chain.iface \in Ifaces /\ wac' = Placed(wac, Node, Chain.iface)
      BY <2>3, WalkingAt DEF Place
    <3> QED BY <1>2, <3>1, PlacedBuilds, PlacedWires
  <2>4. CASE InjectNext
    <3>1. /\ wac' = CreateMdl(wac, Head(todo), Target) /\ wac.last # None
          /\ Head(todo) \in Mdls /\ Target \in Ifaces
      BY <2>4, TargetType DEF InjectNext, Ground, Inv, Types, LastInv
    <3> QED BY <1>2, <3>1, CreateMdlBuilds, CreateMdlWires
  <2> QED BY <2>1, <2>2, <2>3, <2>4
<1>4. \A k \in DOMAIN chains : Left(k)' => Left(k)
  <2>1. CASE StartWalk
    BY <2>1, StartWalkLeft DEF Ground
  <2>2. CASE ~StartWalk
    BY <1>1, <2>2 DEF Left, Passed, PreInstantiate, Place, ReachFanIn, InjectNext
  <2> QED BY <2>1, <2>2
<1> QED BY <1>1, <1>2, <1>3, <1>4, ExportKept

LEMMA DeferInjectExport == ASSUME Ground, ExportInv, DeferInject PROVE ExportInv'
<1> DEFINE d == [node |-> Node, iface |-> Chain.iface, mdls |-> Plan]
<1>1. /\ pc = "walk" /\ IsFanInLast /\ IsLast /\ Len(Chain.nodes) = 1 /\ Advance
      /\ deferred' = IF Plan = <<>> THEN deferred ELSE Append(deferred, d)
      /\ UNCHANGED <<input, chains, wac, outer, overrides, exported>> /\ deferred \in Seq(InjectType)
  BY DEF DeferInject, IsFanInLast, planned, Ground, Inv, Types
<1>2. /\ at[2] = 1 /\ Plan = PlanAt(at[1], 1) /\ Plan = Requested(Chain.iface, Node, Host)
      /\ Node = End(at[1]) /\ Chain = chains[at[1]] /\ Node \in FanIn /\ d \in InjectType
  BY <1>1, WalkingAt DEF IsFanInLast, IsLast, InjectType
<1>3. d.node = Node /\ d.iface = Chain.iface /\ d.mdls = Plan
  OBVIOUS
<1> HIDE DEF d
<1>4. /\ \A e \in DOMAIN deferred' : (e \in DOMAIN deferred /\ deferred'[e] = deferred[e]) \/ deferred'[e] = d
      /\ \A e \in DOMAIN deferred : e \in DOMAIN deferred' /\ deferred'[e] = deferred[e]
      /\ Plan # <<>> => \E e \in DOMAIN deferred' : deferred'[e] = d
  BY <1>1, <1>2, AppendFacts
<1>5. Extends(wac, wac') /\ WiresKept(wac, wac')
  BY <1>1, StayWires
<1>6. \A k \in DOMAIN chains : Left(k)' => Left(k) \/ k = at[1]
  BY <1>1, AdvanceLeft
<1>7. OuterInv'
  BY <1>1, <1>2, <1>5, <1>6, OuterKept DEF ExportInv
<1>8. OverrideInv'
  <2>1. /\ FanIn' = FanIn /\ (\A k : End(k)' = End(k)) /\ Handled' = Handled
        /\ \A k, p : PlanAt(k, p)' = PlanAt(k, p)
    BY <1>1, FanInKept, EndKept, GraphKept DEF input
  <2>2. /\ \A i, p, q : Requested(i, p, q)' = Requested(i, p, q)
        /\ \A n, i : Overriding(n, i)' = Overriding(n, i)
    BY <1>1, RequestedKept DEF Requested, Overriding, input
  <2>3. \A v, i, n : Spliced(wac, v, i, n, Host)' <=> Spliced(wac, v, i, n, Host)
    BY <1>1, SplicedSame
  <2>4. \A e \in DOMAIN deferred' : deferred'[e].mdls = Requested(deferred'[e].iface, deferred'[e].node, Host)
    BY <1>2, <1>3, <1>4 DEF ExportInv, OverrideInv
  <2>5. ASSUME NEW k \in DOMAIN chains, chains[k].iface \notin Handled, End(k) \in FanIn, Left(k)'
        PROVE  \/ PlanAt(k, 1) = <<>>
               \/ \E e \in DOMAIN deferred' : deferred'[e].node = End(k) /\ deferred'[e].iface = chains[k].iface
               \/ Overriding(End(k), chains[k].iface) # {}
    <3>1. CASE Left(k)
      BY <1>4, <2>5, <3>1 DEF ExportInv, OverrideInv
    <3>2. CASE k = at[1]
      BY <1>2, <1>3, <1>4, <3>2
    <3> QED BY <1>6, <2>5, <3>1, <3>2
  <2> QED BY <1>1, <2>1, <2>2, <2>3, <2>4, <2>5 DEF ExportInv, OverrideInv
<1>9. ExportedInv'
  BY <1>1, AdvanceLeft, NothingExported DEF ExportInv
<1> QED BY <1>7, <1>8, <1>9 DEF ExportInv

LEMMA LeaveFanInExport == ASSUME Ground, SpliceInv, ExportInv, LeaveFanIn PROVE ExportInv'
<1>1. /\ pc = "inject" /\ IsFanInLast /\ IsLast /\ Node \in FanIn /\ Advance
      /\ UNCHANGED <<input, chains, wac, outer, deferred, overrides, exported>>
  BY DEF LeaveFanIn, IsFanInLast, planned
<1>2. Extends(wac, wac') /\ WiresKept(wac, wac')
  BY <1>1, StayWires
<1>3. /\ at[2] > 1 /\ chains[at[1]].iface \in Handled /\ End(at[1]) \in FanIn
  BY <1>1, WalkingAt DEF SpliceInv, HandInv
<1>4. (\A k \in DOMAIN chains : Left(k)' => Left(k) \/ k = at[1]) /\ pc' \in {"walk", "fanin"}
  BY <1>1, AdvanceLeft
<1> QED BY <1>1, <1>2, <1>3, <1>4, OuterKept, OverrideKept, ExportedKept DEF ExportInv

(* Two lines end in one node only where its export is put off.              *)
LEMMA EndConsumes ==
  ASSUME Ground, NEW k \in DOMAIN chains, chains[k].iface \in Handled
  PROVE  Consumes(End(k), k)
<1>1. Len(chains[k].nodes) > 1
  BY DEF Ground, ShapeInv, Shaped
<1> QED BY <1>1, ChainFacts DEF Ground, Consumes, End

LEMMA EndUnhandled ==
  ASSUME Ground, NEW k \in DOMAIN chains, chains[k].iface \notin Handled
  PROVE  /\ exports[chains[k].iface] = End(k) /\ Len(chains[k].nodes) = 1 /\ Outer(k, 1) = Host
         /\ chains[k].nodes[1] = End(k)
<1>1. chains[k].nodes = <<exports[chains[k].iface]>>
  BY DEF Ground, ShapeInv, Shaped
<1>2. Len(chains[k].nodes) = 1 /\ chains[k].nodes[1] = exports[chains[k].iface]
  BY <1>1
<1> QED BY <1>2 DEF End, Outer

LEMMA EndsAlone ==
  ASSUME Ground, OrdinaryExports, NEW j \in DOMAIN chains, NEW k \in DOMAIN chains, End(j) = End(k),
         exports[chains[k].iface] = End(k), End(k) \notin FanIn
  PROVE  j = k \/ j < k
<1>1. End(k) \in Nodes /\ End(k) # Host /\ chains[j].iface \in Ifaces /\ chains[k].iface \in Ifaces
  BY ChainFacts, HostIsNoNode DEF Ground
<1>2. CASE exports[chains[j].iface] = End(k)
  <2>1. chains[j].iface = chains[k].iface
    BY <1>1, <1>2 DEF OrdinaryExports
  <2> QED BY <2>1 DEF Ground, ChainsInv
<1>3. CASE exports[chains[j].iface] # End(k)
  <2>1. chains[j].iface \in Handled
    BY <1>3, EndUnhandled
  <2>2. CASE chains[k].iface \in Handled
    BY <1>1, <2>1, <2>2, EndConsumes DEF FanIn
  <2>3. CASE chains[k].iface \notin Handled
    BY <2>1, <2>3 DEF Ground, ShapeInv, Shaped
  <2> QED BY <2>2, <2>3
<1> QED BY <1>2, <1>3

LEMMA LeaveExport == ASSUME Ground, SpliceInv, ExportInv, OrdinaryExports, Leave PROVE ExportInv'
<1>1. /\ pc = "inject" /\ ~IsFanInLast /\ Advance /\ UNCHANGED <<input, chains, wac, deferred, overrides, exported>>
      /\ outer' = IF IsLast THEN [outer EXCEPT ![Node] = wac.last] ELSE outer
      /\ outer \in [Nodes -> Variables \union {None}]
  BY DEF Leave, planned, Ground, Inv, Types
<1>2. Extends(wac, wac') /\ WiresKept(wac, wac')
  BY <1>1, StayWires
<1>3. /\ Node \in Nodes /\ Node \notin FanIn /\ at[1] \in DOMAIN chains /\ at[1] \in Nat
      /\ Chain = chains[at[1]] /\ (IsLast => Node = End(at[1]) /\ Outer(at[1], at[2]) = Host)
  BY <1>1, WalkingAt, PlacedPlain
<1>4. /\ \A k \in DOMAIN chains : Left(k)' => Left(k) \/ (k = at[1] /\ IsLast)
      /\ pc' \in {"walk", "fanin"}
  BY <1>1, AdvanceLeft
<1>5. OverrideInv'
  BY <1>1, <1>2, <1>3, <1>4, OverrideKept DEF ExportInv
<1>6. ExportedInv'
  BY <1>1, <1>4, NothingExported DEF ExportInv
<1>7. CASE ~IsLast
  BY <1>1, <1>2, <1>4, <1>5, <1>6, <1>7, OuterKept DEF ExportInv
<1>8. CASE IsLast
  <2>1. /\ FanIn' = FanIn /\ (\A k : End(k)' = End(k)) /\ FanIn \subseteq Nodes
        /\ outer'[Node] = wac.last /\ \A n \in Nodes \ {Node} : outer'[n] = outer[n]
    BY <1>1, <1>3, <1>8, FanInKept, EndKept DEF FanIn
  <2>2. \A v, i, n : Spliced(wac, v, i, n, Host)' <=> Spliced(wac, v, i, n, Host)
    BY <1>1, SplicedSame
  <2>3. ASSUME NEW k \in DOMAIN chains, exports[chains[k].iface] = End(k), Left(k)', End(k) \notin FanIn
        PROVE  Spliced(wac, outer'[End(k)], chains[k].iface, End(k), Host)
    <3>1. CASE k = at[1]
      BY <1>3, <1>8, <2>1, <3>1, LeftSpliced DEF SpliceInv
    <3>2. CASE k # at[1]
      <4>1. Left(k) /\ k < at[1] /\ k \in Nat
        BY <1>1, <1>4, <2>3, <3>2, ChainFacts DEF Left, Passed, Ground
      <4>2. End(k) # Node
        BY <1>3, <1>8, <2>3, <3>2, <4>1, EndsAlone
      <4>3. outer'[End(k)] = outer[End(k)]
        BY <2>1, <4>2, ChainFacts DEF Ground
      <4> QED BY <2>3, <4>1, <4>3 DEF ExportInv, OuterInv
    <3> QED BY <3>1, <3>2
  <2>4. \A n \in FanIn : outer'[n] # None => outer'[n] = wac'.inst[n]
    BY <1>1, <1>3, <2>1 DEF ExportInv, OuterInv
  <2>5. \A k \in DOMAIN chains' :
          exports'[chains'[k].iface] = End(k)' /\ Left(k)' /\ End(k)' \notin FanIn' =>
            Spliced(wac, outer'[End(k)], chains[k].iface, End(k), Host)
    BY <1>1, <2>1, <2>3 DEF input
  <2>6. \A k : \A v, i, n : v = outer'[End(k)] /\ i = chains[k].iface /\ n = End(k) =>
          (Spliced(wac, v, i, n, Host)' <=> Spliced(wac, outer'[End(k)], chains[k].iface, End(k), Host))
    BY <2>2
  <2>7. OuterInv'
    BY <1>1, <2>1, <2>4, <2>5, <2>6 DEF OuterInv
  <2> QED BY <1>5, <1>6, <2>7 DEF ExportInv
<1> QED BY <1>7, <1>8

LEMMA InstantiateFanInExport ==
  ASSUME Ground, ExportInv, NEW n \in Nodes, InstantiateFanIn(n)
  PROVE  ExportInv'
<1>1. /\ pc = "fanin" /\ pc' = pc /\ UNCHANGED <<input, at, chains, deferred, overrides, exported>>
      /\ outer \in [Nodes -> Variables \union {None}]
  BY DEF InstantiateFanIn, planned, Ground, Inv, Types
<1>2. /\ n \in FanIn /\ outer' = [outer EXCEPT ![n] = NodeVar(n)] /\ wac'.inst[n] = NodeVar(n)
      /\ \A m \in Nodes \ {n} : wac'.inst[m] = wac.inst[m]
      /\ Extends(wac, wac') /\ WiresKept(wac, wac')
  BY InstantiateFanInWires
<1>3. outer'[n] = NodeVar(n) /\ \A m \in Nodes \ {n} : outer'[m] = outer[m]
  BY <1>1, <1>2
<1>4. \A k : Left(k)' <=> Left(k)
  BY <1>1 DEF Left, Passed
<1>5. OverrideInv' /\ ExportedInv'
  BY <1>1, <1>2, <1>4, OverrideKept, ExportedKept DEF ExportInv
<1>6. FanIn' = FanIn /\ (\A k : End(k)' = End(k)) /\ FanIn \subseteq Nodes
  BY <1>1, FanInKept, EndKept DEF FanIn
<1>7. \A m \in FanIn : outer'[m] # None => outer'[m] = wac'.inst[m]
  BY <1>2, <1>3, <1>6 DEF ExportInv, OuterInv
<1>8. ASSUME NEW k \in DOMAIN chains, exports[chains[k].iface] = End(k), Left(k), End(k) \notin FanIn
      PROVE  \A v, i, m : v = outer'[End(k)] /\ i = chains[k].iface /\ m = End(k) => Spliced(wac, v, i, m, Host)'
  <2>1. End(k) \in Nodes /\ outer'[End(k)] = outer[End(k)]
    BY <1>2, <1>3, <1>8, ChainFacts DEF Ground
  <2>2. Spliced(wac, outer[End(k)], chains[k].iface, End(k), Host)
    BY <1>8 DEF ExportInv, OuterInv
  <2> QED BY <1>1, <1>2, <2>1, <2>2, SplicedKept
<1>9. \A k \in DOMAIN chains' : exports'[chains'[k].iface] = End(k)' /\ Left(k)' /\ End(k)' \notin FanIn' =>
        Spliced(wac, outer[End(k)], chains[k].iface, End(k), Host)'
  BY <1>1, <1>4, <1>6, <1>8 DEF input
<1>10. OuterInv'
  BY <1>1, <1>6, <1>7, <1>9 DEF OuterInv
<1> QED BY <1>5, <1>10 DEF ExportInv

LEMMA StartDrainExport == ASSUME Ground, ExportInv, StartDrain PROVE ExportInv'
<1>1. pc = "fanin" /\ UNCHANGED <<input, at, chains, outer, deferred, overrides, exported>>
  BY DEF StartDrain, planned, routes
<1>2. pc' = "drain" /\ Extends(wac, wac') /\ WiresKept(wac, wac')
  BY StartDrainWires
<1>3. \A k : Left(k)' => Left(k)
  BY <1>1 DEF Left, Passed
<1> QED BY <1>1, <1>2, <1>3, ExportKept

(* The first that was put off comes in; the others stay put off.            *)
LEMMA FinishDrainExport == ASSUME Ground, SpliceInv, ExportInv, FinishDrain PROVE ExportInv'
<1> DEFINE d == Head(deferred)
           o == [node |-> d.node, iface |-> d.iface, var |-> wac.last]
<1>1. /\ pc = "drain" /\ todo = <<>> /\ pc' = "fanin" /\ overrides' = overrides \union {o}
      /\ deferred' = Tail(deferred) /\ UNCHANGED <<input, at, chains, wac, outer, exported>>
      /\ deferred \in Seq(InjectType) /\ deferred # <<>>
  BY DEF FinishDrain, planned, Ground, Inv, Types, CursorInv
<1>2. /\ d \in InjectType /\ 1 \in DOMAIN deferred /\ deferred[1] = d
      /\ \A e \in DOMAIN deferred' : e + 1 \in DOMAIN deferred /\ deferred'[e] = deferred[e + 1]
      /\ \A e \in DOMAIN deferred : e = 1 \/ (e - 1 \in DOMAIN deferred' /\ deferred'[e - 1] = deferred[e])
  BY <1>1
<1>3. Extends(wac, wac') /\ WiresKept(wac, wac')
  BY <1>1, StayWires
<1>4. \A k : Left(k)' => Left(k)
  BY <1>1 DEF Left, Passed
<1>5. OuterInv' /\ ExportedInv'
  BY <1>1, <1>3, <1>4, OuterKept, NothingExported DEF ExportInv
<1>6. Spliced(wac, wac.last, d.iface, d.node, Host)
  <2>1. d.mdls = Requested(d.iface, d.node, Host) /\ d.node \in Nodes /\ d.mdls \in Seq(Mdls)
    BY <1>2 DEF ExportInv, OverrideInv, InjectType
  <2>2. InHand(wac, <<>>, d.iface, d.mdls, wac.inst[d.node])
    BY <1>1 DEF SpliceInv, HandInv
  <2> HIDE DEF d
  <2> QED BY <2>1, <2>2, InHandDone
<1> HIDE DEF d
<1>7. o.node = d.node /\ o.iface = d.iface /\ o.var = wac.last
  OBVIOUS
<1> HIDE DEF o
<1>8. /\ FanIn' = FanIn /\ (\A k : End(k)' = End(k)) /\ Handled' = Handled
      /\ \A k, p : PlanAt(k, p)' = PlanAt(k, p)
  BY <1>1, FanInKept, EndKept, GraphKept DEF input
<1>9. \A i, p, q : Requested(i, p, q)' = Requested(i, p, q)
  BY <1>1, RequestedKept DEF Requested, input
<1>10. \A v, i, n : Spliced(wac, v, i, n, Host)' <=> Spliced(wac, v, i, n, Host)
  BY <1>1, SplicedSame
<1>11. \A e \in DOMAIN deferred' : deferred'[e].mdls = Requested(deferred'[e].iface, deferred'[e].node, Host)
  BY <1>2 DEF ExportInv, OverrideInv
<1>12. \A e \in overrides' : Spliced(wac, e.var, e.iface, e.node, Host)
  BY <1>1, <1>6, <1>7 DEF ExportInv, OverrideInv
<1>13. \A n, i : Overriding(n, i) \subseteq Overriding(n, i)'
  BY <1>1 DEF Overriding
<1>14. \A n, i : n = d.node /\ i = d.iface => o \in Overriding(n, i)'
  BY <1>1, <1>7 DEF Overriding
<1>15. ASSUME NEW k \in DOMAIN chains, chains[k].iface \notin Handled, End(k) \in FanIn, Left(k)'
       PROVE  \/ PlanAt(k, 1) = <<>>
              \/ \E e \in DOMAIN deferred' : deferred'[e].node = End(k) /\ deferred'[e].iface = chains[k].iface
              \/ \A n, i : n = End(k) /\ i = chains[k].iface => Overriding(n, i)' # {}
  <2>1. CASE \E e \in DOMAIN deferred : deferred[e].node = End(k) /\ deferred[e].iface = chains[k].iface
    <3>1. PICK e \in DOMAIN deferred : deferred[e].node = End(k) /\ deferred[e].iface = chains[k].iface
      BY <2>1
    <3>2. CASE e = 1
      BY <1>2, <1>14, <3>1, <3>2
    <3>3. CASE e # 1
      BY <1>2, <3>1, <3>3
    <3> QED BY <3>2, <3>3
  <2>2. CASE Overriding(End(k), chains[k].iface) # {}
    BY <1>13, <2>2
  <2> QED BY <1>4, <1>15, <2>1, <2>2 DEF ExportInv, OverrideInv
<1>16. \A k \in DOMAIN chains : chains[k].iface \notin Handled /\ End(k) \in FanIn /\ Left(k)' =>
         \/ PlanAt(k, 1) = <<>>
         \/ \E e \in DOMAIN deferred' : deferred'[e].node = End(k) /\ deferred'[e].iface = chains[k].iface
         \/ Overriding(End(k), chains[k].iface)' # {}
  BY <1>1, <1>8, <1>15
<1>17. OverrideInv'
  BY <1>1, <1>8, <1>9, <1>10, <1>11, <1>12, <1>16 DEF OverrideInv
<1> QED BY <1>5, <1>17 DEF ExportInv

LEMMA StartExportsExport == ASSUME Ground, ExportInv, StartExports PROVE ExportInv'
<1>1. /\ pc = "fanin" /\ deferred = <<>> /\ at' = <<1, 1>> /\ pc' = "exports"
      /\ UNCHANGED <<input, chains, wac, outer, deferred, overrides, exported>>
  BY DEF StartExports, planned, routes
<1>2. Extends(wac, wac') /\ WiresKept(wac, wac')
  BY <1>1, StayWires
<1>3. \A k : Left(k)' => Left(k)
  BY <1>1 DEF Left, Passed
<1>4. OuterInv' /\ OverrideInv'
  BY <1>1, <1>2, <1>3, OuterKept, OverrideKept DEF ExportInv
<1>5. \A v, i, n : Spliced(wac, v, i, n, Host)' <=> Spliced(wac, v, i, n, Host)
  BY <1>1, SplicedSame
<1>6. \A a \in DOMAIN IfaceOrder : ~(a < at'[1])
  BY <1>1, SizesAssumption
<1>7. ExportedInv'
  BY <1>1, <1>5, <1>6 DEF ExportInv, ExportedInv, input
<1> QED BY <1>4, <1>7 DEF ExportInv

(* What is spliced is a variable of the script.                             *)
LEMMA SplicedIsSome ==
  ASSUME Ground, NEW v, NEW i \in Ifaces, NEW p, NEW q, Requested(i, p, q) \in Seq(Mdls), Spliced(wac, v, i, p, q)
  PROVE  v # None
<1> DEFINE ms == Requested(i, p, q)
           u  == wac.inst[Resolve(p)]
<1>1. ms \in Seq(Mdls) /\ Len(ms) \in Nat /\ u # None /\ v = Stage(i, ms, u, 1)
  BY DEF Spliced
<1> HIDE DEF ms, u
<1>2. 1 > Len(ms) \/ ms[1] \in Mdls
  BY <1>1
<1>3. CASE 1 > Len(ms)
  BY <1>1, <1>3 DEF Stage
<1>4. CASE ~(1 > Len(ms))
  BY <1>1, <1>2, <1>4, VariableTypes, NoneAssumption DEF Stage
<1> QED BY <1>3, <1>4

(* When the export pass runs, what is exported is known, with what is asked *)
(* for in front of it, or an override says so.                              *)
LEMMA ExportFound ==
  ASSUME Ground, SpliceInv, ExportInv, OrdinaryExports, pc = "exports", NEW i \in Ifaces, exports[i] # Host
  PROVE  /\ exports[i] \in Nodes /\ Resolve(exports[i]) = exports[i] /\ outer[exports[i]] # None
         /\ Overriding(exports[i], i) = {} => Spliced(wac, outer[exports[i]], i, exports[i], Host)
<1>1. exports[i] \in Nodes /\ Resolve(exports[i]) = exports[i]
  <2>1. exports[i] \in Nodes
    BY DEF Ground, Inv, Types
  <2> QED BY <2>1, NoShims
<1>2. PICK k \in DOMAIN chains : chains[k].iface = i
  BY DEF Ground, ShapeInv, Scanned, Planned
<1>3. End(k) = exports[i] /\ Left(k)
  <2>1. Left(k)
    BY DEF Left, Passed
  <2>2. CASE i \in Handled
    <3>1. End(k) \in Ends(i)
      BY <1>2, <2>2 DEF Ground, ShapeInv, Shaped, End
    <3>2. exports[i] \in Ends(i)
      BY <2>2 DEF OrdinaryExports
    <3> QED BY <2>1, <3>1, <3>2 DEF Ground, Ordinary, Lined
  <2>3. CASE i \notin Handled
    BY <1>2, <2>1, <2>3, EndUnhandled
  <2> QED BY <2>2, <2>3
<1>4. CASE exports[i] \in FanIn
  <2>1. wac.inst[exports[i]] # None /\ outer[exports[i]] # None /\ outer[exports[i]] = wac.inst[exports[i]]
    BY <1>4 DEF Ground, LetsInv, MadeInv, ExportInv, OuterInv
  <2>2. ASSUME Overriding(exports[i], i) = {} PROVE Requested(i, exports[i], Host) = <<>>
    <3>1. CASE i \in Handled
      <4>1. Len(chains[k].nodes) > 1 /\ Len(chains[k].nodes) \in DOMAIN chains[k].nodes
        BY <1>2, <3>1, ChainFacts DEF Ground, ShapeInv, Shaped
      <4>2. i \in Internal(exports[i])
        BY <1>2, <1>3, <4>1, Behind DEF Ground, End
      <4> QED BY <1>4, <4>2, FanInUnasked
    <3>2. CASE i \notin Handled
      <4>1. Outer(k, 1) = Host /\ chains[k].nodes[1] = exports[i] /\ 1 \in DOMAIN chains[k].nodes
        BY <1>2, <1>3, <3>2, EndUnhandled, ChainFacts DEF Ground
      <4>2. PlanAt(k, 1) = Requested(i, exports[i], Host)
        BY <1>2, <4>1, PlanIsRequested
      <4>3. deferred = <<>>
        BY DEF ExportInv, ExportedInv
      <4>4. PlanAt(k, 1) = <<>>
        BY <1>2, <1>3, <1>4, <2>2, <3>2, <4>3 DEF ExportInv, OverrideInv
      <4> QED BY <4>2, <4>4
    <3> QED BY <3>1, <3>2
  <2> QED BY <1>1, <2>1, <2>2, UnaskedSpliced
<1>5. CASE exports[i] \notin FanIn
  <2>1. Spliced(wac, outer[exports[i]], i, exports[i], Host)
    BY <1>2, <1>3, <1>5 DEF ExportInv, OuterInv
  <2>2. Requested(i, exports[i], Host) \in Seq(Mdls)
    <3>1. Len(chains[k].nodes) \in DOMAIN chains[k].nodes /\ Outer(k, Len(chains[k].nodes)) = Host
      BY ChainFacts DEF Ground, Outer
    <3> QED BY <1>2, <1>3, <3>1, PlanIsRequested DEF End
  <2> QED BY <1>1, <2>1, <2>2, SplicedIsSome
<1> QED BY <1>4, <1>5

LEMMA EmitExportExport ==
  ASSUME Ground, SpliceInv, ExportInv, OrdinaryExports, NEW i \in Ifaces, EmitExport(i)
  PROVE  ExportInv'
<1>1. /\ pc = "exports" /\ pc' = pc /\ i = IfaceOrder[at[1]] /\ at' = <<at[1] + 1, 1>>
      /\ UNCHANGED <<input, chains, outer, deferred, overrides>>
      /\ at[1] \in Nat /\ exported \in [Ifaces -> Variables \union {None}]
  BY DEF EmitExport, planned, Ground, Inv, Types
<1>2. /\ UNCHANGED wac /\ (exports[i] = Host => UNCHANGED exported)
      /\ exports[i] # Host => \E v :
           exported' = [exported EXCEPT ![i] = v] /\ v # None /\ Spliced(wac, v, i, exports[i], Host)
  <2>1. CASE exports[i] = Host
    <3>1. Skipped(i)
      BY <2>1 DEF Skipped
    <3> QED BY <2>1, <3>1 DEF EmitExport
  <2>2. CASE exports[i] # Host
    <3>1. /\ exports[i] \in Nodes /\ Resolve(exports[i]) = exports[i] /\ outer[exports[i]] # None
          /\ Overriding(exports[i], i) = {} => Spliced(wac, outer[exports[i]], i, exports[i], Host)
      BY <1>1, <2>2, ExportFound
    <3>2. ~Skipped(i)
      BY <2>2, <3>1 DEF Skipped
    <3>3. \/ /\ Overriding(exports[i], i) # {} /\ UNCHANGED wac
             /\ \E o \in Overriding(exports[i], i) : exported' = [exported EXCEPT ![i] = o.var]
          \/ /\ Overriding(exports[i], i) = {} /\ UNCHANGED wac
             /\ exported' = [exported EXCEPT ![i] = outer[exports[i]]]
      BY <3>1, <3>2 DEF EmitExport
    <3>4. \A o \in Overriding(exports[i], i) : o.var # None /\ Spliced(wac, o.var, i, exports[i], Host)
      <4>1. overrides \in SUBSET OverrideType
        BY DEF Ground, Inv, Types
      <4> QED BY <4>1, NoneAssumption DEF Overriding, OverrideType, ExportInv, OverrideInv
    <3> QED BY <2>2, <3>1, <3>3, <3>4
  <2> QED BY <2>1, <2>2
<1>3. Extends(wac, wac') /\ WiresKept(wac, wac')
  BY <1>2, StayWires
<1>4. \A k : Left(k)' => Left(k)
  BY <1>1 DEF Left, Passed
<1>5. OuterInv' /\ OverrideInv'
  BY <1>1, <1>3, <1>4, OuterKept, OverrideKept DEF ExportInv
<1>6. /\ \A j \in Ifaces \ {i} : exported'[j] = exported[j]
      /\ exports[i] # Host => exported'[i] # None
      /\ exported'[i] # None => exports[i] # Host /\ Spliced(wac, exported'[i], i, exports[i], Host)
  BY <1>1, <1>2 DEF ExportInv, ExportedInv
<1>7. \A j \in Ifaces : exported'[j] # None => exports[j] # Host /\ Spliced(wac, exported'[j], j, exports[j], Host)
  BY <1>6 DEF ExportInv, ExportedInv
<1>8. \A v, j, n : Spliced(wac, v, j, n, Host)' <=> Spliced(wac, v, j, n, Host)
  BY <1>1, <1>2, SplicedSame
<1>9. \A j \in Ifaces : exported'[j] # None => exports[j] # Host /\ Spliced(wac, exported[j], j, exports[j], Host)'
  <2> SUFFICES ASSUME NEW j \in Ifaces, exported'[j] # None
               PROVE  exports[j] # Host /\ Spliced(wac, exported[j], j, exports[j], Host)'
    OBVIOUS
  <2>1. \A v, n : v = exported'[j] /\ n = exports[j] => Spliced(wac, v, j, n, Host)'
    BY <1>7, <1>8
  <2> QED BY <1>1, <1>7, <2>1 DEF input
<1>10. ASSUME NEW a \in DOMAIN IfaceOrder, exports[IfaceOrder[a]] # Host, a < at[1] + 1
       PROVE  exported'[IfaceOrder[a]] # None
  <2>1. IfaceOrder[a] \in Ifaces /\ (a = at[1] \/ a < at[1])
    BY <1>1, <1>10, SizesAssumption DEF Ifaces
  <2>2. CASE IfaceOrder[a] = i
    BY <1>6, <1>10, <2>2
  <2>3. CASE IfaceOrder[a] # i
    BY <1>1, <1>6, <1>10, <2>1, <2>3 DEF ExportInv, ExportedInv
  <2> QED BY <2>2, <2>3
<1>11. ExportedInv'
  BY <1>1, <1>9, <1>10 DEF ExportInv, ExportedInv, input
<1> QED BY <1>5, <1>11 DEF ExportInv

LEMMA FinishExport == ASSUME Ground, ExportInv, Finish PROVE ExportInv'
<1>1. /\ pc = "exports" /\ pc' = "done" /\ at[1] > Len(IfaceOrder)
      /\ UNCHANGED <<input, at, chains, wac, outer, deferred, overrides, exported>>
      /\ at[1] \in Nat
  BY DEF Finish, planned, routes, Ground, Inv, Types
<1>2. Extends(wac, wac') /\ WiresKept(wac, wac')
  BY <1>1, StayWires
<1>3. \A k : Left(k)' => Left(k)
  BY <1>1 DEF Left, Passed
<1>4. OuterInv' /\ OverrideInv'
  BY <1>1, <1>2, <1>3, OuterKept, OverrideKept DEF ExportInv
<1>5. \A v, i, n : Spliced(wac, v, i, n, Host)' <=> Spliced(wac, v, i, n, Host)
  BY <1>1, SplicedSame
<1>6. \A a \in DOMAIN IfaceOrder : a < at[1]
  BY <1>1, SizesAssumption
<1>7. ExportedInv'
  BY <1>1, <1>5, <1>6 DEF ExportInv, ExportedInv, input
<1> QED BY <1>4, <1>7 DEF ExportInv

LEMMA ExportStep == ASSUME Ground, SpliceInv, ExportInv, OrdinaryExports, [Next]_vars PROVE ExportInv'
<1>1. CASE SkipImport \/ StartChain \/ GrowChain \/ CloseChain \/ Standalone \/ ApplyRule \/ RulesApplied
  <2>1. /\ pc \in {"chains", "rules"} /\ pc' \in {"chains", "rules", "providers"}
        /\ UNCHANGED <<input, wac, todo, routes>>
    BY <1>1 DEF SkipImport, StartChain, GrowChain, CloseChain, Standalone, ApplyRule, RulesApplied, NextImport
  <2> QED BY <2>1, EarlyExport
<1>2. CASE (\E n \in Nodes : PreInstantiate(n)) \/ StartWalk \/ Place \/ ReachFanIn \/ InjectNext
  BY <1>2, BuildersExport
<1>3. CASE DeferInject \/ LeaveFanIn \/ Leave
  BY <1>3, DeferInjectExport, LeaveFanInExport, LeaveExport
<1>4. CASE (\E n \in Nodes : InstantiateFanIn(n)) \/ StartDrain \/ FinishDrain
  BY <1>4, InstantiateFanInExport, StartDrainExport, FinishDrainExport
<1>5. CASE StartExports \/ (\E i \in Ifaces : EmitExport(i)) \/ Finish
  BY <1>5, StartExportsExport, EmitExportExport, FinishExport
<1>6. CASE Terminated \/ UNCHANGED vars
  <2>1. /\ UNCHANGED <<input, chains, wac, outer, deferred, overrides, exported, pc, at>>
    BY <1>6 DEF Terminated, vars, input
  <2>2. \A k : Left(k)' => Left(k)
    BY <2>1 DEF Left, Passed
  <2> QED BY <2>1, <2>2, StayWires, ExportKept
<1> QED BY <1>1, <1>2, <1>3, <1>4, <1>5, <1>6 DEF Next

LEMMA InitExport == Init => ExportInv
<1> SUFFICES ASSUME Init PROVE ExportInv
  OBVIOUS
<1>1. /\ pc = "chains" /\ chains = <<>> /\ deferred = <<>> /\ overrides = {}
      /\ (\A n \in Nodes : outer[n] = None) /\ \A i \in Ifaces : exported[i] = None
  BY DEF Init
<1> QED BY <1>1 DEF ExportInv, OuterInv, OverrideInv, ExportedInv, FanIn

-----------------------------------------------------------------------------
(* The splices and the exports, on every composition they are kept on.      *)
Regular ==
  /\ Inv /\ InputInv /\ ChainsInv /\ ShapeInv /\ PlansInv
  /\ Ordinary => LetsInv /\ SpliceInv
  /\ Ordinary /\ OrdinaryExports => ExportInv

LEMMA InitRegular == Init => Regular
BY InitInv, InitLets, InitShape, InitPlans, InitSplice, InitExport DEF Regular

LEMMA RegularStep == ASSUME Regular, [Next]_vars PROVE Regular'
<1>1. Inv' /\ InputInv' /\ ChainsInv' /\ ShapeInv' /\ PlansInv' /\ UNCHANGED input
  BY NextInv, InputStep, ChainsStep, ShapeStep, PlansStep DEF Regular
<1>2. (Ordinary' <=> Ordinary) /\ (OrdinaryExports' <=> OrdinaryExports)
  BY <1>1 DEF input, Ordinary, Lined, Ends, FanInsEnd, ProvidersNamed, FanInsUnnamed, OrdinaryExports,
              Internal, Handled
<1>3. Ordinary => LetsInv'
  BY LetsStep DEF Regular, Ordinary
<1>4. Ordinary => SpliceInv'
  BY SpliceStep DEF Regular, Ground
<1>5. Ordinary /\ OrdinaryExports => ExportInv'
  BY ExportStep DEF Regular, Ground
<1> QED BY <1>1, <1>2, <1>3, <1>4, <1>5 DEF Regular

LEMMA SpecRegular == Spec => []Regular
<1>1. Regular /\ [Next]_vars => Regular'
  BY RegularStep
<1> QED BY InitRegular, <1>1, PTL DEF Spec

(* After the rules, the plan of a chain position is what the rules ask for  *)
(* there, in declaration order: apply_rule_before and apply_rule_between    *)
(* leave no rule out and add none, whatever the graph.                      *)
PlansRequested ==
  pc \notin {"chains", "rules"} => \A k \in DOMAIN chains : \A p \in DOMAIN chains[k].nodes :
    PlanAt(k, p) = Requested(chains[k].iface, chains[k].nodes[p], Outer(k, p))
THEOREM PlansAreRequested == Spec => []PlansRequested
<1>1. Regular => PlansRequested
  BY DEF Regular, PlansInv, PlansRequested, Applied, AskedAt, Requested
<1> QED BY <1>1, SpecRegular, PTL

(* generate_wac gives every edge of the composition back, through exactly   *)
(* the middleware the rules ask for on it, the first one declared outermost *)
(* and each wired to the next: for every ordinary graph and every rules.    *)
THEOREM RegularEdgesSplicedHolds == Spec => []RegularEdgesSpliced
<1>1. ASSUME Regular, Ordinary, pc = "done", NEW n \in Nodes, NEW i \in Internal(n)
      PROVE  \E v \in Variables : Wired(wac, wac.inst[n], i, v) /\ Spliced(wac, v, i, imports[n][i], n)
  <2>1. Ground /\ SpliceInv
    BY <1>1 DEF Regular, Ground
  <2>2. wac.inst[n] # None
    <3>1. PICK k \in DOMAIN chains : \E p \in DOMAIN chains[k].nodes : p > 1 /\ chains[k].nodes[p] = n
      BY <1>1, <2>1, StandsAt
    <3>2. PICK p \in DOMAIN chains[k].nodes : p > 1 /\ chains[k].nodes[p] = n
      BY <3>1
    <3>3. Passed(k, p)
      BY <1>1 DEF Passed
    <3>4. CASE n \in FanIn
      BY <1>1, <2>1, <3>4 DEF Ground, LetsInv, MadeInv
    <3>5. CASE n \notin FanIn
      BY <2>1, <3>2, <3>3, <3>5, PassedMade
    <3> QED BY <3>4, <3>5
  <2> QED BY <2>1, <2>2 DEF SpliceInv, WiredInv, Ready
<1>2. Regular => RegularEdgesSpliced
  BY <1>1 DEF RegularEdgesSpliced, EdgesSpliced
<1> QED BY <1>2, SpecRegular, PTL

(* ... and every export, with the middleware of the before-rules in front   *)
(* of it, where the exports are ordinary: none is skipped as a shim's, and  *)
(* those put off until after the fan-in pass are not lost.                  *)
THEOREM RegularExportsSplicedHolds == Spec => []RegularExportsSpliced
<1>1. ASSUME Regular, Ordinary, OrdinaryExports, pc = "done", NEW i \in Ifaces, exports[i] # Host
      PROVE  exported[i] # None /\ Spliced(wac, exported[i], i, exports[i], Host)
  <2>1. ExportedInv
    BY <1>1 DEF Regular, ExportInv
  <2>2. PICK a \in DOMAIN IfaceOrder : i = IfaceOrder[a]
    BY DEF Ifaces
  <2>3. exported[i] # None
    BY <1>1, <2>1, <2>2 DEF ExportedInv
  <2> QED BY <2>1, <2>3 DEF ExportedInv
<1>2. Regular => RegularExportsSpliced
  BY <1>1 DEF RegularExportsSpliced, ExportsSpliced
<1> QED BY <1>2, SpecRegular, PTL
=============================================================================
