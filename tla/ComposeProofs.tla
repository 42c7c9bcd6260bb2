--------------------------- MODULE ComposeProofs ---------------------------
(***************************************************************************)
(* Proofs about Compose, for any number of components, interfaces, names   *)
(* and fingerprints.                                                       *)
(***************************************************************************)
EXTENDS Compose, FiniteSetTheorems, WellFoundedInduction, TLAPS

USE DEF Comps, Prints, Kinds   \* constants

(* A loop stays within the components and goes from its phase to the next.  *)
LEMMA LoopType ==
  ASSUME NEW phase, NEW after, at \in Comps, LoopIn(phase, after)
  PROVE  at' \in Comps /\ pc' \in {phase, after}
BY SizeAssumption DEF LoopIn, Comps

(* Appending to a sequence, and taking its head, stay within its elements.  *)
LEMMA SeqType ==
  ASSUME NEW S, NEW s \in Seq(S)
  PROVE  /\ \A x \in S : Append(s, x) \in Seq(S)
         /\ s # <<>> => Head(s) \in S /\ Tail(s) \in Seq(S)
OBVIOUS

(* A sequence is a function on its places.                                  *)
LEMMA SeqFunction ==
  ASSUME NEW S, NEW s \in Seq(S)
  PROVE  s \in [1..Len(s) -> S] /\ Len(s) \in Nat
OBVIOUS

-----------------------------------------------------------------------------
(* Type correctness.  The graph's type needs the sort and comes last.       *)
TypeStart == pc = "names" => at = 1
TypeInv == LoopsType /\ TypeStart

(* The initial state is well typed.                                         *)
LEMMA TypeInit == Init => TypeInv
<1> SUFFICES ASSUME Init PROVE TypeInv
  OBVIOUS
<1>1. 1 \in Comps
  BY SizeAssumption DEF Comps
<1>2. /\ name \in [Comps -> Names]
      /\ exports \in [Comps -> [Ifaces -> Prints]] /\ imports \in [Comps -> [Ifaces -> Prints]]
  BY InputsAssumption DEF Init
<1> QED BY <1>1, <1>2, SizeAssumption DEF Init, TypeInv, LoopsType, TypeStart, Comps

(* Bailing out keeps the types.                                             *)
LEMMA BailType == ASSUME TypeInv, NEW why \in Kinds,
                         Bail(why)
                  PROVE  TypeInv'
<1>1. at \in 1..NumComps + 1
  BY DEF TypeInv, LoopsType
<1> QED BY <1>1 DEF TypeInv, LoopsType, TypeStart, Bail, given, sort, made, Comps, Prints

(* Every step keeps the types.                                              *)
LEMMA TypeStep == TypeInv /\ [Next]_vars => TypeInv'
<1> SUFFICES ASSUME TypeInv, [Next]_vars PROVE TypeInv'
  OBVIOUS
<1> USE DEF TypeInv
<1>0. 1 \in Comps /\ Comps \subseteq 1..NumComps + 1
  BY SizeAssumption DEF Comps
<1>1. CASE CheckNames
  BY <1>1, BailType DEF CheckNames, LoopsType, TypeStart, given, sort, made, Comps
<1>2. CASE IndexExports
  <2>1. CASE Bail("ambiguous")
    BY <2>1, BailType
  <2>2. CASE ~Bail("ambiguous")
    <3>1. at \in Comps /\ at' = at + 1 /\ at' \in 1..NumComps + 1
      BY <1>2, <2>2, SizeAssumption DEF IndexExports, LoopsType, Comps
    <3>2. index' \in [Ifaces -> Comps \union {None}] /\ \A i \in Ifaces : index[i] # None => index'[i] # None
      BY <1>2, <2>2, <3>1, NoneAssumption DEF IndexExports, LoopsType, Comps
    <3>3. resolved' \in [Comps -> SUBSET {i \in Ifaces : index'[i] # None}]
      BY <1>2, <2>2, <3>2 DEF IndexExports, LoopsType
    <3> QED BY <1>2, <2>2, <3>1, <3>2, <3>3 DEF IndexExports, LoopsType, TypeStart, given, sort, made
  <2> QED BY <2>1, <2>2
<1>3. CASE StartResolve
  <2>1. pending' \in SUBSET Ifaces
    BY <1>3 DEF StartResolve, Imported
  <2> QED BY <1>0, <1>3, <2>1 DEF StartResolve, LoopsType, TypeStart, given, sort, made
<1>4. ASSUME NEW i \in Ifaces, ResolveImport(i)
      PROVE  TypeInv'
  <2>1. CASE Bail("self") \/ Bail("types")
    BY <2>1, BailType
  <2>2. CASE ~(Bail("self") \/ Bail("types"))
    <3>1. at \in Comps
      BY <1>4 DEF ResolveImport, LoopsType
    <3>2. /\ pending' = pending \ {i}
          /\ UNCHANGED <<given, pc, at, index, sort, made, error>>
          /\ resolved' = IF Resolved(i) THEN [resolved EXCEPT ![at] = @ \union {i}] ELSE resolved
      BY <1>4, <2>2 DEF ResolveImport
    <3>3. resolved' \in [Comps -> SUBSET {j \in Ifaces : index[j] # None}]
      BY <3>1, <3>2 DEF LoopsType, Resolved
    <3> QED BY <3>2, <3>3 DEF LoopsType, TypeStart, given, sort, made
  <2> QED BY <2>1, <2>2
<1>5. CASE NextComponent
  <2>1. at \in Comps /\ at' = at + 1 /\ at' \in Comps
    BY <1>5, SizeAssumption DEF NextComponent, LoopsType, Comps
  <2>2. pending' \in SUBSET Ifaces
    BY <1>5 DEF NextComponent, Imported
  <2> QED BY <1>0, <1>5, <2>1, <2>2 DEF NextComponent, LoopsType, TypeStart, given, sort, made
<1>6. CASE CountProviders
  <2>1. \A c \in Comps : Degree(c) \in Int
    <3> SUFFICES ASSUME NEW c \in Comps PROVE Degree(c) \in Int
      OBVIOUS
    <3>1. Deps(c) \subseteq Comps
      BY DEF LoopsType, Deps
    <3>2. IsFiniteSet(Comps) /\ Deps(c) \in SUBSET Comps
      BY <3>1, FS_Interval, SizeAssumption
    <3>3. IsFiniteSet(Deps(c))
      BY <3>2, FS_Subset
    <3> QED BY <3>3, FS_CardinalityType DEF Degree
  <2> QED BY <1>0, <1>6, <2>1 DEF CountProviders, LoopsType, TypeStart, given, sort, made
<1>7. CASE Seed
  <2>1. at \in Comps
    BY <1>7 DEF Seed, LoopsType
  <2>2. queue' \in Seq(Comps)
    BY <1>7, <2>1, SeqType DEF Seed, LoopsType
  <2>3. at' \in Comps /\ pc' \in {"seed", "sort"}
    BY <1>7, <2>1, LoopType DEF Seed
  <2> QED BY <1>0, <1>7, <2>1, <2>2, <2>3 DEF Seed, LoopsType, TypeStart, given, sort, made
<1>8. CASE Pop
  <2>1. queue' \in Seq(Comps) /\ order' \in Seq(Comps)
    BY <1>8, SeqType DEF Pop, LeftAfter, LoopsType
  <2> QED BY <1>0, <1>8, <2>1 DEF Pop, LoopsType, TypeStart, given, sort, made
<1>9. CASE Relax
  <2>1. at \in Comps
    BY <1>9 DEF Relax, LoopsType
  <2>2. indeg' \in [Comps -> Int] /\ (queue' = queue \/ queue' = Append(queue, at))
    <3>1. CASE Popped \in Deps(at)
      BY <1>9, <2>1, <3>1 DEF Relax, LoopsType
    <3>2. CASE Popped \notin Deps(at)
      BY <1>9, <2>1, <3>2 DEF Relax, LoopsType
    <3> QED BY <3>1, <3>2
  <2>3. queue' \in Seq(Comps)
    <3>1. queue \in Seq(Comps)
      BY DEF LoopsType
    <3> QED BY <2>1, <2>2, <3>1, SeqType
  <2>4. at' \in Comps /\ pc' \in {"relax", "sort"}
    BY <1>9, <2>1, LoopType DEF Relax
  <2> QED BY <1>0, <1>9, <2>1, <2>2, <2>3, <2>4 DEF Relax, LoopsType, TypeStart, given, sort, made
<1>10. CASE FinishSort
  BY <1>10, BailType DEF FinishSort, LoopsType, TypeStart, given, sort, made
<1>11. CASE BuildNode
  <2>1. at \in Comps
    BY <1>11 DEF BuildNode, LoopsType
  <2>2. at' \in Comps /\ pc' \in {"build", "exports"}
    BY <1>11, <2>1, LoopType DEF BuildNode
  <2> QED BY <1>0, <1>11, <2>1, <2>2 DEF BuildNode, LoopsType, TypeStart, given, sort, made
<1>12. CASE SetExports
  <2>1. at \in Comps
    BY <1>12 DEF SetExports, LoopsType
  <2>2. at' \in Comps /\ pc' \in {"exports", "done"}
    BY <1>12, <2>1, LoopType DEF SetExports
  <2> QED BY <1>0, <1>12, <2>1, <2>2 DEF SetExports, LoopsType, TypeStart, given, sort, made
<1>13. CASE UNCHANGED vars
  BY <1>13 DEF vars, LoopsType, TypeStart
<1> QED BY <1>1, <1>2, <1>3, <1>4, <1>5, <1>6, <1>7, <1>8, <1>9, <1>10, <1>11, <1>12, <1>13
        DEF Next, Step, Terminated

-----------------------------------------------------------------------------
(* Kahn's algorithm.                                                        *)
Sorting == pc \in {"seed", "sort", "relax"}
Built   == pc \in {"build", "exports", "done"}
Queued(c) == \E k \in 1..Len(queue) : queue[k] = c
Ordered(c) == \E k \in 1..Len(order) : order[k] = c

(* The loops run over all components, and the sequences start empty.        *)
PhaseInv ==
  /\ pc \in {"names", "index", "resolve"} => queue = <<>> /\ order = <<>>
  /\ pc = "seed" => order = <<>> /\ \A c \in Comps : Queued(c) => c < at
  /\ pc = "sort" => at = 1
  /\ pc = "relax" => order # <<>>
  /\ Built => Len(order) = NumComps

(* No component is queued or placed twice.                                  *)
OnceInv ==
  /\ \A j, k \in 1..Len(queue) : queue[j] = queue[k] => j = k
  /\ \A j, k \in 1..Len(order) : order[j] = order[k] => j = k
  /\ \A c \in Comps : ~(Queued(c) /\ Ordered(c))

(* Exactly the components without providers left are queued or placed; the  *)
(* loop that fills the queue first has seen those below `at'.               *)
ZeroInv ==
  /\ Sorting => \A c \in Comps : Queued(c) \/ Ordered(c) => indeg[c] = 0
  /\ Sorting => \A c \in Comps : indeg[c] = 0 /\ (pc = "seed" => c < at) => Queued(c) \/ Ordered(c)

(* The providers of a placed component were placed before it.               *)
ClosedInv ==
  \A k \in 1..Len(order) : \A d \in Deps(order[k]) : \E j \in 1..k - 1 : order[j] = d

SortInv == PhaseInv /\ OnceInv /\ ZeroInv /\ ClosedInv /\ CountsExact

(* What appending and taking the head do to the elements of a sequence.     *)
LEMMA AppendElements ==
  ASSUME NEW S, NEW s \in Seq(S), NEW x \in S
  PROVE  /\ Len(Append(s, x)) = Len(s) + 1 /\ Len(s) \in Nat
         /\ \A k \in 1..Len(s) : Append(s, x)[k] = s[k]
         /\ Append(s, x)[Len(s) + 1] = x
OBVIOUS

(* Taking the head shifts the other elements by one place.                  *)
LEMMA TailElements ==
  ASSUME NEW S, NEW s \in Seq(S), s # <<>>
  PROVE  /\ Len(s) \in Nat \ {0} /\ Len(Tail(s)) = Len(s) - 1
         /\ \A k \in 1..Len(s) - 1 : Tail(s)[k] = s[k + 1]
         /\ Head(s) = s[1]
OBVIOUS

(* The providers of a component are components, finitely many.              *)
LEMMA DepsFinite ==
  ASSUME LoopsType, NEW c \in Comps
  PROVE  Deps(c) \subseteq Comps /\ IsFiniteSet(Deps(c))
<1>1. Deps(c) \in SUBSET Comps
  BY DEF LoopsType, Deps
<1>2. IsFiniteSet(Comps)
  BY FS_Interval, SizeAssumption
<1> QED BY <1>1, <1>2, FS_Subset

(* Nothing is queued at first.                                              *)
LEMMA SortInit == Init => SortInv
BY SizeAssumption
   DEF Init, SortInv, PhaseInv, OnceInv, ZeroInv, ClosedInv, CountsExact, Sorting, Built,
       Queued, Ordered

(* Before the sort there is nothing to show.                                *)
LEMMA SortEarly ==
  ASSUME pc' \in {"names", "index", "resolve", "failed"}, UNCHANGED sort,
         queue = <<>>, order = <<>>
  PROVE  SortInv'
BY DEF SortInv, PhaseInv, OnceInv, ZeroInv, ClosedInv, CountsExact, Sorting, Built,
       Queued, Ordered, sort

(* After the sort nothing changes.                                          *)
LEMMA SortLate ==
  ASSUME SortInv, UNCHANGED <<sort, index, resolved>>, pc' = "failed" \/ Built',
         Built' => Len(order) = NumComps
  PROVE  SortInv'
<1>1. \A c : Deps(c)' = Deps(c)
  BY DEF Deps
<1>2. \A c : Queued(c)' = Queued(c) /\ Ordered(c)' = Ordered(c)
  BY DEF Queued, Ordered, sort
<1>3. PhaseInv' /\ ZeroInv' /\ CountsExact'
  BY DEF PhaseInv, ZeroInv, CountsExact, Sorting, Built, sort
<1>4. OnceInv'
  BY <1>2 DEF SortInv, OnceInv, sort
<1>5. ClosedInv'
  BY <1>1 DEF SortInv, ClosedInv, sort
<1> QED BY <1>3, <1>4, <1>5 DEF SortInv

(* The in-degrees start as the numbers of distinct providers.               *)
LEMMA SortCount == ASSUME TypeInv, SortInv, CountProviders PROVE SortInv'
<1>1. queue' = <<>> /\ order' = <<>> /\ pc' = "seed" /\ at' = 1
  BY DEF CountProviders, SortInv, PhaseInv
<1>2. \A c \in Comps : ~Queued(c)' /\ ~Ordered(c)'
  BY <1>1 DEF Queued, Ordered
<1>3. CountsExact'
  <2>1. \A c \in Comps : Deps(c)' = Deps(c) /\ Counted(c)' = {}
    BY <1>1 DEF CountProviders, Deps, Counted
  <2> QED BY <1>1, <2>1 DEF CountsExact, CountProviders, Degree
<1> QED BY <1>1, <1>2, <1>3 DEF SortInv, PhaseInv, OnceInv, ZeroInv, ClosedInv, Sorting, Built

(* The first loop queues exactly the components without providers.          *)
LEMMA SortSeed == ASSUME TypeInv, SortInv, Seed PROVE SortInv'
<1>1. /\ pc = "seed" /\ order = <<>> /\ at \in Comps /\ queue \in Seq(Comps)
      /\ UNCHANGED <<index, resolved, indeg, order>>
      /\ queue' = IF indeg[at] = 0 THEN Append(queue, at) ELSE queue
      /\ pc' = IF at < NumComps THEN "seed" ELSE "sort"
      /\ at' = IF at < NumComps THEN at + 1 ELSE 1
  BY DEF Seed, LoopIn, TypeInv, LoopsType, SortInv, PhaseInv
<1>2. \A c : Queued(c)' <=> Queued(c) \/ (c = at /\ indeg[at] = 0)
  <2>1. CASE indeg[at] = 0
    <3>1. Len(queue') = Len(queue) + 1 /\ Len(queue) \in Nat
          /\ (\A k \in 1..Len(queue) : queue'[k] = queue[k]) /\ queue'[Len(queue) + 1] = at
      BY <1>1, <2>1, AppendElements
    <3> QED BY <2>1, <3>1 DEF Queued
  <2>2. CASE indeg[at] # 0
    BY <1>1, <2>2 DEF Queued
  <2> QED BY <2>1, <2>2
<1>3. \A c : ~Ordered(c) /\ ~Ordered(c)'
  BY <1>1 DEF Ordered
<1>4. \A c \in Comps : Queued(c) => c < at
  BY <1>1 DEF SortInv, PhaseInv
<1>5. PhaseInv'
  <2>1. pc' = "seed" => \A c \in Comps : Queued(c)' => c < at'
    BY <1>1, <1>2, <1>4, SizeAssumption
  <2> QED BY <1>1, <2>1 DEF PhaseInv, Built
<1>6. OnceInv'
  <2>1. CASE indeg[at] = 0
    <3>1. Len(queue') = Len(queue) + 1 /\ Len(queue) \in Nat
          /\ (\A k \in 1..Len(queue) : queue'[k] = queue[k]) /\ queue'[Len(queue) + 1] = at
      BY <1>1, <2>1, AppendElements
    <3>2. \A k \in 1..Len(queue) : queue[k] # at
      BY <1>1, <1>4, SizeAssumption DEF Queued
    <3>3. \A j, k \in 1..Len(queue') : queue'[j] = queue'[k] => j = k
      BY <3>1, <3>2 DEF SortInv, OnceInv
    <3> QED BY <1>1, <1>3, <3>3 DEF OnceInv
  <2>2. CASE indeg[at] # 0
    BY <1>1, <1>3, <2>2 DEF SortInv, OnceInv
  <2> QED BY <2>1, <2>2
<1>7. ZeroInv'
  BY <1>1, <1>2, <1>3, SizeAssumption DEF SortInv, ZeroInv, Sorting
<1>8. CountsExact'
  <2>1. \A c : Deps(c)' = Deps(c) /\ Counted(c)' = Counted(c)
    BY <1>1 DEF Deps, Counted
  <2> QED BY <1>1, <2>1 DEF SortInv, CountsExact
<1>9. ClosedInv'
  BY <1>1 DEF ClosedInv
<1> QED BY <1>5, <1>6, <1>7, <1>8, <1>9 DEF SortInv

(* What leaves the queue has all its providers placed before it.            *)
LEMMA SortPop == ASSUME TypeInv, SortInv, Pop PROVE SortInv'
<1>1. /\ pc = "sort" /\ at = 1 /\ pc' = "relax" /\ at' = 1
      /\ queue \in Seq(Comps) /\ queue # <<>> /\ order \in Seq(Comps)
      /\ order' = Append(order, Head(queue)) /\ queue' = Tail(queue)
      /\ UNCHANGED <<index, resolved, indeg>>
  BY DEF Pop, LeftAfter, TypeInv, LoopsType, SortInv, PhaseInv
<1> DEFINE x == Head(queue)
<1>2. /\ Len(queue) \in Nat \ {0} /\ Len(queue') = Len(queue) - 1
      /\ \A k \in 1..Len(queue) - 1 : queue'[k] = queue[k + 1]
      /\ x = queue[1]
  BY <1>1, TailElements
<1>3. x \in Comps /\ Queued(x)
  <2>1. x \in Comps
    BY <1>1, SeqType
  <2>2. 1 \in 1..Len(queue)
    BY <1>2
  <2> QED BY <1>2, <2>1, <2>2 DEF Queued
<1>4. /\ Len(order') = Len(order) + 1 /\ Len(order) \in Nat
      /\ \A k \in 1..Len(order) : order'[k] = order[k]
      /\ order'[Len(order) + 1] = x
  BY <1>1, <1>3, AppendElements
<1> HIDE DEF x
<1>5. \A c : Ordered(c)' <=> Ordered(c) \/ c = x
  BY <1>4 DEF Ordered
<1>6. \A c : Queued(c)' <=> Queued(c) /\ c # x
  <2>1. \A j, k \in 1..Len(queue) : queue[j] = queue[k] => j = k
    BY DEF SortInv, OnceInv
  <2>2. ASSUME NEW c, Queued(c)' PROVE Queued(c) /\ c # x
    <3>1. PICK k \in 1..Len(queue) - 1 : queue'[k] = c
      BY <1>2, <2>2 DEF Queued
    <3> QED BY <1>2, <2>1, <3>1 DEF Queued
  <2>3. ASSUME NEW c, Queued(c), c # x PROVE Queued(c)'
    <3>1. PICK k \in 1..Len(queue) : queue[k] = c /\ k # 1
      BY <1>2, <2>3 DEF Queued
    <3>2. k - 1 \in 1..Len(queue) - 1 /\ queue'[k - 1] = c
      BY <1>2, <3>1
    <3> QED BY <1>2, <3>2 DEF Queued
  <2> QED BY <2>2, <2>3
<1>7. PhaseInv'
  BY <1>1, <1>4 DEF PhaseInv, Built
<1>8. OnceInv'
  <2>1. \A j, k \in 1..Len(queue') : queue'[j] = queue'[k] => j = k
    BY <1>2 DEF SortInv, OnceInv
  <2>2. \A k \in 1..Len(order) : order[k] # x
    BY <1>3 DEF SortInv, OnceInv, Ordered
  <2>3. \A j, k \in 1..Len(order') : order'[j] = order'[k] => j = k
    BY <1>4, <2>2 DEF SortInv, OnceInv
  <2>4. \A c \in Comps : ~(Queued(c)' /\ Ordered(c)')
    BY <1>5, <1>6 DEF SortInv, OnceInv
  <2> QED BY <2>1, <2>3, <2>4 DEF OnceInv
<1>9. ZeroInv'
  BY <1>1, <1>3, <1>5, <1>6 DEF SortInv, ZeroInv, Sorting
<1>10. CountsExact'
  <2>1. \A c : Deps(c)' = Deps(c)
    BY <1>1 DEF Deps
  <2>2. \A c \in Comps : Counted(c)' = Counted(c)
    BY <1>1, <1>4 DEF Counted
  <2> QED BY <1>1, <2>1, <2>2 DEF SortInv, CountsExact
<1>11. ClosedInv'
  <2>1. Deps(x) \subseteq {order[k] : k \in 1..Len(order)}
    <3>1. indeg[x] = 0 /\ indeg[x] = Cardinality(Deps(x) \ Counted(x))
      BY <1>1, <1>3 DEF SortInv, ZeroInv, CountsExact, Sorting
    <3>2. IsFiniteSet(Deps(x) \ Counted(x))
      BY <1>3, DepsFinite, FS_Subset DEF TypeInv
    <3>3. Deps(x) \ Counted(x) = {}
      BY <3>1, <3>2, FS_EmptySet
    <3> QED BY <1>1, <3>3 DEF Counted
  <2>2. \A c : Deps(c)' = Deps(c)
    BY <1>1 DEF Deps
  <2>3. ASSUME NEW k \in 1..Len(order'), NEW d \in Deps(order'[k])
        PROVE  \E j \in 1..k - 1 : order'[j] = d
    <3>1. CASE k \in 1..Len(order)
      BY <1>4, <2>3, <3>1 DEF SortInv, ClosedInv
    <3>2. CASE k = Len(order) + 1
      BY <1>4, <2>1, <2>3, <3>2
    <3> QED BY <1>4, <3>1, <3>2
  <2> QED BY <2>2, <2>3 DEF ClosedInv
<1> QED BY <1>7, <1>8, <1>9, <1>10, <1>11 DEF SortInv

(* A component whose in-degree drops is neither queued nor placed: what the *)
(* decrement counts is a provider that was not counted before.              *)
LEMMA SortRelax == ASSUME TypeInv, SortInv, Relax PROVE SortInv'
<1>1. /\ pc = "relax" /\ at \in Comps /\ queue \in Seq(Comps) /\ order \in Seq(Comps)
      /\ order # <<>> /\ Popped = order[Len(order)] /\ Len(order) \in Nat \ {0}
      /\ indeg \in [Comps -> Int]
      /\ UNCHANGED <<index, resolved, order>>
      /\ pc' = IF at < NumComps THEN "relax" ELSE "sort"
      /\ at' = IF at < NumComps THEN at + 1 ELSE 1
  BY DEF Relax, LoopIn, TypeInv, LoopsType, SortInv, PhaseInv, Popped
<1>2. \A c : Deps(c)' = Deps(c) /\ Ordered(c)' = Ordered(c)
  BY <1>1 DEF Deps, Ordered
<1> PICK a \in Comps : a = at
  BY <1>1
<1>3. /\ \A c \in Comps \ {a} : Counted(c)' = Counted(c)
      /\ Counted(a)' = Counted(a) \union {Popped} /\ Popped \notin Counted(a)
  <2>1. \A j, k \in 1..Len(order) : order[j] = order[k] => j = k
    BY DEF SortInv, OnceInv
  <2>2. \A c \in Comps \ {a} : Counted(c)' = Counted(c)
    BY <1>1, SizeAssumption DEF Counted
  <2>3. Counted(a) = {order[k] : k \in 1..Len(order) - 1}
    BY <1>1 DEF Counted
  <2>4. Counted(a)' = {order[k] : k \in 1..Len(order)}
    BY <1>1, SizeAssumption DEF Counted
  <2> QED BY <1>1, <2>1, <2>2, <2>3, <2>4
<1>4. PhaseInv'
  BY <1>1, SizeAssumption DEF PhaseInv, Built
<1>5. ClosedInv'
  BY <1>1, <1>2 DEF SortInv, ClosedInv
<1>6. /\ indeg[at] = Cardinality(Deps(a) \ Counted(a))
      /\ IsFiniteSet(Deps(a) \ Counted(a))
  BY <1>1, DepsFinite, FS_Subset DEF SortInv, CountsExact, TypeInv
<1>7. CASE Popped \notin Deps(a)
  <2>1. UNCHANGED <<indeg, queue>>
    BY <1>7 DEF Relax
  <2>2. \A c \in Comps : (Deps(c) \ Counted(c))' = Deps(c) \ Counted(c)
    BY <1>2, <1>3, <1>7
  <2>3. CountsExact'
    BY <1>1, <2>1, <2>2 DEF SortInv, CountsExact
  <2>4. OnceInv' /\ ZeroInv'
    BY <1>1, <1>2, <2>1 DEF SortInv, OnceInv, ZeroInv, Sorting, Queued
  <2> QED BY <1>4, <1>5, <2>3, <2>4 DEF SortInv
<1>8. CASE Popped \in Deps(a)
  <2>1. /\ indeg' = [indeg EXCEPT ![at] = @ - 1]
        /\ queue' = IF indeg[at] = 1 THEN Append(queue, at) ELSE queue
    BY <1>8 DEF Relax
  <2>2. Popped \in Deps(a) \ Counted(a)
    BY <1>3, <1>8
  <2>3. /\ Cardinality((Deps(a) \ Counted(a)) \ {Popped}) = indeg[at] - 1
        /\ indeg[at] # 0
    BY <1>6, <2>2, FS_RemoveElement, FS_EmptySet
  <2>4. CountsExact'
    <3>1. (Deps(a) \ Counted(a))' = (Deps(a) \ Counted(a)) \ {Popped}
      BY <1>2, <1>3
    <3>2. indeg'[a] = Cardinality((Deps(a) \ Counted(a))')
      BY <1>1, <2>1, <2>3, <3>1
    <3>3. \A c \in Comps \ {a} : indeg'[c] = Cardinality((Deps(c) \ Counted(c))')
      BY <1>1, <1>2, <1>3, <2>1 DEF SortInv, CountsExact
    <3> QED BY <3>2, <3>3 DEF CountsExact
  <2>5. ~Queued(at) /\ ~Ordered(at)
    BY <1>1, <2>3 DEF SortInv, ZeroInv, Sorting
  <2>6. \A c : Queued(c)' <=> Queued(c) \/ (c = at /\ indeg[at] = 1)
    <3>1. CASE indeg[at] = 1
      <4>1. /\ Len(queue') = Len(queue) + 1 /\ Len(queue) \in Nat
            /\ (\A k \in 1..Len(queue) : queue'[k] = queue[k]) /\ queue'[Len(queue) + 1] = at
        BY <1>1, <2>1, <3>1, AppendElements
      <4> QED BY <3>1, <4>1 DEF Queued
    <3>2. CASE indeg[at] # 1
      BY <2>1, <3>2 DEF Queued
    <3> QED BY <3>1, <3>2
  <2>7. OnceInv'
    <3>1. CASE indeg[at] = 1
      <4>1. /\ Len(queue') = Len(queue) + 1 /\ Len(queue) \in Nat
            /\ (\A k \in 1..Len(queue) : queue'[k] = queue[k]) /\ queue'[Len(queue) + 1] = at
        BY <1>1, <2>1, <3>1, AppendElements
      <4>2. \A k \in 1..Len(queue) : queue[k] # at
        BY <2>5 DEF Queued
      <4>3. \A j, k \in 1..Len(queue') : queue'[j] = queue'[k] => j = k
        BY <4>1, <4>2 DEF SortInv, OnceInv
      <4> QED BY <1>1, <1>2, <2>5, <2>6, <4>3 DEF SortInv, OnceInv
    <3>2. CASE indeg[at] # 1
      BY <1>1, <1>2, <2>1, <2>6, <3>2 DEF SortInv, OnceInv
    <3> QED BY <3>1, <3>2
  <2>8. ZeroInv'
    <3>1. \A c \in Comps : Queued(c)' \/ Ordered(c)' => indeg'[c] = 0
      BY <1>1, <1>2, <2>1, <2>5, <2>6 DEF SortInv, ZeroInv, Sorting
    <3>2. \A c \in Comps : indeg'[c] = 0 => Queued(c)' \/ Ordered(c)'
      BY <1>1, <1>2, <2>1, <2>6 DEF SortInv, ZeroInv, Sorting
    <3> QED BY <1>1, <3>1, <3>2 DEF ZeroInv
  <2> QED BY <1>4, <1>5, <2>4, <2>7, <2>8 DEF SortInv
<1> QED BY <1>7, <1>8

(* Every step keeps the invariant of the sort.                              *)
LEMMA SortStep == TypeInv /\ SortInv /\ [Next]_vars => SortInv'
<1> SUFFICES ASSUME TypeInv, SortInv, [Next]_vars PROVE SortInv'
  OBVIOUS
<1>1. CASE pc \in {"names", "index", "resolve"} /\ ~CountProviders
  <2>1. queue = <<>> /\ order = <<>>
    BY <1>1 DEF SortInv, PhaseInv
  <2>2. CASE UNCHANGED vars
    BY <1>1, <2>1, <2>2, SortEarly DEF vars, sort
  <2>3. CASE CheckNames \/ IndexExports \/ StartResolve \/ NextComponent
    BY <1>1, <2>1, <2>3, SortEarly
       DEF CheckNames, IndexExports, StartResolve, NextComponent, Bail
  <2>4. ASSUME NEW i \in Ifaces, ResolveImport(i) PROVE SortInv'
    <3>1. pc' \in {"resolve", "failed"} /\ UNCHANGED sort
      BY <2>4 DEF ResolveImport, Bail
    <3> QED BY <2>1, <3>1, SortEarly
  <2> QED BY <1>1, <2>2, <2>3, <2>4
          DEF Next, Step, Terminated, Seed, Pop, Relax, FinishSort, BuildNode, SetExports
<1>2. CASE CountProviders
  BY <1>2, SortCount
<1>3. CASE Seed
  BY <1>3, SortSeed
<1>4. CASE Pop
  BY <1>4, SortPop
<1>5. CASE Relax
  BY <1>5, SortRelax
<1>6. CASE FinishSort \/ BuildNode \/ SetExports
  <2>1. UNCHANGED <<sort, index, resolved>> /\ (pc' = "failed" \/ Built')
    BY <1>6 DEF FinishSort, BuildNode, SetExports, LoopIn, Bail, Built, sort
  <2>2. Built' => Len(order) = NumComps
    BY <1>6 DEF FinishSort, BuildNode, SetExports, Bail, SortInv, PhaseInv, Built
  <2> QED BY <2>1, <2>2, SortLate
<1>7. CASE UNCHANGED vars
  BY <1>7 DEF vars, SortInv, PhaseInv, OnceInv, ZeroInv, ClosedInv, CountsExact, Sorting, Built,
              Queued, Ordered, Deps, Counted
<1>8. CASE pc \in {"seed", "sort", "relax", "build", "exports", "done", "failed"}
  BY <1>2, <1>3, <1>4, <1>5, <1>6, <1>7, <1>8
     DEF Next, Step, Terminated, CheckNames, IndexExports, StartResolve, ResolveImport,
         NextComponent
<1> QED BY <1>1, <1>2, <1>8 DEF TypeInv, LoopsType

-----------------------------------------------------------------------------
(* Imports are resolved against a complete index.                           *)
Indexed == pc \notin {"names", "index", "failed"}
Seen(c) ==   \* imports the loops have come to
  {i \in Imported(c) : pc = "resolve" => c < at \/ (c = at /\ i \notin pending)}

IndexInv ==
  /\ \A i \in Ifaces : index[i] # None => index[i] \in Comps /\ i \in Exported(index[i])
  /\ pc \in {"names", "index"} => \A d \in Comps : d < at => \A i \in Exported(d) : index[i] = d
  /\ pc \in {"names", "index"} => \A i \in Ifaces : index[i] # None => index[i] < at
  /\ Indexed => \A d \in Comps : \A i \in Exported(d) : index[i] = d
  /\ pc \notin {"names", "failed"} => ~Clash

ResolveInv ==
  /\ pc \in {"names", "index"} => \A c \in Comps : resolved[c] = {}
  /\ Indexed => \A c \in Comps : resolved[c] = {i \in Seen(c) : index[i] # None}
  /\ \A c \in Comps : \A i \in resolved[c] :
       index[i] # c /\ ~Mismatch(imports[c][i], exports[index[i]][i])
  /\ pc = "resolve" => pending \subseteq Imported(at)

ErrorInv ==
  /\ error # None => pc = "failed"
  /\ error = "name" => Clash
  /\ error = "ambiguous" => ~Unambiguous
  /\ error = "self" => ~NoSelfImport
  /\ error = "types" => ~TypesAgree
  /\ error = "cycle" => ~Acyclic

VerdictInv == IndexInv /\ ResolveInv /\ ErrorInv

(* Nothing is indexed or resolved at first.                                 *)
LEMMA VerdictInit == Init => VerdictInv
BY SizeAssumption, NoneAssumption DEF Init, VerdictInv, IndexInv, ResolveInv, ErrorInv, Indexed

(* A verdict stands: the components it is about do not change.              *)
LEMMA Fixed ==
  ASSUME UNCHANGED given
  PROVE  /\ Clash' = Clash /\ Unambiguous' = Unambiguous /\ NoSelfImport' = NoSelfImport
         /\ TypesAgree' = TypesAgree /\ Acyclic' = Acyclic
         /\ \A c : Exported(c)' = Exported(c) /\ Imported(c)' = Imported(c)
<1>1. \A c : Exported(c)' = Exported(c) /\ Imported(c)' = Imported(c)
  BY DEF given, Exported, Imported
<1>2. \A c : Needs(c)' = Needs(c)
  BY <1>1 DEF Needs
<1> QED BY <1>1, <1>2 DEF given, Clash, Unambiguous, NoSelfImport, TypesAgree, Acyclic

(* Bailing out is right when the error named is there.                      *)
LEMMA VerdictBail ==
  ASSUME VerdictInv, NEW why, Bail(why),
         why = "name" => Clash, why = "ambiguous" => ~Unambiguous, why = "self" => ~NoSelfImport,
         why = "types" => ~TypesAgree, why = "cycle" => ~Acyclic
  PROVE  VerdictInv'
<1>1. UNCHANGED given /\ UNCHANGED <<index, resolved>> /\ pc' = "failed" /\ error' = why
  BY DEF Bail, given
<1>2. IndexInv'
  BY <1>1, Fixed DEF VerdictInv, IndexInv, Indexed
<1>3. ResolveInv'
  BY <1>1 DEF VerdictInv, ResolveInv, Indexed, given
<1>4. ErrorInv'
  BY <1>1, Fixed DEF ErrorInv
<1> QED BY <1>2, <1>3, <1>4 DEF VerdictInv

(* A step of the later phases leaves the index and the imports alone.       *)
LEMMA VerdictLate ==
  ASSUME VerdictInv, UNCHANGED <<given, index, resolved, error>>, Indexed, Indexed',
         pc # "resolve", pc' # "resolve"
  PROVE  VerdictInv'
<1>1. UNCHANGED given /\ UNCHANGED <<index, resolved, error>>
  OBVIOUS
<1>2. \A c : Seen(c)' = Seen(c)
  BY <1>1, Fixed DEF Seen
<1>3. IndexInv'
  BY <1>1, Fixed DEF VerdictInv, IndexInv, Indexed
<1>4. ResolveInv'
  BY <1>1, <1>2 DEF VerdictInv, ResolveInv, Indexed, given
<1>5. ErrorInv'
  BY <1>1, Fixed DEF VerdictInv, ErrorInv, Indexed
<1> QED BY <1>3, <1>4, <1>5 DEF VerdictInv

(* Duplicate names are refused, and only they.                              *)
LEMMA VerdictNames == ASSUME TypeInv, VerdictInv, CheckNames PROVE VerdictInv'
<1>1. CASE Clash
  BY <1>1, VerdictBail DEF CheckNames
<1>2. CASE ~Clash
  <2>1. pc = "names" /\ pc' = "index" /\ UNCHANGED given /\ UNCHANGED <<at, index, resolved, error>>
    BY <1>2 DEF CheckNames, given
  <2>2. IndexInv'
    BY <1>2, <2>1, Fixed DEF VerdictInv, IndexInv, Indexed
  <2>3. ResolveInv'
    BY <2>1 DEF VerdictInv, ResolveInv, Indexed, given
  <2>4. ErrorInv'
    BY <2>1, Fixed DEF VerdictInv, ErrorInv
  <2> QED BY <2>2, <2>3, <2>4 DEF VerdictInv
<1> QED BY <1>1, <1>2

(* A second exporter is refused; otherwise the index is right so far.       *)
LEMMA VerdictIndex == ASSUME TypeInv, VerdictInv, IndexExports PROVE VerdictInv'
<1>0. pc = "index" /\ at \in Comps
  BY DEF IndexExports, TypeInv, LoopsType
<1>1. CASE \E i \in Exported(at) : index[i] # None
  <2>1. PICK i \in Exported(at) : index[i] # None
    BY <1>1
  <2>2. i \in Ifaces /\ index[i] \in Comps /\ index[i] < at /\ i \in Exported(index[i])
    BY <1>0, <2>1 DEF VerdictInv, IndexInv, Exported
  <2>3. ~Unambiguous
    BY <1>0, <2>1, <2>2, SizeAssumption DEF Unambiguous
  <2> QED BY <1>1, <2>3, VerdictBail DEF IndexExports
<1>2. CASE \A i \in Exported(at) : index[i] = None
  <2>1. /\ UNCHANGED given /\ UNCHANGED <<pc, resolved, error>> /\ at' = at + 1
        /\ index' = [i \in Ifaces |-> IF i \in Exported(at) THEN at ELSE index[i]]
    BY <1>2 DEF IndexExports, given
  <2>2. \A i \in Ifaces : index'[i] = IF i \in Exported(at) THEN at ELSE index[i]
    BY <2>1
  <2>3. \A d : Exported(d)' = Exported(d) /\ Exported(d) \subseteq Ifaces
    BY <2>1, Fixed DEF Exported
  <2>4. \A i \in Ifaces : index'[i] # None => index'[i] \in Comps /\ i \in Exported(index'[i])
    BY <1>0, <2>2, <2>3 DEF VerdictInv, IndexInv
  <2>5. \A d \in Comps : d < at' => \A i \in Exported(d) : index'[i] = d
    <3> SUFFICES ASSUME NEW d \in Comps, d < at', NEW i \in Exported(d) PROVE index'[i] = d
      OBVIOUS
    <3>1. CASE d = at
      BY <2>2, <2>3, <3>1
    <3>2. CASE d < at
      <4>1. index[i] = d
        BY <1>0, <3>2 DEF VerdictInv, IndexInv
      <4>2. d # None
        BY NoneAssumption
      <4> QED BY <1>2, <2>2, <2>3, <4>1, <4>2
    <3> QED BY <1>0, <2>1, <3>1, <3>2, SizeAssumption
  <2>6. \A i \in Ifaces : index'[i] # None => index'[i] < at'
    <3> SUFFICES ASSUME NEW i \in Ifaces, index'[i] # None PROVE index'[i] < at'
      OBVIOUS
    <3>1. CASE i \in Exported(at)
      BY <1>0, <2>1, <2>2, <3>1, SizeAssumption
    <3>2. CASE i \notin Exported(at)
      BY <1>0, <2>1, <2>2, <3>2, SizeAssumption DEF VerdictInv, IndexInv
    <3> QED BY <3>1, <3>2
  <2>7. IndexInv'
    BY <1>0, <2>1, <2>3, <2>4, <2>5, <2>6, Fixed DEF VerdictInv, IndexInv, Indexed
  <2>8. ResolveInv'
    BY <1>0, <2>1 DEF VerdictInv, ResolveInv, Indexed
  <2>9. ErrorInv'
    BY <2>1, Fixed DEF VerdictInv, ErrorInv
  <2> QED BY <2>7, <2>8, <2>9 DEF VerdictInv
<1> QED BY <1>1, <1>2

(* The index is complete when the imports are resolved.                     *)
LEMMA VerdictStart == ASSUME TypeInv, VerdictInv, StartResolve PROVE VerdictInv'
<1>1. /\ pc = "index" /\ pc' = "resolve" /\ at > NumComps /\ at' = 1 /\ pending' = Imported(1)
      /\ UNCHANGED given /\ UNCHANGED <<index, resolved, error>> /\ at \in 1..NumComps + 1
  BY DEF StartResolve, given, TypeInv, LoopsType
<1>2. IndexInv'
  BY <1>1, Fixed, SizeAssumption DEF VerdictInv, IndexInv, Indexed
<1>3. ResolveInv'
  <2>1. \A c \in Comps : Seen(c)' = {}
    BY <1>1, Fixed, SizeAssumption DEF Seen
  <2>2. pending' \subseteq Imported(at)'
    BY <1>1, Fixed
  <2> QED BY <1>1, <2>1, <2>2 DEF VerdictInv, ResolveInv, given
<1>4. ErrorInv'
  BY <1>1, Fixed DEF VerdictInv, ErrorInv
<1> QED BY <1>2, <1>3, <1>4 DEF VerdictInv

(* The imports of a component are all resolved before the next one's.       *)
LEMMA VerdictNext == ASSUME TypeInv, VerdictInv, NextComponent PROVE VerdictInv'
<1>1. /\ pc = "resolve" /\ pc' = "resolve" /\ pending = {} /\ at' = at + 1
      /\ pending' = Imported(at + 1) /\ at \in Comps
      /\ UNCHANGED given /\ UNCHANGED <<index, resolved, error>>
  BY DEF NextComponent, given, TypeInv, LoopsType
<1>2. IndexInv'
  BY <1>1, Fixed DEF VerdictInv, IndexInv, Indexed
<1>3. ResolveInv'
  <2>1. \A c \in Comps : Seen(c)' = Seen(c)
    BY <1>1, Fixed, SizeAssumption DEF Seen
  <2>2. pending' \subseteq Imported(at)'
    BY <1>1, Fixed DEF given, Imported
  <2> QED BY <1>1, <2>1, <2>2 DEF VerdictInv, ResolveInv, Indexed, given
<1>4. ErrorInv'
  BY <1>1, Fixed DEF VerdictInv, ErrorInv
<1> QED BY <1>2, <1>3, <1>4 DEF VerdictInv

(* An import is refused rightly, or resolved to its exporter.               *)
LEMMA VerdictResolve ==
  ASSUME TypeInv, VerdictInv, NEW i \in Ifaces, ResolveImport(i)
  PROVE  VerdictInv'
<1>1. /\ pc = "resolve" /\ at \in Comps /\ i \in pending /\ i \in Imported(at)
      /\ index \in [Ifaces -> Comps \union {None}] /\ resolved \in [Comps -> SUBSET Ifaces]
  BY DEF ResolveImport, TypeInv, LoopsType, VerdictInv, ResolveInv
<1>2. index[i] # None => index[i] \in Comps /\ i \in Exported(index[i])
  BY DEF VerdictInv, IndexInv
<1>3. CASE index[i] = at
  <2>1. ~NoSelfImport
    BY <1>1, <1>2, <1>3, NoneAssumption DEF NoSelfImport
  <2>2. Bail("self")
    BY <1>3 DEF ResolveImport
  <2> QED BY <2>1, <2>2, VerdictBail
<1>4. CASE index[i] \in Comps \ {at} /\ Mismatch(imports[at][i], exports[index[i]][i])
  <2>1. ~TypesAgree
    BY <1>1, <1>2, <1>4, NoneAssumption DEF TypesAgree
  <2>2. Bail("types")
    BY <1>4 DEF ResolveImport
  <2> QED BY <2>1, <2>2, VerdictBail
<1>5. CASE ~(index[i] = at)
           /\ ~(index[i] \in Comps \ {at} /\ Mismatch(imports[at][i], exports[index[i]][i]))
  <2>1. /\ resolved' = IF Resolved(i) THEN [resolved EXCEPT ![at] = @ \union {i}] ELSE resolved
        /\ pending' = pending \ {i}
        /\ UNCHANGED given /\ UNCHANGED <<pc, at, index, error>>
    BY <1>5 DEF ResolveImport, given
  <2>2. IndexInv'
    BY <1>1, <2>1, Fixed DEF VerdictInv, IndexInv, Indexed
  <2>3. \A c \in Comps : resolved'[c] = IF c = at /\ Resolved(i) THEN resolved[c] \union {i}
                                        ELSE resolved[c]
    BY <1>1, <2>1
  <2>4. \A c \in Comps : Seen(c)' = IF c = at THEN Seen(c) \union {i} ELSE Seen(c)
    BY <1>1, <2>1, Fixed, SizeAssumption DEF Seen
  <2>5. \A c \in Comps : resolved[c] = {j \in Seen(c) : index[j] # None}
    BY <1>1 DEF VerdictInv, ResolveInv, Indexed
  <2>6. \A c \in Comps : resolved'[c] = {j \in Seen(c)' : index'[j] # None}
    BY <2>1, <2>3, <2>4, <2>5 DEF Resolved
  <2>7. \A c \in Comps : \A j \in resolved'[c] :
          index'[j] # c /\ ~Mismatch(imports'[c][j], exports'[index'[j]][j])
    BY <1>1, <1>2, <1>5, <2>1, <2>3 DEF VerdictInv, ResolveInv, Resolved, given
  <2>8. pending' \subseteq Imported(at)'
    BY <1>1, <2>1, Fixed DEF VerdictInv, ResolveInv, given, Imported
  <2>9. ResolveInv'
    BY <1>1, <2>1, <2>6, <2>7, <2>8 DEF ResolveInv
  <2>10. ErrorInv'
    BY <2>1, Fixed DEF VerdictInv, ErrorInv
  <2> QED BY <2>2, <2>9, <2>10 DEF VerdictInv
<1> QED BY <1>3, <1>4, <1>5

-----------------------------------------------------------------------------
(* Every nonempty set of places has a first.                                *)
Less == {p \in Nat \X Nat : p[1] < p[2]}

LEMMA LessWellFounded == IsWellFoundedOn(Less, Nat)
BY NatLessThanWellFounded DEF OpToRel, Less

LEMMA FirstOf ==
  ASSUME NEW T, T \subseteq Nat, T # {}
  PROVE  \E x \in T : \A y \in T : x <= y
<1>1. PICK x \in T : \A y \in T : ~(<<y, x>> \in Less)
  BY LessWellFounded, WFMin
<1>2. ASSUME NEW y \in T PROVE x <= y
  <2>1. x \in Nat /\ y \in Nat /\ ~(<<y, x>> \in Less)
    BY <1>1
  <2>2. <<y, x>> \in Nat \X Nat /\ <<y, x>>[1] = y /\ <<y, x>>[2] = x
    BY <2>1
  <2>3. ~(y < x)
    BY <2>1, <2>2 DEF Less
  <2> QED BY <2>1, <2>3
<1> QED BY <1>2

(* What the sort works on is what the components need of each other.        *)
LEMMA DepsAreNeeds ==
  ASSUME TypeInv, VerdictInv, Indexed, pc # "resolve", NEW c \in Comps
  PROVE  Deps(c) = Needs(c)
<1>1. resolved[c] = {i \in Imported(c) : index[i] # None}
  BY DEF VerdictInv, ResolveInv, Seen
<1>2. Deps(c) \subseteq Needs(c)
  <2> SUFFICES ASSUME NEW i \in resolved[c] PROVE index[i] \in Needs(c)
    BY DEF Deps
  <2>1. i \in Imported(c) /\ i \in Ifaces /\ index[i] # None /\ index[i] # c
    BY <1>1 DEF VerdictInv, ResolveInv, Imported
  <2>2. index[i] \in Comps /\ i \in Exported(index[i])
    BY <2>1 DEF VerdictInv, IndexInv
  <2> QED BY <2>1, <2>2 DEF Needs
<1>3. Needs(c) \subseteq Deps(c)
  <2> SUFFICES ASSUME NEW d \in Needs(c) PROVE d \in Deps(c)
    OBVIOUS
  <2>1. PICK i \in Imported(c) : i \in Exported(d)
    BY DEF Needs
  <2>2. index[i] = d /\ d \in Comps
    BY <2>1 DEF VerdictInv, IndexInv, Needs
  <2> QED BY <1>1, <2>1, <2>2, NoneAssumption DEF Deps
<1> QED BY <1>2, <1>3

(* A full order without repetition places every component.                  *)
LEMMA AllPlaced ==
  ASSUME TypeInv, OnceInv
  PROVE  Len(order) = NumComps <=> \A c \in Comps : Ordered(c)
<1> DEFINE D == 1..Len(order)
<1>1. order \in [D -> Comps] /\ Len(order) \in Nat
  <2>1. order \in Seq(Comps)
    BY DEF TypeInv, LoopsType
  <2> QED BY <2>1, SeqFunction
<1>2. order \in Injection(D, Comps)
  BY <1>1 DEF OnceInv, Injection, IsInjective
<1>3. IsFiniteSet(Comps) /\ Cardinality(Comps) = NumComps /\ Cardinality(D) = Len(order)
  <2>1. 1 \in Int /\ NumComps \in Int /\ Len(order) \in Int /\ NumComps >= 1 /\ Len(order) >= 0
    BY <1>1, SizeAssumption
  <2>2. IsFiniteSet(1..NumComps) /\ Cardinality(1..NumComps) = NumComps
    BY <2>1, FS_Interval
  <2>3. Cardinality(1..Len(order)) = Len(order)
    BY <2>1, FS_Interval
  <2> QED BY <2>2, <2>3
<1>4. Cardinality(D) = Cardinality(Comps) <=> order \in Surjection(D, Comps)
  BY <1>2, <1>3, FS_Injection
<1>5. order \in Surjection(D, Comps) <=> \A c \in Comps : Ordered(c)
  BY <1>1 DEF Surjection, Ordered
<1> QED BY <1>3, <1>4, <1>5

(* An order in which providers come first leaves no cycle.                  *)
LEMMA PlacedAcyclic ==
  ASSUME TypeInv, SortInv, VerdictInv, Indexed, pc # "resolve", Len(order) = NumComps
  PROVE  Acyclic
<1> SUFFICES ASSUME NEW S \in SUBSET Comps, S # {}
             PROVE  \E c \in S : Needs(c) \cap S = {}
  BY DEF Acyclic
<1>1. \A c \in Comps : Ordered(c)
  BY AllPlaced DEF SortInv
<1> DEFINE T == {k \in 1..Len(order) : order[k] \in S}
<1>2. T \subseteq Nat /\ T # {}
  <2>1. S # {} /\ S \subseteq Comps
    OBVIOUS
  <2> PICK c \in S : TRUE
    BY <2>1
  <2>2. PICK k \in 1..Len(order) : order[k] = c
    BY <1>1, <2>1 DEF Ordered
  <2>3. k \in T
    BY <2>1, <2>2
  <2> QED BY <2>3
<1>3. PICK k \in T : \A j \in T : k <= j
  BY <1>2, FirstOf
<1>4. \A d \in Deps(order[k]) : d \notin S
  <2> SUFFICES ASSUME NEW d \in Deps(order[k]), d \in S PROVE FALSE
    OBVIOUS
  <2>1. PICK j \in 1..k - 1 : order[j] = d
    BY <1>3 DEF SortInv, ClosedInv
  <2>2. j \in T /\ j < k
    BY <1>3, <2>1
  <2> QED BY <1>2, <1>3, <2>2
<1>5. Needs(order[k]) \cap S = {} /\ order[k] \in S
  BY <1>3, <1>4, DepsAreNeeds
<1> QED BY <1>5

(* When the queue runs dry early, what is left lies on cycles or behind one. *)
LEMMA StuckCyclic ==
  ASSUME TypeInv, SortInv, VerdictInv, pc = "sort", queue = <<>>, Len(order) # NumComps
  PROVE  ~Acyclic
<1> DEFINE S == {c \in Comps : ~Ordered(c)}
<1>1. S # {}
  BY AllPlaced DEF SortInv
<1>2. ASSUME NEW c \in S PROVE Needs(c) \cap S # {}
  <2>1. ~Queued(c)
    BY DEF Queued
  <2>2. indeg[c] # 0 /\ indeg[c] = Cardinality(Deps(c) \ Counted(c))
    BY <2>1 DEF SortInv, ZeroInv, CountsExact, Sorting
  <2>3. Deps(c) \ Counted(c) # {}
    BY <2>2, FS_EmptySet
  <2>4. PICK d \in Deps(c) : d \notin Counted(c)
    BY <2>3
  <2>5. d \in Comps /\ ~Ordered(d)
    BY <2>4, DepsFinite DEF Counted, Ordered, TypeInv
  <2> QED BY <2>4, <2>5, DepsAreNeeds DEF Indexed
<1> QED BY <1>1, <1>2 DEF Acyclic

(* Every step keeps the invariant of the verdict.                           *)
LEMMA VerdictStep == TypeInv /\ SortInv /\ VerdictInv /\ [Next]_vars => VerdictInv'
<1> SUFFICES ASSUME TypeInv, SortInv, VerdictInv, [Next]_vars PROVE VerdictInv'
  OBVIOUS
<1>1. CASE CheckNames \/ IndexExports \/ StartResolve \/ NextComponent
  BY <1>1, VerdictNames, VerdictIndex, VerdictStart, VerdictNext
<1>2. ASSUME NEW i \in Ifaces, ResolveImport(i) PROVE VerdictInv'
  BY <1>2, VerdictResolve
<1>3. CASE CountProviders
  <2>1. /\ pc = "resolve" /\ pc' = "seed" /\ pending = {} /\ at = NumComps
        /\ UNCHANGED given /\ UNCHANGED <<index, resolved, error>>
    BY <1>3 DEF CountProviders, given
  <2>2. \A c \in Comps : Seen(c)' = Seen(c)
    BY <2>1, Fixed, SizeAssumption DEF Seen
  <2>3. IndexInv'
    BY <2>1, Fixed DEF VerdictInv, IndexInv, Indexed
  <2>4. ResolveInv'
    BY <2>1, <2>2 DEF VerdictInv, ResolveInv, Indexed, given
  <2>5. ErrorInv'
    BY <2>1, Fixed DEF VerdictInv, ErrorInv
  <2> QED BY <2>3, <2>4, <2>5 DEF VerdictInv
<1>4. CASE Seed \/ Pop \/ Relax \/ BuildNode \/ SetExports
  <2>1. /\ UNCHANGED <<given, index, resolved, error>>
        /\ Indexed /\ Indexed' /\ pc # "resolve" /\ pc' # "resolve"
    BY <1>4 DEF Seed, Pop, Relax, BuildNode, SetExports, LoopIn, Indexed
  <2> QED BY <2>1, VerdictLate
<1>5. CASE FinishSort
  <2>1. CASE Len(order) # NumComps
    <3>1. ~Acyclic
      BY <1>5, <2>1, StuckCyclic DEF FinishSort
    <3> QED BY <1>5, <2>1, <3>1, VerdictBail DEF FinishSort
  <2>2. CASE Len(order) = NumComps
    <3>1. /\ UNCHANGED <<given, index, resolved, error>>
          /\ Indexed /\ Indexed' /\ pc # "resolve" /\ pc' # "resolve"
      BY <1>5, <2>2 DEF FinishSort, Indexed
    <3> QED BY <3>1, VerdictLate
  <2> QED BY <2>1, <2>2
<1>6. CASE UNCHANGED vars
  <2>1. UNCHANGED given /\ UNCHANGED <<pc, at, pending, index, resolved, error>>
    BY <1>6 DEF vars, given
  <2>2. \A c : Seen(c)' = Seen(c)
    BY <2>1, Fixed DEF Seen
  <2>3. IndexInv'
    BY <2>1, Fixed DEF VerdictInv, IndexInv, Indexed
  <2>4. ResolveInv'
    BY <2>1, <2>2, Fixed DEF VerdictInv, ResolveInv, Indexed, given, Imported
  <2>5. ErrorInv'
    BY <2>1, Fixed DEF VerdictInv, ErrorInv
  <2> QED BY <2>3, <2>4, <2>5 DEF VerdictInv
<1> QED BY <1>1, <1>2, <1>3, <1>4, <1>5, <1>6 DEF Next, Step, Terminated

(* The invariants imply that the verdict is right.                          *)
LEMMA VerdictHolds == TypeInv /\ SortInv /\ VerdictInv => Verdict
<1> SUFFICES ASSUME TypeInv, SortInv, VerdictInv PROVE Verdict
  OBVIOUS
<1>1. ASSUME pc = "done" PROVE ~Clash /\ Unambiguous /\ NoSelfImport /\ TypesAgree /\ Acyclic
  <2>1. Indexed /\ Len(order) = NumComps
    BY <1>1 DEF Indexed, SortInv, PhaseInv, Built
  <2>2. Acyclic
    BY <1>1, <2>1, PlacedAcyclic
  <2>3. \A d \in Comps : \A i \in Exported(d) : index[i] = d
    BY <2>1 DEF VerdictInv, IndexInv
  <2>4. \A c \in Comps : \A i \in Imported(c) : index[i] # None => i \in resolved[c]
    BY <1>1, <2>1 DEF VerdictInv, ResolveInv, Seen
  <2>5. \A c \in Comps : \A i \in resolved[c] :
          index[i] # c /\ ~Mismatch(imports[c][i], exports[index[i]][i])
    BY DEF VerdictInv, ResolveInv
  <2>6. \A d \in Comps : d # None
    BY NoneAssumption
  <2>7. Unambiguous
    BY <2>3 DEF Unambiguous
  <2>8. NoSelfImport
    BY <2>3, <2>4, <2>5, <2>6 DEF NoSelfImport
  <2>9. TypesAgree
    BY <2>3, <2>4, <2>5, <2>6 DEF TypesAgree
  <2> QED BY <1>1, <2>2, <2>7, <2>8, <2>9 DEF VerdictInv, IndexInv
<1> QED BY <1>1 DEF VerdictInv, ErrorInv, Verdict

-----------------------------------------------------------------------------
(* The graph: an edge leads to the place of the provider, which is earlier. *)
GraphInv == GraphType /\ ProvidersFirst

(* A provider of the component placed at n has a place before n.            *)
LEMMA NodeOfProvider ==
  ASSUME TypeInv, SortInv, Built, NEW n \in Comps, NEW d \in Deps(order[n])
  PROVE  NodeOf(d) \in Comps /\ NodeOf(d) < n /\ order[NodeOf(d)] = d
<1>1. Len(order) = NumComps /\ NumComps \in Nat
  BY SizeAssumption DEF SortInv, PhaseInv
<1>2. PICK j \in 1..n - 1 : order[j] = d
  BY <1>1 DEF SortInv, ClosedInv
<1>3. \A k \in Comps : order[k] = d => k = j
  BY <1>1, <1>2 DEF SortInv, OnceInv
<1>4. NodeOf(d) = j
  BY <1>1, <1>2, <1>3 DEF NodeOf
<1> QED BY <1>1, <1>2, <1>4

(* The graph starts without edges.                                          *)
LEMMA GraphInit == Init => GraphInv
BY NoneAssumption DEF Init, GraphInv, GraphType, ProvidersFirst

(* Every step keeps the edges typed and leading down.                       *)
LEMMA GraphStep == TypeInv /\ SortInv /\ GraphInv /\ [Next]_vars => GraphInv'
<1> SUFFICES ASSUME TypeInv, SortInv, GraphInv, [Next]_vars PROVE GraphInv'
  OBVIOUS
<1>1. CASE BuildNode
  <2>1. Built /\ at \in Comps /\ graph \in [Comps -> [Ifaces -> Comps \union {Host, None}]]
    BY <1>1 DEF BuildNode, Built, TypeInv, LoopsType, GraphInv, GraphType
  <2> DEFINE edges == [i \in Ifaces |->
                         IF i \in resolved[order[at]] THEN NodeOf(index[i])
                         ELSE IF i \in Imported(order[at]) THEN Host ELSE None]
  <2>2. graph' = [graph EXCEPT ![at] = edges]
    BY <1>1 DEF BuildNode
  <2>3. \A i \in resolved[order[at]] : NodeOf(index[i]) \in Comps /\ NodeOf(index[i]) < at
    <3> SUFFICES ASSUME NEW i \in resolved[order[at]]
                 PROVE  NodeOf(index[i]) \in Comps /\ NodeOf(index[i]) < at
      OBVIOUS
    <3>1. index[i] \in Deps(order[at])
      BY DEF Deps
    <3> QED BY <2>1, <3>1, NodeOfProvider
  <2>4. edges \in [Ifaces -> Comps \union {Host, None}]
    BY <2>3
  <2>5. \A i \in Ifaces : edges[i] \in Comps => edges[i] < at
    BY <2>3, NoneAssumption
  <2> HIDE DEF edges
  <2>6. GraphType'
    BY <2>1, <2>2, <2>4 DEF GraphType
  <2>7. ProvidersFirst'
    BY <2>1, <2>2, <2>5 DEF GraphInv, ProvidersFirst
  <2> QED BY <2>6, <2>7 DEF GraphInv
<1>2. CASE UNCHANGED graph
  BY <1>2 DEF GraphInv, GraphType, ProvidersFirst
<1> QED BY <1>1, <1>2
        DEF Next, Step, Terminated, vars, Bail, made, CheckNames, IndexExports, StartResolve,
            ResolveImport, NextComponent, CountProviders, Seed, Pop, Relax, FinishSort, SetExports

-----------------------------------------------------------------------------
Inv == TypeInv /\ SortInv /\ VerdictInv /\ GraphInv

(* The inductive invariant holds throughout.                                *)
LEMMA Invariance == Spec => []Inv
<1>1. Init => Inv
  BY TypeInit, SortInit, VerdictInit, GraphInit DEF Inv
<1>2. Inv /\ [Next]_vars => Inv'
  BY TypeStep, SortStep, VerdictStep, GraphStep DEF Inv
<1> QED BY <1>1, <1>2, PTL DEF Spec

(* Every variable of build_graph_from_components stays in its type.         *)
THEOREM TypeCorrect == Spec => []TypeOK
<1>1. Inv => TypeOK
  BY DEF Inv, TypeInv, GraphInv, TypeOK
<1> QED BY <1>1, Invariance, PTL

(* The in-degree counts the providers not yet placed: no decrement goes     *)
(* below zero and each component enters the queue once.                     *)
THEOREM CountsAreExact == Spec => []CountsExact
<1>1. Inv => CountsExact
  BY DEF Inv, SortInv
<1> QED BY <1>1, Invariance, PTL

(* Every edge of the graph leads to a lower node id.                        *)
THEOREM ProvidersComeFirst == Spec => []ProvidersFirst
<1>1. Inv => ProvidersFirst
  BY DEF Inv, GraphInv
<1> QED BY <1>1, Invariance, PTL

(* Components are composed only if their names differ, no two export one    *)
(* interface, none imports what it exports, types agree and no dependency   *)
(* is cyclic; and a refusal names a condition that fails.                   *)
THEOREM VerdictIsRight == Spec => []Verdict
<1>1. Inv => Verdict
  BY VerdictHolds DEF Inv
<1> QED BY <1>1, Invariance, PTL
-----------------------------------------------------------------------------
(* What each node gets and what leaves the composition there: the nodes     *)
(* and exports that the last two loops have passed carry exactly that.      *)
Edges(n) == [i \in Ifaces |-> IF i \in resolved[order[n]] THEN NodeOf(index[i])
                              ELSE IF i \in Imported(order[n]) THEN Host ELSE None]
Leaving(n) == Exported(order[n]) \ Consumed
EdgesInv == Built => \A n \in Comps : (pc = "build" => n < at) => graph[n] = Edges(n)
OutsInv ==
  /\ pc \notin {"exports", "done"} => \A i \in Ifaces : outs[i] = None
  /\ pc \in {"exports", "done"} => \A i \in Ifaces :
       /\ outs[i] # None => i \in Leaving(outs[i])
       /\ \A n \in Comps : (pc = "exports" => n < at) /\ i \in Leaving(n) => outs[i] = n
FaithInv == EdgesInv /\ OutsInv

(* The components stand still while the graph is made.                      *)
LEMMA EdgesFixed ==
  ASSUME UNCHANGED <<given, index, resolved, order>>
  PROVE  \A n : Edges(n)' = Edges(n) /\ Leaving(n)' = Leaving(n)
<1>1. UNCHANGED given /\ UNCHANGED <<index, resolved, order>>
  OBVIOUS
<1>2. /\ \A c : Exported(c)' = Exported(c) /\ Imported(c)' = Imported(c)
      /\ \A c : NodeOf(c)' = NodeOf(c)
  BY <1>1, Fixed DEF NodeOf
<1> QED BY <1>1, <1>2 DEF Edges, Leaving, Consumed

(* An interface is exported at one place.                                   *)
LEMMA OneExporter ==
  ASSUME TypeInv, SortInv, VerdictInv, Built, NEW m \in Comps, NEW n \in Comps,
         NEW i \in Exported(order[m]), i \in Exported(order[n])
  PROVE  m = n /\ index[i] = order[n]
<1>1. order \in [Comps -> Comps]
  BY SeqFunction DEF SortInv, PhaseInv, TypeInv, LoopsType
<1>2. index[i] = order[m] /\ index[i] = order[n]
  BY <1>1 DEF VerdictInv, IndexInv, Indexed, Built
<1> QED BY <1>2 DEF SortInv, PhaseInv, OnceInv

LEMMA FaithInit == Init => FaithInv
BY DEF Init, FaithInv, EdgesInv, OutsInv, Built

LEMMA FaithStep == Inv /\ FaithInv /\ [Next]_vars => FaithInv'
<1> SUFFICES ASSUME Inv, FaithInv, [Next]_vars PROVE FaithInv'
  OBVIOUS
<1>0. NumComps \in Nat /\ TypeInv /\ SortInv /\ VerdictInv
  BY SizeAssumption DEF Inv
<1>1. CASE BuildNode
  <2>1. /\ pc = "build" /\ at \in Comps /\ graph' = [graph EXCEPT ![at] = Edges(at)]
        /\ graph \in [Comps -> [Ifaces -> Comps \union {Host, None}]]
        /\ UNCHANGED <<given, index, resolved, order>> /\ outs' = outs
        /\ pc' = (IF at < NumComps THEN "build" ELSE "exports")
        /\ at' = (IF at < NumComps THEN at + 1 ELSE 1)
    BY <1>1 DEF BuildNode, LoopIn, Edges, sort, Inv, TypeInv, LoopsType, GraphInv, GraphType
  <2>2. \A n : Edges(n)' = Edges(n) /\ Leaving(n)' = Leaving(n)
    BY <2>1, EdgesFixed
  <2>3. \A n \in Comps : n <= at => graph'[n] = Edges(n)
    BY <1>0, <2>1 DEF FaithInv, EdgesInv, Built
  <2>4. EdgesInv'
    BY <1>0, <2>1, <2>2, <2>3 DEF EdgesInv, Built
  <2>5. \A i \in Ifaces : outs[i] = None
    BY <2>1 DEF FaithInv, OutsInv
  <2>6. OutsInv'
    BY <1>0, <2>1, <2>5 DEF OutsInv
  <2> QED BY <2>4, <2>6 DEF FaithInv
<1>2. CASE SetExports
  <2>1. /\ pc = "exports" /\ at \in Comps /\ graph' = graph
        /\ outs' = [i \in Ifaces |-> IF i \in Leaving(at) THEN at ELSE outs[i]]
        /\ UNCHANGED <<given, index, resolved, order>>
        /\ pc' = (IF at < NumComps THEN "exports" ELSE "done")
        /\ at' = (IF at < NumComps THEN at + 1 ELSE 1)
    BY <1>2 DEF SetExports, LoopIn, Leaving, sort, Inv, TypeInv, LoopsType
  <2>2. \A n : Edges(n)' = Edges(n) /\ Leaving(n)' = Leaving(n)
    BY <2>1, EdgesFixed
  <2>3. EdgesInv'
    BY <2>1, <2>2 DEF FaithInv, EdgesInv, Built
  <2>4. ASSUME NEW i \in Ifaces
        PROVE  /\ outs'[i] # None => i \in Leaving(outs'[i])
               /\ \A n \in Comps : n <= at /\ i \in Leaving(n) => outs'[i] = n
    <3>1. \A n \in Comps : i \in Leaving(n) /\ i \in Leaving(at) => n = at
      BY <1>0, <2>1, OneExporter DEF Leaving, Built
    <3>2. /\ outs[i] # None => i \in Leaving(outs[i])
          /\ \A n \in Comps : n < at /\ i \in Leaving(n) => outs[i] = n
      BY <2>1 DEF FaithInv, OutsInv
    <3> QED BY <1>0, <2>1, <3>1, <3>2
  <2>5. OutsInv'
    BY <1>0, <2>1, <2>2, <2>4 DEF OutsInv
  <2> QED BY <2>3, <2>5 DEF FaithInv
<1>3. CASE FinishSort
  <2>1. /\ pc = "sort" /\ at' = 1 /\ outs' = outs /\ pc' \in {"build", "failed"}
    BY <1>0, <1>3 DEF FinishSort, Bail, made, SortInv, PhaseInv
  <2> QED BY <1>0, <2>1 DEF FaithInv, EdgesInv, OutsInv, Built
<1>4. ASSUME pc \notin {"build", "exports", "done"}, pc' \notin {"build", "exports", "done"}, outs' = outs
      PROVE  FaithInv'
  BY <1>4 DEF FaithInv, EdgesInv, OutsInv, Built
<1>5. CASE CheckNames \/ IndexExports \/ StartResolve \/ NextComponent \/ CountProviders
  BY <1>4, <1>5 DEF CheckNames, IndexExports, StartResolve, NextComponent, CountProviders, Bail, made
<1>6. CASE Seed \/ Pop \/ Relax
  BY <1>4, <1>6 DEF Seed, Pop, Relax, LoopIn, made
<1>7. ASSUME NEW i \in Ifaces, ResolveImport(i) PROVE FaithInv'
  BY <1>4, <1>7 DEF ResolveImport, Bail, made
<1>8. CASE UNCHANGED vars
  <2>1. UNCHANGED <<given, index, resolved, order>> /\ UNCHANGED <<pc, at, graph, outs>>
    BY <1>8 DEF vars, given
  <2>2. \A n : Edges(n)' = Edges(n) /\ Leaving(n)' = Leaving(n)
    BY <2>1, EdgesFixed
  <2> QED BY <2>1, <2>2 DEF FaithInv, EdgesInv, OutsInv, Built
<1> QED BY <1>1, <1>2, <1>3, <1>5, <1>6, <1>7, <1>8 DEF Next, Step, Terminated

(* What the invariants say of the finished graph.                           *)
LEMMA GraphHolds == Inv /\ FaithInv => GraphFaithful
<1> SUFFICES ASSUME Inv, FaithInv, pc = "done" PROVE GraphFaithful
  BY DEF GraphFaithful
<1>1. /\ TypeInv /\ SortInv /\ VerdictInv /\ Built /\ Indexed
      /\ order \in [Comps -> Comps] /\ Len(order) = NumComps
  BY SeqFunction DEF Inv, TypeInv, LoopsType, SortInv, PhaseInv, Built, Indexed
<1>2. ASSUME NEW c \in Comps PROVE \E n \in Comps : order[n] = c
  BY <1>1, AllPlaced DEF SortInv, Ordered
<1>3. /\ \A c \in Comps : resolved[c] = {i \in Imported(c) : index[i] # None}
      /\ \A c \in Comps : \A i \in Exported(c) : index[i] = c
      /\ \A i \in Ifaces : index[i] # None => index[i] \in Comps /\ i \in Exported(index[i])
  BY <1>1 DEF VerdictInv, IndexInv, ResolveInv, Seen
<1>4. /\ \A n \in Comps : graph[n] = Edges(n)
      /\ \A i \in Ifaces : outs[i] # None => i \in Leaving(outs[i])
      /\ \A i \in Ifaces, n \in Comps : i \in Leaving(n) => outs[i] = n
  BY DEF FaithInv, EdgesInv, OutsInv, Built
<1>5. None \notin Comps /\ Host \notin Comps /\ Host # None
  BY NoneAssumption
<1>6. ASSUME NEW n \in Comps, NEW i \in Ifaces, i \in resolved[order[n]]
      PROVE  /\ graph[n][i] \in Comps /\ order[graph[n][i]] = index[i]
             /\ i \in Imported(order[n]) /\ i \in Exported(order[graph[n][i]])
  <2>1. index[i] \in Deps(order[n])
    BY <1>6 DEF Deps
  <2>2. NodeOf(index[i]) \in Comps /\ order[NodeOf(index[i])] = index[i]
    BY <1>1, <2>1, NodeOfProvider
  <2>3. graph[n][i] = NodeOf(index[i])
    BY <1>4, <1>6 DEF Edges
  <2> QED BY <1>1, <1>3, <1>6, <2>2, <2>3
<1>7. ASSUME NEW n \in Comps, NEW i \in Ifaces, i \notin resolved[order[n]]
      PROVE  graph[n][i] = IF i \in Imported(order[n]) THEN Host ELSE None
  <2>1. graph[n] = Edges(n)
    BY <1>4
  <2>2. Edges(n)[i] = IF i \in Imported(order[n]) THEN Host ELSE None
    BY <1>7 DEF Edges
  <2> QED BY <2>1, <2>2
<1>8. \A c \in Comps : Exported(c) \subseteq Ifaces /\ Imported(c) \subseteq Ifaces
  BY DEF Exported, Imported
<1>9. ASSUME NEW n \in Comps, NEW i \in Ifaces
      PROVE  /\ graph[n][i] \in Comps <=> \E m \in Comps : /\ i \in Exported(order[m])
                                                           /\ i \in Imported(order[n])
                                                           /\ graph[n][i] = m
             /\ graph[n][i] # None <=> i \in Imported(order[n])
             /\ graph[n][i] = Host => \A c \in Comps : i \notin Exported(c)
  <2>1. order[n] \in Comps
    BY <1>1
  <2>2. CASE i \in resolved[order[n]]
    BY <1>5, <1>6, <2>2
  <2>3. CASE i \notin resolved[order[n]]
    BY <1>3, <1>5, <1>7, <2>1, <2>3
  <2> QED BY <2>2, <2>3
<1>10. ASSUME NEW n \in Comps, NEW i \in Ifaces, i \in Exported(order[n])
       PROVE  outs[i] = n <=> ~\E m \in Comps : graph[m][i] = n
  <2>1. i \in Leaving(n) <=> i \notin Consumed
    BY <1>10 DEF Leaving
  <2>2. i \in Leaving(n) <=> outs[i] = n
    BY <1>4, <1>5
  <2>3. ASSUME i \in Consumed PROVE \E m \in Comps : graph[m][i] = n
    <3>1. PICK c \in Comps : i \in resolved[c]
      BY <2>3 DEF Consumed
    <3>2. PICK m \in Comps : order[m] = c
      BY <1>2
    <3>3. graph[m][i] \in Comps /\ i \in Exported(order[graph[m][i]])
      BY <1>6, <3>1, <3>2
    <3> QED BY <1>1, <1>10, <3>3, OneExporter
  <2>4. ASSUME NEW m \in Comps, graph[m][i] = n PROVE i \in Consumed
    <3>1. i \in resolved[order[m]]
      BY <1>5, <1>7, <2>4
    <3> QED BY <1>1, <3>1 DEF Consumed
  <2> QED BY <2>1, <2>2, <2>3, <2>4
<1>11. {order[n] : n \in Comps} = Comps
  BY <1>1, <1>2
<1>12. \A i \in Ifaces : outs[i] # None => i \in Exported(order[outs[i]])
  BY <1>4 DEF Leaving
<1> QED BY <1>9, <1>10, <1>11, <1>12 DEF GraphFaithful

(* A composition that is accepted is represented exactly: one node per      *)
(* component, an edge per import that a component provides, the host for    *)
(* the others, and an export where nobody consumes it (step 5 and 6 of      *)
(* build_graph_from_components).                                            *)
THEOREM GraphIsFaithful == Spec => []GraphFaithful
<1>1. Init => Inv /\ FaithInv
  BY TypeInit, SortInit, VerdictInit, GraphInit, FaithInit DEF Inv
<1>2. Inv /\ FaithInv /\ [Next]_vars => (Inv /\ FaithInv)'
  BY TypeStep, SortStep, VerdictStep, GraphStep, FaithStep DEF Inv
<1> QED BY <1>1, <1>2, GraphHolds, PTL DEF Spec
=============================================================================
