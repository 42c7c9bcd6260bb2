--------------------------- MODULE OtelBareProofs ---------------------------
(***************************************************************************)
(* Proofs about OtelBare, for every finite set of calls, every assignment  *)
(* of functions to them and both builtins.                                 *)
(***************************************************************************)
EXTENDS OtelBare, FiniteSetTheorems, TLAPS

-----------------------------------------------------------------------------
(* The inductive invariant.  Control: what a call has done so far.          *)
Before == {"idle", "minting", "recording"}
After == {"reporting", "returned"}
ControlInv ==
  \A c \in Calls :
    /\ pc[c] \in Before <=> turn[c] = 0
    /\ pc[c] \in After <=> popped[c] # None
    /\ reported[c] \in {None, popped[c]}
    /\ builtin = "spans" /\ pc[c] \notin {"idle", "minting"} => c \in announced

(* Turns: no two pushes have the same one.                                  *)
HaveTurn == {c \in Calls : turn[c] # 0}
TurnInv ==
  /\ \A c \in Calls : turn[c] <= Cardinality(HaveTurn)
  /\ \A c, d \in Calls : c # d /\ turn[c] # 0 => turn[c] # turn[d]

(* Entries: each was pushed by a call of its function, and is in one place. *)
EntryInv ==
  /\ \A f \in Fns : \A i \in 1..Len(pending[f]) :
       fn[pending[f][i]] = f /\ turn[pending[f][i]] # 0
  /\ \A f \in Fns : \A i, j \in 1..Len(pending[f]) : i # j => pending[f][i] # pending[f][j]
  /\ \A c \in Calls : popped[c] # None =>
       /\ fn[popped[c]] = fn[c] /\ turn[popped[c]] # 0
       /\ \A f \in Fns : \A i \in 1..Len(pending[f]) : pending[f][i] # popped[c]
       /\ \A d \in Calls \ {c} : popped[d] # popped[c]

CountInv == \A f \in Fns : Len(pending[f]) = Cardinality(Serving(f))

(* Places: the entry of a call that has crossed no other lies as high in    *)
(* the stack as there are calls being served that pushed no later.          *)
NoLater(c) == {d \in Serving(fn[c]) : turn[d] <= turn[c]}
PlaceInv ==
  \A c \in Calls \ crossed :
    /\ pc[c] = "handler" => pending[fn[c]][Cardinality(NoLater(c))] = c
    /\ popped[c] # None => popped[c] = c

IInv == TypeOK /\ ControlInv /\ TurnInv /\ EntryInv /\ CountInv /\ PlaceInv

-----------------------------------------------------------------------------
(* The sets that are counted are finite.                                    *)
LEMMA Finite ==
  /\ IsFiniteSet(HaveTurn)
  /\ \A f : IsFiniteSet(Serving(f))
  /\ \A c : IsFiniteSet(NoLater(c))
<1>1. \A S : S \subseteq Calls => IsFiniteSet(S)
  BY CallsAssumption, FS_Subset
<1> QED BY <1>1 DEF HaveTurn, Serving, NoLater

(* A call that is being served has its place within the stack.              *)
LEMMA PlaceInStack ==
  ASSUME IInv, NEW c \in Calls, pc[c] = "handler"
  PROVE  Cardinality(NoLater(c)) \in 1..Len(pending[fn[c]])
<1>1. fn[c] \in Fns /\ turn[c] \in Nat
  BY DEF IInv, TypeOK
<1>2. NoLater(c) \subseteq Serving(fn[c]) /\ c \in NoLater(c)
  BY <1>1 DEF NoLater, Serving
<1>3. Cardinality(NoLater(c)) <= Cardinality(Serving(fn[c]))
  BY <1>2, Finite, FS_Subset
<1>4. Cardinality(NoLater(c)) \in Nat /\ Cardinality(NoLater(c)) # 0
  BY <1>2, Finite, FS_CardinalityType, FS_EmptySet
<1>5. Cardinality(Serving(fn[c])) = Len(pending[fn[c]])
  BY <1>1 DEF IInv, CountInv
<1> QED BY <1>3, <1>4, <1>5

(* A call being served counts, so its function has an entry to take.        *)
LEMMA StackNotEmpty ==
  ASSUME IInv, NEW c \in Calls, pc[c] = "handler"
  PROVE  Len(pending[fn[c]]) \in Nat \ {0} /\ pending[fn[c]] # <<>>
<1>1. pending[fn[c]] \in Seq(Calls)
  BY DEF IInv, TypeOK
<1> QED BY <1>1, PlaceInStack

-----------------------------------------------------------------------------
LEMMA InitInv == Init => IInv
<1> SUFFICES ASSUME Init PROVE IInv
  OBVIOUS
<1> USE CallsAssumption DEF Init
<1>1. TypeOK
  BY DEF TypeOK
<1>2. ControlInv
  BY DEF ControlInv, Before, After
<1>3. TurnInv
  <2>1. HaveTurn = {}
    BY DEF HaveTurn
  <2> QED BY <2>1, FS_EmptySet DEF TurnInv
<1>4. EntryInv
  BY DEF EntryInv
<1>5. CountInv
  <2>1. \A f \in Fns : Serving(f) = {}
    BY DEF Serving
  <2> QED BY <2>1, FS_EmptySet DEF CountInv
<1>6. PlaceInv
  BY DEF PlaceInv
<1> QED BY <1>1, <1>2, <1>3, <1>4, <1>5, <1>6 DEF IInv

(* Enter, Announce and Report change neither a stack, nor a turn, nor which *)
(* calls are being served.                                                  *)
LEMMA QuietStep ==
  ASSUME IInv, NEW c \in Calls, Enter(c) \/ Announce(c) \/ Report(c)
  PROVE  IInv'
<1>0. c # None
  BY CallsAssumption
<1>1. TypeOK'
  BY <1>0 DEF IInv, TypeOK, Enter, Announce, Report, Goto, Context
<1>2. ControlInv'
  <2> USE <1>0 DEF IInv, TypeOK, ControlInv, Before, After, Goto
  <2>1. CASE Enter(c)
    BY <2>1 DEF Enter
  <2>2. CASE Announce(c)
    BY <2>2 DEF Announce, Context
  <2>3. CASE Report(c)
    BY <2>3 DEF Report
  <2> QED BY <2>1, <2>2, <2>3
<1>3. \A d \in Calls : pc'[d] = "handler" <=> pc[d] = "handler"
  BY DEF IInv, TypeOK, Enter, Announce, Report, Goto
<1>4. /\ fn' = fn /\ turn' = turn /\ pending' = pending /\ popped' = popped
      /\ crossed' = crossed
  BY DEF Enter, Announce, Report
<1>5. \A f : Serving(f)' = Serving(f)
  BY <1>3, <1>4 DEF Serving
<1>6. \A d : NoLater(d)' = NoLater(d)
  BY <1>4, <1>5 DEF NoLater
<1>7. HaveTurn' = HaveTurn
  BY <1>4 DEF HaveTurn
<1>8. TurnInv' /\ EntryInv' /\ CountInv'
  BY <1>4, <1>5, <1>7 DEF IInv, TurnInv, EntryInv, CountInv
<1>9. PlaceInv'
  BY <1>3, <1>4, <1>6 DEF IInv, PlaceInv
<1> QED BY <1>1, <1>2, <1>8, <1>9 DEF IInv

(* Push adds one entry and one call that is served, with the latest turn.   *)
LEMMA PushStep ==
  ASSUME IInv, NEW c \in Calls, Push(c)
  PROVE  IInv'
<1> DEFINE f == fn[c]
           n == Cardinality(Serving(f))
           t == 1 + Cardinality(HaveTurn)
<1>0. /\ c # None /\ f \in Fns /\ pc[c] = "recording" /\ turn[c] = 0
      /\ pending[f] \in Seq(Calls)
  BY CallsAssumption DEF IInv, TypeOK, ControlInv, Before, Push
<1>1. n \in Nat /\ t \in Nat \ {0} /\ Cardinality(HaveTurn) \in Nat
  BY Finite, FS_CardinalityType
<1>2. /\ turn' = [turn EXCEPT ![c] = t]
      /\ pending' = [pending EXCEPT ![f] = Append(pending[f], c)]
      /\ pc' = [pc EXCEPT ![c] = "handler"]
      /\ UNCHANGED <<builtin, fn, popped, announced, reported, crossed>>
  BY DEF Push, Pushed, Goto, HaveTurn
<1>3. /\ pending'[f] = Append(pending[f], c)
      /\ \A g \in Fns \ {f} : pending'[g] = pending[g]
  BY <1>0, <1>2 DEF IInv, TypeOK
<1>4. /\ Len(pending'[f]) = Len(pending[f]) + 1
      /\ \A i \in 1..Len(pending[f]) : pending'[f][i] = pending[f][i]
      /\ pending'[f][Len(pending[f]) + 1] = c
  BY <1>0, <1>3
<1>5. turn'[c] = t /\ \A d \in Calls \ {c} : turn'[d] = turn[d]
  BY <1>2 DEF IInv, TypeOK
<1>6. TypeOK'
  BY <1>0, <1>1, <1>2 DEF IInv, TypeOK
<1>7. ControlInv'
  BY <1>0, <1>1, <1>2, <1>5 DEF IInv, TypeOK, ControlInv, Before, After
<1>8. TurnInv'
  <2>1. HaveTurn' = HaveTurn \union {c} /\ c \notin HaveTurn
    BY <1>0, <1>1, <1>5 DEF HaveTurn
  <2>2. Cardinality(HaveTurn \union {c}) = Cardinality(HaveTurn) + 1
    BY <2>1, Finite, FS_AddElement
  <2>3. Cardinality(HaveTurn') = t
    BY <1>1, <2>1, <2>2
  <2>4. \A d \in Calls : turn[d] \in Nat /\ turn[d] < t
    BY <1>1 DEF IInv, TypeOK, TurnInv
  <2>5. t \in Nat
    BY <1>1
  <2> HIDE DEF t
  <2>6. \A d \in Calls : turn'[d] <= t
    BY <1>5, <2>4, <2>5
  <2>7. ASSUME NEW d \in Calls, NEW e \in Calls, d # e, turn'[d] # 0
        PROVE  turn'[d] # turn'[e]
    <3>1. CASE c \in {d, e}
      BY <1>5, <2>4, <2>5, <2>7, <3>1
    <3>2. CASE c \notin {d, e}
      BY <1>5, <2>7, <3>2 DEF IInv, TurnInv
    <3> QED BY <3>1, <3>2
  <2> QED BY <2>3, <2>6, <2>7 DEF TurnInv
<1>9. EntryInv'
  <2>1. /\ \A g \in Fns : \A i \in 1..Len(pending[g]) : pending[g][i] \in Calls \ {c}
        /\ \A d \in Calls : popped[d] # c
    BY <1>0 DEF IInv, TypeOK, EntryInv
  <2>2. \A g \in Fns : \A i \in 1..Len(pending'[g]) :
          \/ i \in 1..Len(pending[g]) /\ pending'[g][i] = pending[g][i]
          \/ g = f /\ i = Len(pending[f]) + 1 /\ pending'[g][i] = c
    <3> HIDE DEF f
    <3>1. Len(pending[f]) \in Nat
      BY <1>0
    <3> QED BY <1>3, <1>4, <3>1
  <2>3. \A g \in Fns : \A i \in 1..Len(pending'[g]) :
          fn'[pending'[g][i]] = g /\ turn'[pending'[g][i]] # 0
    BY <1>1, <1>2, <1>5, <2>1, <2>2 DEF IInv, EntryInv
  <2>4. \A g \in Fns : \A i, j \in 1..Len(pending'[g]) :
          i # j => pending'[g][i] # pending'[g][j]
    BY <2>1, <2>2 DEF IInv, EntryInv
  <2>5. ASSUME NEW d \in Calls, popped'[d] # None
        PROVE  /\ fn'[popped'[d]] = fn'[d] /\ turn'[popped'[d]] # 0
               /\ \A g \in Fns : \A i \in 1..Len(pending'[g]) : pending'[g][i] # popped'[d]
               /\ \A e \in Calls \ {d} : popped'[e] # popped'[d]
    <3>1. popped'[d] = popped[d] /\ popped[d] \in Calls \ {c}
      BY <1>2, <2>1, <2>5 DEF IInv, TypeOK
    <3> QED BY <1>2, <1>5, <2>1, <2>2, <2>5, <3>1 DEF IInv, EntryInv
  <2> QED BY <2>3, <2>4, <2>5 DEF EntryInv
<1>10. Serving(f)' = Serving(f) \union {c} /\ c \notin Serving(f)
  BY <1>0, <1>2 DEF IInv, TypeOK, Serving
<1>11. \A g \in Fns \ {f} : Serving(g)' = Serving(g)
  BY <1>0, <1>2 DEF IInv, TypeOK, Serving
<1>12. Cardinality(Serving(f)') = n + 1
  BY <1>10, Finite, FS_AddElement
<1>13. CountInv'
  <2>1. \A g \in Fns : Len(pending'[g]) = Cardinality(Serving(g)')
    <3>1. Len(pending'[f]) = Cardinality(Serving(f)')
      BY <1>0, <1>4, <1>12 DEF IInv, CountInv
    <3>2. \A g \in Fns \ {f} : Len(pending'[g]) = Cardinality(Serving(g)')
      BY <1>3, <1>11 DEF IInv, CountInv
    <3>3. \A g \in Fns : g # f \/ Serving(g)' = Serving(f)'
      BY <1>2
    <3> QED BY <3>1, <3>2, <3>3
  <2> QED BY <2>1 DEF CountInv
<1>14. PlaceInv'
  <2>1. ASSUME NEW d \in Calls \ crossed, pc'[d] = "handler", d # c
        PROVE  pending'[fn[d]][Cardinality(NoLater(d)')] = d
    <3>1. pc[d] = "handler" /\ turn'[d] = turn[d] /\ turn[d] < t /\ turn[d] \in Nat
      BY <1>1, <1>2, <1>5, <2>1 DEF IInv, TypeOK, TurnInv
    <3>2. NoLater(d)' = NoLater(d)
      BY <1>0, <1>1, <1>2, <1>5, <1>10, <1>11, <3>1 DEF IInv, TypeOK, NoLater, Serving
    <3>3. Cardinality(NoLater(d)) \in 1..Len(pending[fn[d]])
      BY <3>1, PlaceInStack
    <3>4. pending[fn[d]][Cardinality(NoLater(d))] = d
      BY <2>1, <3>1 DEF IInv, PlaceInv
    <3> QED BY <1>0, <1>3, <1>4, <3>2, <3>3, <3>4 DEF IInv, TypeOK
  <2>2. pending'[f][Cardinality(NoLater(c)')] = c
    <3>1. NoLater(c)' = Serving(f)'
      BY <1>1, <1>2, <1>5 DEF IInv, TypeOK, TurnInv, NoLater, Serving
    <3>2. n = Len(pending[f])
      BY <1>0 DEF IInv, CountInv
    <3> QED BY <1>4, <1>12, <3>1, <3>2
  <2>3. \A d \in Calls \ crossed : popped'[d] # None => popped'[d] = d
    BY <1>2 DEF IInv, PlaceInv
  <2> QED BY <1>2, <2>1, <2>2, <2>3 DEF PlaceInv
<1> QED BY <1>6, <1>7, <1>8, <1>9, <1>13, <1>14 DEF IInv

(* Pop takes the top entry; it is the caller's own if no later call of the  *)
(* function is being served.                                                *)
LEMMA PopStep ==
  ASSUME IInv, NEW c \in Calls, Pop(c)
  PROVE  IInv'
<1> DEFINE f == fn[c]
           n == Len(pending[f])
           top == pending[f][n]
           later == {d \in Serving(f) : turn[d] > turn[c]}
<1>0. /\ c # None /\ f \in Fns /\ pc[c] = "handler" /\ turn[c] # 0
      /\ pending[f] \in Seq(Calls) /\ n \in Nat \ {0} /\ pending[f] # <<>>
      /\ popped[c] = None
  BY CallsAssumption, StackNotEmpty DEF IInv, TypeOK, ControlInv, Before, After, Pop
<1>1. top \in Calls
  BY <1>0
<1>2. /\ crossed' = IF later = {} THEN crossed ELSE crossed \union later \union {c}
      /\ popped' = [popped EXCEPT ![c] = top]
      /\ pending' = [pending EXCEPT ![f] = SubSeq(pending[f], 1, n - 1)]
      /\ pc' = [pc EXCEPT ![c] = "reporting"]
      /\ UNCHANGED <<builtin, fn, announced, reported, turn>>
  BY <1>0 DEF Pop, Rest, Goto
<1>3. /\ pending'[f] = SubSeq(pending[f], 1, n - 1)
      /\ \A g \in Fns \ {f} : pending'[g] = pending[g]
  BY <1>0, <1>2 DEF IInv, TypeOK
<1>4. /\ Len(pending'[f]) = n - 1
      /\ \A i \in 1..(n - 1) : pending'[f][i] = pending[f][i]
  BY <1>0, <1>3
<1>5. popped'[c] = top /\ \A d \in Calls \ {c} : popped'[d] = popped[d]
  BY <1>2 DEF IInv, TypeOK
<1>6. TypeOK'
  <2>1. SubSeq(pending[f], 1, n - 1) \in Seq(Calls)
    BY <1>0
  <2>2. pending' \in [Fns -> Seq(Calls)]
    BY <1>2, <2>1 DEF IInv, TypeOK
  <2>3. later \subseteq Calls
    BY DEF Serving
  <2> QED BY <1>1, <1>2, <2>2, <2>3 DEF IInv, TypeOK
<1>7. ControlInv'
  BY <1>0, <1>1, <1>2, <1>5, CallsAssumption DEF IInv, TypeOK, ControlInv, Before, After
<1>8. TurnInv'
  <2>1. HaveTurn' = HaveTurn
    BY <1>2 DEF HaveTurn
  <2> QED BY <1>2, <2>1 DEF IInv, TurnInv
<1>9. EntryInv'
  <2>1. \A g \in Fns : \A i \in 1..Len(pending'[g]) :
          i \in 1..Len(pending[g]) /\ pending'[g][i] = pending[g][i] /\ (g = f => i # n)
    <3> HIDE DEF f
    <3>1. Len(pending[f]) = n /\ n \in Nat
      BY <1>0
    <3> HIDE DEF n
    <3> QED BY <1>3, <1>4, <3>1
  <2>2. fn[top] = f /\ turn[top] # 0 /\ n \in 1..Len(pending[f])
    BY <1>0 DEF IInv, EntryInv
  <2>3. \A g \in Fns : \A i \in 1..Len(pending'[g]) : pending'[g][i] # top
    BY <1>0, <2>1, <2>2 DEF IInv, EntryInv
  <2>4. \A d \in Calls : popped[d] # top
    BY <1>0, <1>1, <2>2, CallsAssumption DEF IInv, EntryInv
  <2>5. ASSUME NEW d \in Calls, popped'[d] # None
        PROVE  /\ fn'[popped'[d]] = fn'[d] /\ turn'[popped'[d]] # 0
               /\ \A g \in Fns : \A i \in 1..Len(pending'[g]) : pending'[g][i] # popped'[d]
               /\ \A e \in Calls \ {d} : popped'[e] # popped'[d]
    <3>1. CASE d = c
      BY <1>2, <1>5, <2>2, <2>3, <2>4, <3>1
    <3>2. CASE d # c
      BY <1>2, <1>5, <2>1, <2>4, <2>5, <3>2 DEF IInv, EntryInv
    <3> QED BY <3>1, <3>2
  <2>6. \A g \in Fns : \A i \in 1..Len(pending'[g]) :
          fn'[pending'[g][i]] = g /\ turn'[pending'[g][i]] # 0
    BY <1>2, <2>1 DEF IInv, EntryInv
  <2>7. \A g \in Fns : \A i, j \in 1..Len(pending'[g]) :
          i # j => pending'[g][i] # pending'[g][j]
    BY <2>1 DEF IInv, EntryInv
  <2> QED BY <2>5, <2>6, <2>7 DEF EntryInv
<1>10. Serving(f)' = Serving(f) \ {c} /\ c \in Serving(f)
  BY <1>0, <1>2 DEF IInv, TypeOK, Serving
<1>11. \A g \in Fns \ {f} : Serving(g)' = Serving(g)
  BY <1>0, <1>2 DEF IInv, TypeOK, Serving
<1>12. n = Cardinality(Serving(f)) /\ Cardinality(Serving(f)') = n - 1
  BY <1>0, <1>10, Finite, FS_RemoveElement DEF IInv, CountInv
<1>13. CountInv'
  <2>1. \A g \in Fns : Len(pending'[g]) = Cardinality(Serving(g)')
    <3>1. Len(pending'[f]) = Cardinality(Serving(f)')
      BY <1>0, <1>4, <1>12 DEF IInv, CountInv
    <3>2. \A g \in Fns \ {f} : Len(pending'[g]) = Cardinality(Serving(g)')
      BY <1>3, <1>11 DEF IInv, CountInv
    <3>3. \A g \in Fns : g # f \/ Serving(g)' = Serving(f)'
      BY <1>2
    <3> QED BY <3>1, <3>2, <3>3
  <2> QED BY <2>1 DEF CountInv
<1>14. PlaceInv'
  <2>1. ASSUME NEW d \in Calls \ crossed', pc'[d] = "handler"
        PROVE  pending'[fn'[d]][Cardinality(NoLater(d)')] = d
    <3>1. /\ d \in Calls \ crossed /\ d # c /\ pc[d] = "handler" /\ fn'[d] = fn[d]
          /\ turn[d] \in Nat /\ turn[c] \in Nat
      BY <1>0, <1>2, <2>1 DEF IInv, TypeOK
    <3>2. pending[fn[d]][Cardinality(NoLater(d))] = d
      BY <3>1 DEF IInv, PlaceInv
    <3>3. Cardinality(NoLater(d)) \in 1..Len(pending[fn[d]])
      BY <3>1, PlaceInStack
    <3>4. CASE fn[d] # f
      <4>1. NoLater(d)' = NoLater(d)
        BY <1>2, <1>11, <3>1, <3>4 DEF IInv, TypeOK, NoLater
      <4> QED BY <1>3, <3>1, <3>2, <3>4, <4>1 DEF IInv, TypeOK
    <3>5. CASE fn[d] = f
      <4>1. d \notin later
        BY <1>2, <2>1
      <4>2. d \in Serving(f)
        BY <3>1, <3>5 DEF Serving
      <4>3. turn[d] < turn[c]
        BY <1>0, <3>1, <4>1, <4>2 DEF IInv, TurnInv
      <4>4. NoLater(d)' = NoLater(d)
        BY <1>2, <1>10, <3>1, <3>5, <4>3 DEF NoLater
      <4>5. NoLater(d) \subseteq Serving(f) \ {c}
        BY <3>1, <3>5, <4>3 DEF NoLater
      <4>6. Cardinality(NoLater(d)) <= n - 1
        BY <1>10, <1>12, <4>5, Finite, FS_Subset, FS_RemoveElement
      <4> QED BY <1>4, <3>1, <3>2, <3>3, <3>5, <4>4, <4>6
    <3> QED BY <3>4, <3>5
  <2>2. ASSUME NEW d \in Calls \ crossed', popped'[d] # None
        PROVE  popped'[d] = d
    <3>1. CASE d # c
      BY <1>2, <1>5, <2>2, <3>1 DEF IInv, PlaceInv
    <3>2. CASE d = c
      <4>1. later = {} /\ c \in Calls \ crossed
        BY <1>2, <2>2, <3>2
      <4>2. NoLater(c) = Serving(f)
        BY <4>1 DEF IInv, TypeOK, NoLater, Serving
      <4>3. pending[f][Cardinality(NoLater(c))] = c
        BY <1>0, <4>1 DEF IInv, PlaceInv
      <4> QED BY <1>5, <1>12, <3>2, <4>2, <4>3
    <3> QED BY <3>1, <3>2
  <2> QED BY <2>1, <2>2 DEF PlaceInv
<1> QED BY <1>6, <1>7, <1>8, <1>9, <1>13, <1>14 DEF IInv

LEMMA StutterStep == IInv /\ UNCHANGED vars => IInv'
<1> SUFFICES ASSUME IInv, UNCHANGED vars PROVE IInv'
  OBVIOUS
<1> USE DEF vars
<1>1. /\ \A f : Serving(f)' = Serving(f)
      /\ \A c : NoLater(c)' = NoLater(c)
      /\ HaveTurn' = HaveTurn
  BY DEF Serving, NoLater, HaveTurn
<1>2. TypeOK' /\ ControlInv' /\ TurnInv' /\ EntryInv'
  BY <1>1 DEF IInv, TypeOK, ControlInv, TurnInv, EntryInv
<1>3. CountInv' /\ PlaceInv'
  BY <1>1 DEF IInv, CountInv, PlaceInv
<1> QED BY <1>2, <1>3 DEF IInv

LEMMA Invariance == Spec => []IInv
<1>1. IInv /\ [Next]_vars => IInv'
  BY QuietStep, PushStep, PopStep, StutterStep DEF Next, Step, Terminated
<1> QED BY InitInv, <1>1, PTL DEF Spec

-----------------------------------------------------------------------------
(* Every variable keeps its type.                                           *)
THEOREM TypeCorrect == Spec => []TypeOK
<1>1. IInv => TypeOK
  BY DEF IInv
<1> QED BY Invariance, <1>1, PTL

(* However many calls overlap, the stacks hold one entry for each call      *)
(* between its hooks, and no on-return finds its stack empty.               *)
THEOREM StacksAreBounded == Spec => []Bounded
<1>1. IInv => Bounded
  BY DEF IInv, CountInv, ControlInv, After, Bounded
<1> QED BY Invariance, <1>1, PTL

(* No entry is reported twice, or for another function, or as the end of a  *)
(* span the host was never told of.                                         *)
THEOREM EntriesAreReportedOnce == Spec => []ReportedOnce
<1>1. IInv => ReportedOnce
  <2> SUFFICES ASSUME IInv, NEW c \in Calls, reported[c] # None
               PROVE  /\ fn[reported[c]] = fn[c]
                      /\ builtin = "spans" => reported[c] \in announced
                      /\ \A d \in Calls \ {c} : reported[d] # reported[c]
    BY DEF ReportedOnce
  <2>1. reported[c] = popped[c] /\ popped[c] \in Calls
    BY DEF IInv, TypeOK, ControlInv
  <2>2. fn[popped[c]] = fn[c] /\ turn[popped[c]] # 0
    BY <2>1 DEF IInv, EntryInv
  <2>3. builtin = "spans" => popped[c] \in announced
    BY <2>1, <2>2 DEF IInv, ControlInv, Before
  <2>4. \A d \in Calls \ {c} : reported[d] # reported[c]
    BY <2>1 DEF IInv, ControlInv, EntryInv
  <2> QED BY <2>1, <2>2, <2>3, <2>4
<1> QED BY Invariance, <1>1, PTL

(* A call that nests with all others of its function is paired with itself. *)
THEOREM NestedCallsArePaired == Spec => []NestedCallsPaired
<1>1. IInv => NestedCallsPaired
  BY DEF IInv, PlaceInv, NestedCallsPaired
<1> QED BY Invariance, <1>1, PTL
=============================================================================
