------------------------- MODULE Tier2WrapperProofs -------------------------
(***************************************************************************)
(* Proofs about Tier2Wrapper, for every set of calls and functions, either *)
(* hook or both, and every number of calls in flight.                      *)
(***************************************************************************)
EXTENDS Tier2Wrapper, FiniteSetTheorems, TLAPS

Steps == {"new", "finish", "done"} \union CallSteps

(* The wrapper body moves forward through its own steps.                    *)
LEMMA NextStepCases ==
  \A c :
    /\ NextStep(c, "new") \in {"on_call", "handler"}
    /\ NextStep(c, "on_call") = "handler"
    /\ NextStep(c, "handler") \in {"on_return", "finish"}
    /\ NextStep(c, "on_return") = "finish"
BY DEF NextStep

-----------------------------------------------------------------------------
(* The inductive invariant.  Types, as far as the proofs need them.         *)
Types ==
  /\ running \in Calls \union {None}
  /\ pc \in [Calls -> Steps]
  /\ fn \in [Calls -> Fns]
  /\ await \in [Calls -> Awaits]
  /\ saved \in [Calls -> Nat]
  /\ args \in [Calls -> Nat \union {None}]
  /\ bump \in Nat
  /\ fields \in [Fns -> Nat \union {None}]
  /\ DOMAIN paramsRec = Fns
  /\ DOMAIN after = Fns /\ \A f \in Fns : "id" \in DOMAIN after[f]
  /\ DOMAIN retptr = Fns
  /\ DOMAIN served = Calls /\ DOMAIN result = Calls
  /\ \A h \in heard : h.call \in Calls /\ h.hook \in {"before", "after"}

(* Control: the call that runs is active and waits for nothing; only a step *)
(* that makes a call can be waiting; a call that has not arrived has no     *)
(* arguments.                                                               *)
ControlInv ==
  /\ running \in Calls => pc[running] \notin {"new", "done"} /\ await[running] = "none"
  /\ \A c \in Calls : await[c] # "none" => pc[c] \in CallSteps
  /\ \A c \in Calls : pc[c] = "new" => args[c] = None

(* Heap data of a call at address a, still below the bump pointer.          *)
HoldsIn(h, a, c) == a = None \/ (a \in Nat /\ a \in DOMAIN h /\ h[a] = [of |-> c, to |-> None])
Holds(a, c) == HoldsIn(ram, a, c)
Below(a, b) == a = None \/ a < b

(* Entry: nothing runs between lowering the arguments and the on-call hook. *)
EntryInv ==
  running \in Calls /\ pc[running] = "on_call" =>
    Holds(args[running], running) /\ Below(args[running], bump)

(* Solo: while a call that never overlapped is active it is the only one,   *)
(* so the heap above its snapshot and the static slots are its own, those   *)
(* included that a callee has still to read when it starts.                 *)
ResultIn(c) == pc[c] \in {"on_return", "finish"} \/ (pc[c] = "handler" /\ await[c] = "ready")
SoloHeap(c) == /\ saved[c] <= bump
               /\ Holds(args[c], c) /\ Below(args[c], saved[c])
SoloUnread(c) ==
  await[c] = "starting" =>
    /\ pc[c] = "on_call" => /\ hookParams = [id |-> id[c], fn |-> fn[c]]
                            /\ ram[fields[fn[c]]] = Params(c)
    /\ pc[c] = "handler" /\ fn[c] \in IndirectFns => paramsRec[fn[c]] = Params(c)
    /\ pc[c] = "on_return" => /\ after[fn[c]].id = id[c]
                              /\ fn[c] \in ResultFns => ram[after[fn[c]].cells] = Result(c)
SoloResult(c) ==
  UsesRetptr(fn[c]) => /\ retptr[fn[c]].of = c
                       /\ Holds(retptr[fn[c]].to, c) /\ Below(retptr[fn[c]].to, bump)
Faithful(c) ==
  /\ served[c] # Blank => served[c] = [of |-> c, to |-> c]
  /\ \A h \in heard : h.hook = "after" /\ h.call = c => h.shows = c /\ h.deep = c
  /\ pc[c] = "done" => result[c] = [of |-> c, to |-> c]
Solo(c) ==
  /\ c \in Active => SoloHeap(c) /\ SoloUnread(c)
  /\ ResultIn(c) => SoloResult(c)
  /\ Faithful(c)
AloneInv == \A c, d \in Active : c # d => c \in overlapped
SoloInv == AloneInv /\ \A c \in Calls \ overlapped : Solo(c)

IInv == Types /\ ControlInv /\ EntryInv /\ OnCallFaithful /\ SoloInv

-----------------------------------------------------------------------------
LEMMA InitInv == Init => IInv
<1> SUFFICES ASSUME Init PROVE IInv
  OBVIOUS
<1> USE NoneAssumption DEF Init
<1>1. Types
  <2>1. \A f \in Fns : after[f] = [id |-> 0, cells |-> None]
    OBVIOUS
  <2>2. \A f \in Fns : "id" \in DOMAIN after[f]
    BY <2>1
  <2> QED BY <2>2 DEF Types, Steps, Awaits
<1>2. ControlInv /\ EntryInv
  BY DEF ControlInv, EntryInv
<1>3. OnCallFaithful
  BY DEF OnCallFaithful
<1>4. Active = {}
  BY DEF Active
<1>5. SoloInv
  BY <1>4 DEF SoloInv, AloneInv, Solo, ResultIn, Faithful
<1> QED BY <1>1, <1>2, <1>3, <1>5 DEF IInv

(* Strings and lists that a datum of c points at are found to be of c.      *)
LEMMA DeepOwn ==
  ASSUME NEW c, NEW h, NEW a, HoldsIn(h, a, c)
  PROVE  DeepIn(h, [of |-> c, to |-> a]) = c
BY DEF DeepIn, HoldsIn

(* What a write at the bump pointer leaves alone.                           *)
LEMMA HoldsAfter ==
  ASSUME NEW c, NEW a, NEW d, bump \in Nat, Holds(a, c), Below(a, bump)
  PROVE  HoldsIn(Store(bump, d), a, c) /\ Below(a, bump + 1)
<1>1. CASE a = None
  BY <1>1 DEF HoldsIn, Below
<1>2. CASE a # None
  <2>1. a \in DOMAIN ram \ {bump} /\ ram[a] = [of |-> c, to |-> None] /\ a \in Nat /\ a < bump
    BY <1>2 DEF Holds, HoldsIn, Below
  <2>2. a \in DOMAIN Store(bump, d) /\ Store(bump, d)[a] = ram[a]
    BY <2>1 DEF Store
  <2> QED BY <2>1, <2>2 DEF HoldsIn, Below
<1> QED BY <1>1, <1>2

LEMMA HoldsNew ==
  ASSUME NEW c, bump \in Nat
  PROVE  HoldsIn(Store(bump, [of |-> c, to |-> None]), bump, c) /\ Below(bump, bump + 1)
BY DEF HoldsIn, Below, Store

(* A step of one call in flight leaves alone every other that is alone.     *)
LEMMA OthersSolo ==
  ASSUME IInv, NEW d \in Active, NEW c \in Calls \ {d}, c \notin overlapped,
         pc'[c] = pc[c], served'[c] = served[c], result'[c] = result[c],
         \A h \in heard' : h.call = c => h \in heard
  PROVE  Solo(c)'
<1>1. c \notin Active /\ Solo(c)
  BY DEF IInv, SoloInv, AloneInv, Active
<1>2. c \notin Active' /\ ~ResultIn(c)'
  BY <1>1 DEF Active, ResultIn
<1>3. Faithful(c)'
  BY <1>1 DEF Solo, Faithful
<1> QED BY <1>2, <1>3 DEF Solo

(* No call joins the others except by arriving.                             *)
LEMMA AloneKept ==
  ASSUME AloneInv, Active' \subseteq Active, overlapped' = overlapped
  PROVE  AloneInv'
BY DEF AloneInv

(* In every step but an arrival the call concerned is in flight.            *)
LEMMA RunningActive ==
  ASSUME IInv, NEW d \in Calls, running = d
  PROVE  d \in Active /\ await[d] = "none"
BY DEF IInv, ControlInv, Active
LEMMA WaitingActive ==
  ASSUME IInv, NEW d \in Calls, await[d] # "none"
  PROVE  d \in Active /\ pc[d] \in CallSteps
BY DEF IInv, ControlInv, Active, CallSteps

-----------------------------------------------------------------------------
(* A call arrives: its arguments are the last thing on the heap.            *)
LEMMA InvokeInv ==
  ASSUME IInv, NEW d \in Calls, Invoke(d)
  PROVE  IInv'
<1> USE NoneAssumption DEF IInv
<1>1. Types /\ pc[d] = "new" /\ await[d] = "none" /\ args[d] = None /\ running = None
  BY DEF Invoke, ControlInv, CallSteps
<1>2. pc'[d] \in {"on_call", "handler"} /\ pc' = [pc EXCEPT ![d] = pc'[d]]
  BY <1>1, NextStepCases DEF Invoke, Types
<1>3. bump' \in Nat /\ bump <= bump'
  BY <1>1 DEF Invoke, Types
<1>4. /\ args' \in [Calls -> Nat \union {None}]
      /\ \A c \in Calls \ {d} : args'[c] = args[c]
      /\ HoldsIn(ram', args'[d], d) /\ Below(args'[d], bump')
  <2>1. CASE fn[d] \in ArgFns
    BY <1>1, <2>1, HoldsNew DEF Invoke, Types
  <2>2. CASE fn[d] \notin ArgFns
    BY <1>1, <2>2 DEF Invoke, Types, HoldsIn, Below
  <2> QED BY <2>1, <2>2
<1>5. Types'
  BY <1>1, <1>2, <1>3, <1>4 DEF Invoke, Types, Steps, CallSteps
<1>6. ControlInv'
  BY <1>1, <1>2, <1>4 DEF Invoke, ControlInv, Types, CallSteps
<1>7. EntryInv'
  BY <1>1, <1>4 DEF Invoke, EntryInv, Holds
<1>8. OnCallFaithful'
  BY DEF Invoke, OnCallFaithful
<1>9. AloneInv' /\ \A c \in Calls \ {d} : c \notin overlapped' => c \notin Active
  BY <1>1, <1>2 DEF Invoke, SoloInv, AloneInv, Active, Types
<1>10. ASSUME NEW c \in Calls \ overlapped' PROVE Solo(c)'
  <2>1. c \notin overlapped /\ Solo(c)
    BY DEF SoloInv, Invoke
  <2>2. Faithful(c) /\ (c = d => pc'[c] # "done") /\ (c # d => pc'[c] = pc[c])
    BY <1>1, <1>2, <2>1 DEF Solo, Types
  <2>3. Faithful(c)'
    BY <2>2 DEF Invoke, Faithful
  <2>4. CASE c = d
    <3>1. saved'[d] = bump'
      BY <1>1 DEF Invoke, Types
    <3>2. SoloHeap(d)'
      BY <3>1, <1>3, <1>4 DEF SoloHeap, Holds
    <3>3. ~ResultIn(d)'
      BY <1>1, <1>2 DEF Invoke, ResultIn
    <3>4. SoloUnread(d)'
      BY <1>1 DEF Invoke, SoloUnread
    <3> QED BY <2>3, <2>4, <3>2, <3>3, <3>4 DEF Solo
  <2>5. CASE c # d
    <3>1. pc'[c] \in {"new", "done"}
      BY <1>9, <2>2, <2>5 DEF Active
    <3> QED BY <2>3, <3>1 DEF Solo, Active, ResultIn
  <2> QED BY <2>4, <2>5
<1> QED BY <1>5, <1>6, <1>7, <1>8, <1>9, <1>10 DEF SoloInv
-----------------------------------------------------------------------------
(* The steps of a call in flight.  The heap grows and keeps what is below   *)
(* the bump pointer; what is shown, forwarded and left as the result is the *)
(* call's own, unless a callee starts late in a call that overlaps others.  *)
HeapKept ==
  /\ bump' \in Nat /\ bump <= bump'
  /\ \A a, c : Holds(a, c) /\ Below(a, bump) => HoldsIn(ram', a, c) /\ Below(a, bump')
HookAt(s) == IF s = "on_call" THEN "before" ELSE "after"
ShownIn(d, h) ==
  /\ h.call = d /\ h.hook = HookAt(pc[d])
  /\ ~h.late => h.id = id[d]
  /\ h.hook = "before" /\ ~h.late => h.shows = d /\ h.deep = d
  /\ h.hook = "after" /\ d \notin overlapped => h.shows = d /\ h.deep = d
CallStep(d) ==
  /\ fn' = fn /\ id' = id /\ saved' = saved /\ args' = args /\ result' = result /\ overlapped' = overlapped
  /\ \A c \in Calls \ {d} : pc'[c] = pc[c] /\ served'[c] = served[c]
  /\ pc'[d] \notin {"new", "done"}
  /\ running' = None \/ (running' = d /\ pc'[d] # "on_call")
  /\ \A h \in heard' : h \in heard \/ ShownIn(d, h)
  /\ d \notin overlapped /\ served'[d] # served[d] => served'[d] = [of |-> d, to |-> d]
  /\ d \notin overlapped /\ ResultIn(d)' => SoloResult(d)'
  /\ d \notin overlapped => SoloUnread(d)'

LEMMA CallStepInv ==
  ASSUME IInv, NEW d \in Active, HeapKept, CallStep(d), Types', ControlInv'
  PROVE  IInv'
<1> USE NoneAssumption DEF IInv
<1>1. d \in Calls
  BY DEF Active
<1>2. EntryInv'
  BY <1>1 DEF EntryInv, CallStep
<1>3. OnCallFaithful'
  BY DEF CallStep, OnCallFaithful, ShownIn
<1>4. AloneInv'
  <2>1. Active' \subseteq Active
    BY <1>1 DEF CallStep, Active
  <2> QED BY <2>1, AloneKept DEF CallStep, SoloInv
<1>5. ASSUME NEW c \in Calls \ overlapped' PROVE Solo(c)'
  <2>1. c \notin overlapped /\ Solo(c)
    BY DEF SoloInv, CallStep
  <2>2. CASE c # d
    BY <2>1, <2>2, OthersSolo DEF CallStep, ShownIn
  <2>3. CASE c = d
    <3>1. SoloHeap(d) /\ Faithful(d) /\ d \notin overlapped
      BY <2>1, <2>3 DEF Solo
    <3>2. Below(args[d], bump)
      BY <3>1, <1>1 DEF SoloHeap, Below, Types
    <3>3. SoloHeap(d)'
      BY <3>1, <3>2, <1>1 DEF SoloHeap, HeapKept, CallStep, Holds, Types
    <3>4. Faithful(d)'
      BY <3>1, <1>1 DEF Faithful, CallStep, ShownIn
    <3> QED BY <2>3, <3>1, <3>3, <3>4 DEF Solo, CallStep
  <2> QED BY <2>2, <2>3
<1> QED BY <1>2, <1>3, <1>4, <1>5 DEF SoloInv

(* Memory the step leaves alone, or writes one block of.                    *)
LEMMA Unwritten ==
  ASSUME Types, bump' = bump, ram' = ram
  PROVE  HeapKept
BY DEF HeapKept, Types, Holds
LEMMA BlockWritten ==
  ASSUME Types, NEW b, bump' = bump + 1, ram' = Store(bump, b)
  PROVE  HeapKept
<1>1. bump \in Nat
  BY DEF Types
<1> QED BY <1>1, HoldsAfter DEF HeapKept

(* What a callee that starts now finds where it reads its parameters.       *)
Found(d) ==
  /\ pc[d] = "on_call" => /\ hookParams' = [id |-> id[d], fn |-> fn[d]]
                          /\ ram'[fields'[fn[d]]] = Params(d)
                          /\ DeepIn(ram', Params(d)) = d
  /\ pc[d] = "handler" /\ fn[d] \in IndirectFns => paramsRec'[fn[d]] = Params(d)
  /\ pc[d] = "on_return" => /\ after'[fn[d]].id = id[d]
                            /\ fn[d] \in ResultFns => ram'[after'[fn[d]].cells] = Result(d)
                            /\ d \notin overlapped => Result(d).of = d /\ DeepIn(ram', Result(d)) = d
Placed(d) ==
  /\ HeapKept /\ retptr' = retptr
  /\ fields' \in [Fns -> Nat \union {None}]
  /\ DOMAIN paramsRec' = Fns
  /\ DOMAIN after' = Fns /\ \A f \in Fns : "id" \in DOMAIN after'[f]
  /\ Found(d)

LEMMA OnCallEffect ==
  ASSUME IInv, NEW d \in Calls, running = d, OnCall(d), retptr' = retptr
  PROVE  Placed(d)
<1> USE DEF IInv
<1>1. bump \in Nat /\ fn[d] \in Fns /\ pc[d] = "on_call" /\ d # None /\ Types
  BY NoneAssumption DEF Types, OnCall
<1>2. /\ ram' = Store(bump, Params(d)) /\ bump' = bump + 1 /\ fields' = [fields EXCEPT ![fn[d]] = bump]
      /\ hookParams' = [id |-> id[d], fn |-> fn[d]] /\ UNCHANGED <<paramsRec, after>>
  BY DEF OnCall, SlabAt, Patched, CallIdFor
<1>3. HeapKept
  BY <1>2, BlockWritten
<1>4. HoldsIn(ram', args[d], d)
  <2>1. Holds(args[d], d) /\ Below(args[d], bump)
    BY <1>1 DEF EntryInv
  <2> QED BY <2>1, <1>1, <1>2, HoldsAfter
<1>5. ram'[fields'[fn[d]]] = Params(d)
  BY <1>1, <1>2 DEF Types, Store
<1>6. DeepIn(ram', Params(d)) = d
  BY <1>4, DeepOwn DEF Params
<1>7. Found(d)
  BY <1>1, <1>2, <1>5, <1>6 DEF Found
<1> QED BY <1>1, <1>2, <1>3, <1>7 DEF Types, Placed

(* The result a call that is alone finds when it reads it.                  *)
LEMMA ResultOwn ==
  ASSUME IInv, NEW d \in Calls \ overlapped, ResultIn(d), NEW h,
         \A a : Holds(a, d) /\ Below(a, bump) => HoldsIn(h, a, d)
  PROVE  Result(d).of = d /\ DeepIn(h, Result(d)) = d
<1>1. SoloResult(d)
  BY DEF IInv, SoloInv, Solo
<1>2. CASE UsesRetptr(fn[d])
  <2>1. retptr[fn[d]].of = d /\ HoldsIn(h, retptr[fn[d]].to, d)
    BY <1>1, <1>2 DEF SoloResult
  <2> QED BY <1>2, <2>1 DEF Result, DeepIn, HoldsIn
<1>3. CASE ~UsesRetptr(fn[d])
  BY <1>3 DEF Result, DeepIn
<1> QED BY <1>2, <1>3

LEMMA OnReturnEffect ==
  ASSUME IInv, NEW d \in Calls, OnReturn(d), retptr' = retptr
  PROVE  Placed(d)
<1> USE DEF IInv
<1>1. /\ bump \in Nat /\ fn[d] \in Fns /\ ResultIn(d) /\ Types /\ pc[d] = "on_return"
      /\ UNCHANGED <<fields, paramsRec>> /\ \A f \in Fns : "id" \in DOMAIN after[f]
  BY DEF Types, OnReturn, ResultIn
<1>2. CASE fn[d] \in ResultFns
  <2>1. /\ ram' = Store(bump, Result(d)) /\ bump' = bump + 1
        /\ after' = [after EXCEPT ![fn[d]] = [id |-> id[d], cells |-> bump]]
    BY <1>2 DEF OnReturn, SlabAt, CallIdFor
  <2>2. HeapKept
    BY <1>1, <2>1, BlockWritten
  <2>3. after'[fn[d]] = [id |-> id[d], cells |-> bump] /\ \A f \in Fns \ {fn[d]} : after'[f] = after[f]
    BY <1>1, <2>1 DEF Types
  <2>4. DOMAIN after' = Fns /\ \A f \in Fns : "id" \in DOMAIN after'[f]
    BY <1>1, <2>1, <2>3 DEF Types
  <2>5. ram'[after'[fn[d]].cells] = Result(d)
    BY <1>1, <2>1, <2>3 DEF Store
  <2>6. d \notin overlapped => Result(d).of = d /\ DeepIn(ram', Result(d)) = d
    BY <1>1, <2>2, ResultOwn DEF HeapKept
  <2> QED BY <1>1, <2>2, <2>3, <2>4, <2>5, <2>6 DEF Placed, Found, Types
<1>3. CASE fn[d] \notin ResultFns
  <2>1. ram' = ram /\ bump' = bump /\ after' = [after EXCEPT ![fn[d]] = [after[fn[d]] EXCEPT !.id = id[d]]]
    BY <1>3 DEF OnReturn, CallIdFor
  <2>2. /\ after'[fn[d]] = [after[fn[d]] EXCEPT !.id = id[d]]
        /\ \A f \in Fns \ {fn[d]} : after'[f] = after[f]
    BY <1>1, <2>1 DEF Types
  <2>3. after'[fn[d]].id = id[d] /\ DOMAIN after' = Fns /\ \A f \in Fns : "id" \in DOMAIN after'[f]
    BY <1>1, <2>1, <2>2 DEF Types
  <2>4. HeapKept
    BY <1>1, <2>1, Unwritten
  <2>5. d \notin overlapped => Result(d).of = d /\ DeepIn(ram', Result(d)) = d
    BY <1>1, <2>4, ResultOwn DEF HeapKept
  <2> QED BY <1>1, <1>3, <2>3, <2>4, <2>5 DEF Placed, Found, Types
<1> QED BY <1>2, <1>3

LEMMA ForwardEffect ==
  ASSUME IInv, NEW d \in Calls, pc[d] = "handler",
         paramsRec' = IF fn[d] \in IndirectFns THEN [paramsRec EXCEPT ![fn[d]] = Params(d)] ELSE paramsRec
  PROVE  Found(d) /\ DOMAIN paramsRec' = Fns
BY DEF IInv, Types, Found

(* The three calls a wrapper issues, whether they return at once or not.    *)
LEMMA IssueEffect ==
  ASSUME IInv, NEW d \in Calls, running = d, Issue(d), retptr' = retptr
  PROVE  Placed(d)
<1>1. Types
  BY DEF IInv
<1>2. CASE Forward(d)
  BY <1>1, <1>2, Unwritten, ForwardEffect DEF Forward, Placed, Types
<1> QED BY <1>2, OnCallEffect, OnReturnEffect DEF Issue

(* A callee that had to wait in a call that is alone finds the same.        *)
LEMMA StillFound ==
  ASSUME IInv, NEW d \in Active \ overlapped, await[d] = "starting", UNCHANGED mem
  PROVE  Found(d)
<1>1. d \in Calls /\ SoloHeap(d) /\ SoloUnread(d) /\ UNCHANGED <<bump, ram, fields, hookParams, paramsRec, after>>
  BY DEF IInv, SoloInv, Solo, Active, mem
<1>2. DeepIn(ram', Params(d)) = d
  BY <1>1, DeepOwn DEF SoloHeap, Holds, Params
<1>3. pc[d] = "on_return" => Result(d).of = d /\ DeepIn(ram', Result(d)) = d
  BY <1>1, ResultOwn DEF ResultIn, Holds
<1> QED BY <1>1, <1>2, <1>3 DEF Found, SoloUnread

(* What the callee makes of it.                                             *)
Late(d) == await[d] = "starting" /\ d \in overlapped
LEMMA BeginsEffect ==
  ASSUME IInv, NEW d \in Active, pc[d] \in CallSteps, Begins(d), ~Late(d) => Found(d)
  PROVE  /\ pc[d] # "handler" => served' = served /\ \E h : heard' = heard \union {h} /\ ShownIn(d, h)
         /\ pc[d] = "handler" => /\ heard' = heard /\ served' = [served EXCEPT ![d] = served'[d]]
                                 /\ d \notin overlapped => served'[d] = [of |-> d, to |-> d]
<1>1. d \in Calls /\ d \in DOMAIN served
  BY DEF Active, IInv, Types
<1>2. CASE pc[d] = "handler"
  <2> DEFINE given == IF fn[d] \in IndirectFns THEN paramsRec'[fn[d]] ELSE Params(d)
  <2>1. served' = [served EXCEPT ![d] = [of |-> given.of, to |-> Deep(given)]] /\ heard' = heard
    BY <1>2 DEF Begins
  <2>2. ASSUME d \notin overlapped PROVE given.of = d /\ Deep(given) = d
    <3>1. given = Params(d)
      BY <1>2, <2>2 DEF Found, Late
    <3>2. HoldsIn(ram, args[d], d)
      BY <1>1, <2>2 DEF IInv, SoloInv, Solo, SoloHeap, Holds
    <3> QED BY <3>1, <3>2, DeepOwn DEF Deep, Params
  <2> QED BY <1>1, <1>2, <2>1, <2>2
<1>3. CASE pc[d] = "on_call"
  <2> DEFINE tree == ram'[fields'[hookParams'.fn]]
             new == [hook |-> "before", call |-> d, id |-> hookParams'.id, shows |-> tree.of,
                     deep |-> DeepIn(ram', tree), late |-> Late(d)]
  <2>1. served' = served /\ heard' = heard \union {new}
    BY <1>3 DEF Begins, Tell, Late
  <2>2. ~Late(d) => hookParams'.id = id[d] /\ tree.of = d /\ DeepIn(ram', tree) = d
    BY <1>3 DEF Found, Params
  <2>3. /\ new.hook = "before" /\ new.call = d /\ new.id = hookParams'.id /\ new.shows = tree.of
        /\ new.deep = DeepIn(ram', tree)
    OBVIOUS
  <2>4. new.late = Late(d)
    BY Zenon
  <2> HIDE DEF new
  <2>5. ShownIn(d, new)
    BY <1>3, <2>2, <2>3, <2>4 DEF ShownIn, HookAt
  <2> QED BY <1>3, <2>1, <2>5
<1>4. CASE pc[d] = "on_return"
  <2> DEFINE tree == IF fn[d] \in ResultFns THEN ram'[after'[fn[d]].cells] ELSE [of |-> d, to |-> None]
             new == [hook |-> "after", call |-> d, id |-> after'[fn[d]].id, shows |-> tree.of,
                     deep |-> DeepIn(ram', tree), late |-> Late(d)]
  <2>1. served' = served /\ heard' = heard \union {new}
    BY <1>4 DEF Begins, Tell, Late
  <2>2. ~Late(d) => after'[fn[d]].id = id[d]
    BY <1>4 DEF Found
  <2>3. d \notin overlapped => tree.of = d /\ DeepIn(ram', tree) = d
    <3>1. CASE fn[d] \in ResultFns
      BY <1>4, <3>1 DEF Found, Late
    <3>2. CASE fn[d] \notin ResultFns
      BY <3>2 DEF DeepIn
    <3> QED BY <3>1, <3>2
  <2>4. /\ new.hook = "after" /\ new.call = d /\ new.id = after'[fn[d]].id /\ new.shows = tree.of
        /\ new.deep = DeepIn(ram', tree)
    OBVIOUS
  <2>5. new.late = Late(d)
    BY Zenon
  <2> HIDE DEF new
  <2>6. ShownIn(d, new)
    BY <1>4, <2>2, <2>3, <2>4, <2>5 DEF ShownIn, HookAt
  <2> QED BY <1>4, <2>1, <2>6
<1> QED BY <1>2, <1>3, <1>4 DEF CallSteps

(* ... and what that means for the histories.                               *)
Learns(d) ==
  /\ \A h \in heard' : h \in heard \/ ShownIn(d, h)
  /\ DOMAIN served' = Calls
  /\ \A c \in Calls \ {d} : served'[c] = served[c]
  /\ d \notin overlapped /\ served'[d] # served[d] => served'[d] = [of |-> d, to |-> d]
LEMMA BeginsTells ==
  ASSUME IInv, NEW d \in Active, pc[d] \in CallSteps, Begins(d), ~Late(d) => Found(d)
  PROVE  Learns(d)
<1>1. DOMAIN served = Calls /\ d \in Calls
  BY DEF IInv, Types, Active
<1>2. CASE pc[d] = "handler"
  BY <1>1, <1>2, BeginsEffect DEF Learns
<1>3. CASE pc[d] # "handler"
  BY <1>1, <1>3, BeginsEffect DEF Learns
<1> QED BY <1>2, <1>3
LEMMA NothingLearnt ==
  ASSUME IInv, NEW d \in Calls, UNCHANGED <<heard, served>>
  PROVE  Learns(d)
BY DEF IInv, Types, Learns
LEMMA LearnsType ==
  ASSUME IInv, NEW d \in Calls, Learns(d)
  PROVE  \A h \in heard' : h.call \in Calls /\ h.hook \in {"before", "after"}
BY DEF IInv, Types, Learns, ShownIn, HookAt

LEMMA HandlerReturnsEffect ==
  ASSUME IInv, NEW d \in Calls, HandlerReturns(d), fn' = fn
  PROVE  /\ HeapKept
         /\ DOMAIN retptr' = Fns
         /\ pc[d] = "handler" => SoloResult(d)'
         /\ pc[d] # "handler" => retptr' = retptr
<1> USE DEF IInv
<1>1. Types /\ bump \in Nat /\ fn[d] \in Fns
  BY DEF Types
<1>2. CASE pc[d] = "handler" /\ UsesRetptr(fn[d]) /\ fn[d] \in HeapFns
  <2>1. /\ ram' = Store(bump, [of |-> d, to |-> None]) /\ bump' = bump + 1
        /\ retptr' = [retptr EXCEPT ![fn[d]] = [of |-> d, to |-> bump]]
    BY <1>2 DEF HandlerReturns
  <2>2. HoldsIn(ram', bump, d) /\ Below(bump, bump')
    BY <1>1, <2>1, HoldsNew
  <2>3. retptr'[fn[d]] = [of |-> d, to |-> bump] /\ DOMAIN retptr' = Fns
    BY <1>1, <2>1 DEF Types
  <2> QED BY <1>1, <1>2, <2>1, <2>2, <2>3, BlockWritten DEF SoloResult, Holds
<1>3. CASE pc[d] = "handler" /\ UsesRetptr(fn[d]) /\ fn[d] \notin HeapFns
  <2>1. retptr' = [retptr EXCEPT ![fn[d]] = [of |-> d, to |-> None]] /\ ram' = ram /\ bump' = bump
    BY <1>3 DEF HandlerReturns
  <2> QED BY <1>1, <1>3, <2>1, Unwritten DEF Types, SoloResult, Holds, HoldsIn, Below
<1>4. CASE ~(pc[d] = "handler" /\ UsesRetptr(fn[d]))
  <2>1. retptr' = retptr /\ ram' = ram /\ bump' = bump
    BY <1>4 DEF HandlerReturns
  <2> QED BY <1>1, <1>4, <2>1, Unwritten DEF Types, SoloResult, UsesRetptr
<1> QED BY <1>2, <1>3, <1>4

LEMMA ResultKept ==
  ASSUME IInv, NEW d \in Calls \ overlapped, ResultIn(d), HeapKept, retptr' = retptr, fn' = fn
  PROVE  SoloResult(d)'
<1>1. SoloResult(d)
  BY DEF IInv, SoloInv, Solo
<1> QED BY <1>1 DEF SoloResult, UsesRetptr, HeapKept, Holds

(* The call is issued and waits: it has started, or is STARTING.            *)
LEMMA WaitsEffect ==
  ASSUME IInv, NEW d \in Calls, Waits(d)
  PROVE  /\ d \in Active /\ await[d] = "none" /\ pc[d] \in CallSteps /\ Placed(d)
         /\ UNCHANGED <<fn, id, saved, args, result, overlapped, pc>> /\ running' = None
         /\ ResultIn(d) /\ d \notin overlapped => SoloResult(d)'
<1>1. d \in Active /\ await[d] = "none" /\ pc[d] \in CallSteps /\ Placed(d)
  BY RunningActive, IssueEffect DEF Waits, Issue, OnCall, Forward, OnReturn, CallSteps
<1>2. UNCHANGED <<fn, id, saved, args, result, overlapped, pc>> /\ running' = None
  BY DEF Waits, local
<1> QED BY <1>1, <1>2, ResultKept DEF Placed

LEMMA CallStartedInv ==
  ASSUME IInv, NEW d \in Calls, CallStarted(d) \/ CallStarting(d)
  PROVE  IInv'
<1>1. /\ d \in Active /\ await[d] = "none" /\ pc[d] \in CallSteps /\ Placed(d)
      /\ UNCHANGED <<fn, id, saved, args, result, overlapped, pc>> /\ running' = None
      /\ ResultIn(d) /\ d \notin overlapped => SoloResult(d)'
      /\ running = d
  BY WaitsEffect DEF CallStarted, CallStarting, Waits
<1>2. Types /\ ControlInv
  BY DEF IInv
<1>3. /\ await' \in [Calls -> Awaits]
      /\ await'[d] \in {"starting", "pending"} /\ \A c \in Calls \ {d} : await'[c] = await[c]
  BY <1>2 DEF CallStarted, CallStarting, Types, Awaits
<1>4. Learns(d)
  <2>1. CASE CallStarted(d)
    BY <1>1, <2>1, BeginsTells DEF CallStarted, Placed
  <2>2. CASE CallStarting(d)
    BY <2>2, NothingLearnt DEF CallStarting
  <2> QED BY <2>1, <2>2
<1>5. Types'
  BY <1>1, <1>2, <1>3, <1>4, LearnsType DEF Types, Placed, HeapKept, Learns
<1>6. ControlInv'
  BY <1>1, <1>2, <1>3, NoneAssumption DEF ControlInv, Types
<1>7. d \notin overlapped /\ ResultIn(d)' => SoloResult(d)'
  BY <1>1, <1>3 DEF ResultIn
<1>8. d \notin overlapped => SoloUnread(d)'
  <2>1. Params(d)' = Params(d) /\ Result(d)' = Result(d)
    BY <1>1 DEF Params, Result, Placed
  <2> QED BY <1>1, <2>1 DEF SoloUnread, Placed, Found
<1>9. CallStep(d)
  BY <1>1, <1>4, <1>7, <1>8 DEF CallStep, CallSteps, Learns
<1> QED BY <1>1, <1>5, <1>6, <1>9, CallStepInv DEF Placed

LEMMA StartInv ==
  ASSUME IInv, NEW d \in Calls, Start(d)
  PROVE  IInv'
<1>1. d \in Active /\ running = None /\ await[d] = "starting" /\ pc[d] \in CallSteps
  BY WaitingActive DEF Start
<1>2. Types /\ ControlInv
  BY DEF IInv
<1>3. /\ UNCHANGED <<fn, id, saved, args, result, overlapped, pc, running>>
      /\ UNCHANGED <<bump, ram, fields, paramsRec, after, retptr>>
      /\ await' = [await EXCEPT ![d] = "announced"]
  BY DEF Start, local, mem
<1>4. Learns(d)
  <2>1. ~Late(d) => Found(d)
    BY <1>1, StillFound DEF Late, Start
  <2> QED BY <1>1, <2>1, BeginsTells DEF Start
<1>5. HeapKept
  BY <1>2, <1>3, Unwritten
<1>6. Types'
  <2>1. await' \in [Calls -> Awaits]
    BY <1>2, <1>3 DEF Types, Awaits
  <2> QED BY <1>2, <1>3, <1>4, <2>1, LearnsType DEF Types, Learns
<1>7. ControlInv'
  BY <1>1, <1>2, <1>3, NoneAssumption DEF ControlInv, Types
<1>8. d \notin overlapped /\ ResultIn(d)' => SoloResult(d)'
  <2>1. ResultIn(d)' => ResultIn(d)
    BY <1>2, <1>3 DEF ResultIn, Types
  <2> QED BY <1>3, <1>5, <2>1, ResultKept
<1>9. d \notin overlapped => SoloUnread(d)'
  BY <1>2, <1>3 DEF SoloUnread, Types
<1>10. CallStep(d)
  BY <1>1, <1>3, <1>4, <1>8, <1>9 DEF CallStep, CallSteps, Learns
<1> QED BY <1>1, <1>5, <1>6, <1>7, <1>10, CallStepInv

LEMMA HookReturnedInv ==
  ASSUME IInv, NEW d \in Calls, HookReturned(d)
  PROVE  IInv'
<1>1. d \in Active /\ running = d /\ await[d] = "none" /\ pc[d] \in {"on_call", "on_return"} /\ Placed(d)
  BY RunningActive, IssueEffect DEF HookReturned, Issue, OnCall, OnReturn
<1>2. Types /\ ControlInv
  BY DEF IInv
<1>3. /\ UNCHANGED <<fn, id, saved, args, result, overlapped, await>> /\ running' = d
      /\ pc' = [pc EXCEPT ![d] = NextStep(d, pc[d])]
  BY <1>1 DEF HookReturned, local
<1>4. /\ pc'[d] = IF pc[d] = "on_call" THEN "handler" ELSE "finish"
      /\ \A c \in Calls \ {d} : pc'[c] = pc[c]
  BY <1>1, <1>2, <1>3, NextStepCases DEF Types
<1>5. Learns(d)
  BY <1>1, BeginsTells DEF HookReturned, Placed, CallSteps
<1>6. Types'
  <2>1. pc' \in [Calls -> Steps]
    BY <1>2, <1>3, <1>4 DEF Types, Steps, CallSteps
  <2> QED BY <1>1, <1>2, <1>3, <1>5, <2>1, LearnsType DEF Types, Placed, HeapKept, Learns
<1>7. ControlInv'
  BY <1>1, <1>2, <1>3, <1>4 DEF ControlInv
<1>8. d \notin overlapped /\ ResultIn(d)' => SoloResult(d)'
  <2>1. ResultIn(d)' => ResultIn(d)
    BY <1>1, <1>3, <1>4 DEF ResultIn
  <2> QED BY <1>1, <1>3, <2>1, ResultKept DEF Placed
<1>9. CallStep(d)
  BY <1>1, <1>3, <1>4, <1>5, <1>8 DEF CallStep, Learns, SoloUnread
<1> QED BY <1>1, <1>6, <1>7, <1>9, CallStepInv DEF Placed

LEMMA HandlerReturnedInv ==
  ASSUME IInv, NEW d \in Calls, HandlerReturned(d)
  PROVE  IInv'
<1>1. d \in Active /\ running = d /\ await[d] = "none" /\ pc[d] = "handler"
  BY RunningActive DEF HandlerReturned
<1>2. Types /\ ControlInv
  BY DEF IInv
<1>3. /\ UNCHANGED <<fn, id, saved, args, result, overlapped, await, fields, after>> /\ running' = d
      /\ pc' = [pc EXCEPT ![d] = NextStep(d, "handler")]
      /\ HandlerReturns(d)
  BY <1>1 DEF HandlerReturned, local
<1>4. pc'[d] \in {"on_return", "finish"} /\ \A c \in Calls \ {d} : pc'[c] = pc[c]
  BY <1>1, <1>2, <1>3, NextStepCases DEF Types
<1>5. HeapKept /\ DOMAIN retptr' = Fns /\ SoloResult(d)'
  BY <1>1, <1>3, HandlerReturnsEffect
<1>6. DOMAIN paramsRec' = Fns /\ Found(d)
  BY <1>1, ForwardEffect DEF HandlerReturned
<1>7. Learns(d)
  BY <1>1, <1>6, BeginsTells DEF HandlerReturned, CallSteps
<1>8. Types'
  <2>1. pc' \in [Calls -> Steps]
    BY <1>2, <1>3, <1>4 DEF Types, Steps, CallSteps
  <2> QED BY <1>2, <1>3, <1>5, <1>6, <1>7, <2>1, LearnsType DEF Types, HeapKept, Learns
<1>9. ControlInv'
  BY <1>1, <1>2, <1>3, <1>4 DEF ControlInv
<1>10. CallStep(d)
  BY <1>1, <1>3, <1>4, <1>5, <1>7 DEF CallStep, Learns, SoloUnread
<1> QED BY <1>1, <1>5, <1>8, <1>9, <1>10, CallStepInv

LEMMA CompleteInv ==
  ASSUME IInv, NEW d \in Calls, Complete(d)
  PROVE  IInv'
<1>1. d \in Active /\ running = None /\ await[d] \in {"pending", "announced"} /\ pc[d] \in CallSteps
  BY WaitingActive DEF Complete
<1>2. Types /\ ControlInv
  BY DEF IInv
<1>3. /\ UNCHANGED <<fn, id, saved, args, result, overlapped, pc, fields, paramsRec, after, heard, served>>
      /\ running' = None /\ await' = [await EXCEPT ![d] = "ready"] /\ HandlerReturns(d)
  BY <1>1 DEF Complete, local, hist
<1>4. /\ HeapKept /\ DOMAIN retptr' = Fns
      /\ pc[d] = "handler" => SoloResult(d)'
      /\ pc[d] # "handler" => retptr' = retptr
  BY <1>3, HandlerReturnsEffect
<1>5. Types'
  <2>1. await' \in [Calls -> Awaits]
    BY <1>2, <1>3 DEF Types, Awaits
  <2> QED BY <1>2, <1>3, <1>4, <2>1 DEF Types, HeapKept
<1>6. ControlInv'
  BY <1>1, <1>2, <1>3, NoneAssumption DEF ControlInv, Types
<1>7. d \notin overlapped /\ ResultIn(d)' => SoloResult(d)'
  <2>1. ResultIn(d)' => pc[d] = "handler" \/ ResultIn(d)
    BY <1>3 DEF ResultIn
  <2> QED BY <1>3, <1>4, <2>1, ResultKept
<1>8. CallStep(d)
  BY <1>1, <1>2, <1>3, <1>7 DEF CallStep, CallSteps, SoloUnread, Types
<1> QED BY <1>1, <1>4, <1>5, <1>6, <1>8, CallStepInv

LEMMA ResumeInv ==
  ASSUME IInv, NEW d \in Calls, Resume(d)
  PROVE  IInv'
<1>1. d \in Active /\ running = None /\ await[d] = "ready" /\ pc[d] \in CallSteps
  BY WaitingActive DEF Resume
<1>2. Types /\ ControlInv
  BY DEF IInv
<1>3. /\ UNCHANGED <<fn, id, saved, args, result, overlapped, heard, served>>
      /\ UNCHANGED <<bump, ram, fields, paramsRec, after, retptr>>
      /\ running' = d /\ await' = [await EXCEPT ![d] = "none"]
      /\ pc' = [pc EXCEPT ![d] = NextStep(d, pc[d])]
  BY DEF Resume, local, hist, mem
<1>4. /\ pc'[d] \in {"handler", "on_return", "finish"}
      /\ pc'[d] = "handler" <=> pc[d] = "on_call"
      /\ \A c \in Calls \ {d} : pc'[c] = pc[c]
  BY <1>1, <1>2, <1>3, NextStepCases DEF Types, CallSteps
<1>5. HeapKept
  BY <1>2, <1>3, Unwritten
<1>6. Types'
  <2>1. pc' \in [Calls -> Steps]
    BY <1>2, <1>3, <1>4 DEF Types, Steps, CallSteps
  <2>2. await' \in [Calls -> Awaits]
    BY <1>2, <1>3 DEF Types, Awaits
  <2> QED BY <1>2, <1>3, <2>1, <2>2 DEF Types
<1>7. ControlInv'
  BY <1>1, <1>2, <1>3, <1>4 DEF ControlInv, Types
<1>8. await'[d] = "none"
  BY <1>2, <1>3 DEF Types
<1>9. d \notin overlapped /\ ResultIn(d)' => SoloResult(d)'
  <2>1. ResultIn(d)' => ResultIn(d)
    BY <1>1, <1>4, <1>8 DEF ResultIn, CallSteps
  <2> QED BY <1>3, <1>5, <2>1, ResultKept
<1>10. CallStep(d)
  BY <1>3, <1>4, <1>8, <1>9 DEF CallStep, SoloUnread
<1> QED BY <1>1, <1>5, <1>6, <1>7, <1>10, CallStepInv

(* The event that it started ends the instance, and changes nothing else.   *)
LEMMA ResumeOnStartInv ==
  ASSUME IInv, NEW d \in Calls, ResumeOnStart(d)
  PROVE  IInv'
<1>1. d \in Active /\ running = None /\ await[d] = "announced" /\ pc[d] \in CallSteps
  BY WaitingActive DEF ResumeOnStart
<1>2. Types /\ ControlInv
  BY DEF IInv
<1>3. /\ UNCHANGED <<fn, id, saved, args, result, overlapped, heard, served, pc, running>>
      /\ UNCHANGED <<bump, ram, fields, paramsRec, after, retptr>>
      /\ await' = [await EXCEPT ![d] = "dropped"]
  BY DEF ResumeOnStart, local, hist, mem
<1>4. HeapKept
  BY <1>2, <1>3, Unwritten
<1>5. Types'
  <2>1. await' \in [Calls -> Awaits]
    BY <1>2, <1>3 DEF Types, Awaits
  <2> QED BY <1>2, <1>3, <2>1 DEF Types
<1>6. ControlInv'
  BY <1>1, <1>2, <1>3, NoneAssumption DEF ControlInv, Types
<1>7. await'[d] = "dropped"
  BY <1>2, <1>3 DEF Types
<1>8. d \notin overlapped /\ ResultIn(d)' => SoloResult(d)'
  <2>1. ResultIn(d)' => ResultIn(d)
    BY <1>3, <1>7 DEF ResultIn
  <2> QED BY <1>3, <1>4, <2>1, ResultKept
<1>9. CallStep(d)
  BY <1>1, <1>3, <1>7, <1>8 DEF CallStep, CallSteps, SoloUnread
<1> QED BY <1>1, <1>4, <1>5, <1>6, <1>9, CallStepInv

(* The call returns: it leaves the heap above its arguments, and nobody     *)
(* that is alone was using it.                                              *)
LEMMA FinishInv ==
  ASSUME IInv, NEW d \in Calls, Finish(d)
  PROVE  IInv'
<1>1. d \in Active /\ running = d /\ await[d] = "none" /\ pc[d] = "finish"
  BY RunningActive DEF Finish
<1>2. Types /\ ControlInv
  BY DEF IInv
<1>3. /\ fn' = fn /\ saved' = saved /\ args' = args /\ overlapped' = overlapped
      /\ running' = None /\ fields' = fields /\ paramsRec' = paramsRec /\ after' = after
      /\ heard' = heard /\ served' = served /\ bump' = saved[d] /\ retptr' = retptr /\ await' = await
      /\ pc' = [pc EXCEPT ![d] = "done"]
      /\ result' = [result EXCEPT ![d] = [of |-> Result(d).of, to |-> Deep(Result(d))]]
  BY DEF Finish, local, RestoredBump
<1>4. pc'[d] = "done" /\ \A c \in Calls \ {d} : pc'[c] = pc[c] /\ result'[c] = result[c]
  BY <1>2, <1>3 DEF Types
<1>5. Types'
  <2>1. pc' \in [Calls -> Steps]
    BY <1>2, <1>3 DEF Types, Steps
  <2> QED BY <1>2, <1>3, <2>1 DEF Types
<1>6. ControlInv' /\ EntryInv'
  BY <1>1, <1>2, <1>3, <1>4, NoneAssumption DEF ControlInv, EntryInv
<1>7. OnCallFaithful'
  BY <1>3 DEF IInv, OnCallFaithful
<1>8. AloneInv'
  <2>1. Active' \subseteq Active
    BY <1>4 DEF Active
  <2> QED BY <1>3, <2>1, AloneKept DEF IInv, SoloInv
<1>9. ASSUME NEW c \in Calls \ overlapped' PROVE Solo(c)'
  <2>1. c \notin overlapped /\ Solo(c)
    BY <1>3 DEF IInv, SoloInv
  <2>2. CASE c # d
    BY <1>1, <1>3, <1>4, <2>1, <2>2, OthersSolo
  <2>3. CASE c = d
    <3>1. Result(d).of = d /\ Deep(Result(d)) = d
      BY <1>1, <2>1, <2>3, ResultOwn DEF Deep, ResultIn, Holds
    <3>2. result'[d] = [of |-> d, to |-> d]
      BY <1>2, <1>3, <3>1 DEF Types
    <3>3. Faithful(d)'
      BY <1>3, <2>1, <2>3, <3>2 DEF Solo, Faithful
    <3>4. d \notin Active' /\ ~ResultIn(d)'
      BY <1>4 DEF Active, ResultIn
    <3> QED BY <2>3, <3>3, <3>4 DEF Solo
  <2> QED BY <2>2, <2>3
<1> QED BY <1>5, <1>6, <1>7, <1>8, <1>9 DEF IInv, SoloInv

(* Neither a trap nor stuttering touches what the invariant is about.       *)
LEMMA UntouchedInv ==
  ASSUME IInv,
         UNCHANGED <<running, pc, fn, await, id, saved, args, bump, ram, fields, hookParams,
                     paramsRec, after, retptr, heard, served, result, overlapped>>
  PROVE  IInv'
<1>1. Types' /\ ControlInv' /\ EntryInv' /\ OnCallFaithful'
  BY DEF IInv, Types, ControlInv, EntryInv, OnCallFaithful, Holds
<1>2. AloneInv'
  BY DEF IInv, SoloInv, AloneInv, Active
<1>3. ASSUME NEW c \in Calls \ overlapped' PROVE Solo(c)'
  <2>1. Solo(c)
    BY DEF IInv, SoloInv
  <2> QED BY <2>1 DEF Solo, Active, ResultIn, SoloHeap, SoloUnread, Params, Result, SoloResult, UsesRetptr,
               Faithful, Holds
<1> QED BY <1>1, <1>2, <1>3 DEF IInv, SoloInv

LEMMA NextInv == IInv /\ [Next]_vars => IInv'
<1> SUFFICES ASSUME IInv, [Next]_vars PROVE IInv'
  OBVIOUS
<1>1. ASSUME NEW c \in Calls, Trap(c) PROVE IInv'
  BY <1>1, UntouchedInv DEF Trap, local, mem, hist
<1>2. CASE UNCHANGED vars
  BY <1>2, UntouchedInv DEF vars
<1> QED
  BY <1>1, <1>2, InvokeInv, CallStartedInv, StartInv, HookReturnedInv, HandlerReturnedInv, CompleteInv,
     ResumeInv, ResumeOnStartInv, FinishInv DEF Next, Terminated

LEMMA Invariant == Spec => []IInv
BY InitInv, NextInv, PTL DEF Spec

(* However many calls overlap in the static memory of one adapter, an       *)
(* on-call hook is shown the arguments of its own call, down to the strings *)
(* and lists they point at, unless it had to wait to start in a call that   *)
(* overlaps others (then it sees what wrapper_body.rs:3 warns of).          *)
THEOREM OnCallIsFaithful == Spec => []OnCallFaithful
<1>1. IInv => OnCallFaithful
  BY DEF IInv
<1> QED BY <1>1, Invariant, PTL

(* A call that had the instance to itself is forwarded, reported and        *)
(* answered with its own data, whatever overlapping calls left behind in    *)
(* the static records, the result area and the heap.                        *)
THEOREM SoloCallsAreFaithful == Spec => []SoloCallsFaithful
<1>1. IInv => SoloCallsFaithful
  BY DEF IInv, SoloInv, Solo, Faithful, SoloCallsFaithful
<1> QED BY <1>1, Invariant, PTL

-----------------------------------------------------------------------------
(* The bump pointer.  Calls that returned left their arguments allocated;   *)
(* the snapshot of the one call in flight stands right after its own.       *)
Gone == {c \in Calls : pc[c] = "done" /\ fn[c] \in ArgFns}
Own(c) == IF fn[c] \in ArgFns THEN 1 ELSE 0
BumpInv ==
  /\ IsFiniteSet(Gone)
  /\ owed \subseteq Active
  /\ overlapped = {} =>
       /\ Active = {} => bump = Cardinality(Gone)
       /\ \A c \in Active : saved[c] = Cardinality(Gone) + Own(c)

LEMMA BumpInit == Init => BumpInv
<1> SUFFICES ASSUME Init PROVE BumpInv
  OBVIOUS
<1>1. Gone = {} /\ Active = {}
  BY DEF Init, Gone, Active
<1> QED BY <1>1, FS_EmptySet DEF Init, BumpInv

LEMMA BumpInvoke ==
  ASSUME IInv, BumpInv, NEW d \in Calls, Invoke(d)
  PROVE  BumpInv'
<1>1. Types /\ pc[d] = "new"
  BY DEF IInv, Invoke
<1>2. /\ pc' = [pc EXCEPT ![d] = pc'[d]] /\ pc'[d] \in {"on_call", "handler"}
      /\ fn' = fn /\ saved' = [saved EXCEPT ![d] = bump']
  BY <1>1, NextStepCases DEF Invoke, Types
<1>3. Gone' = Gone /\ Active' = Active \union {d}
  BY <1>1, <1>2 DEF Gone, Active, Types
<1>4. owed' \subseteq Active'
  BY <1>3 DEF Invoke, BumpInv
<1>5. ASSUME overlapped' = {} PROVE saved'[d] = Cardinality(Gone) + Own(d) /\ Active = {}
  <2>1. Active = {} /\ overlapped = {}
    BY <1>5 DEF Invoke
  <2>2. bump = Cardinality(Gone) /\ bump \in Nat
    BY <1>1, <2>1 DEF BumpInv, Types
  <2> QED BY <1>1, <1>2, <2>1, <2>2 DEF Invoke, Own, Types
<1> QED BY <1>2, <1>3, <1>4, <1>5 DEF BumpInv, Own

LEMMA BumpFinish ==
  ASSUME IInv, BumpInv, NEW d \in Calls, Finish(d)
  PROVE  BumpInv'
<1>1. Types /\ d \in Active /\ pc[d] = "finish"
  BY RunningActive DEF IInv, Finish
<1>2. pc' = [pc EXCEPT ![d] = "done"] /\ fn' = fn /\ saved' = saved /\ bump' = saved[d]
      /\ overlapped' = overlapped /\ owed' = owed \ {d}
  BY DEF Finish, local, RestoredBump
<1>3. Active' = Active \ {d} /\ Gone' = IF fn[d] \in ArgFns THEN Gone \union {d} ELSE Gone
  BY <1>1, <1>2 DEF Active, Gone, Types
<1>4. IsFiniteSet(Gone) /\ d \notin Gone
  BY <1>1 DEF BumpInv, Gone
<1>5. IsFiniteSet(Gone') /\ Cardinality(Gone') = Cardinality(Gone) + Own(d)
  <2>1. Cardinality(Gone) \in Nat
    BY <1>4, FS_CardinalityType
  <2>2. CASE fn[d] \in ArgFns
    <3>1. Gone' = Gone \union {d}
      BY <1>3, <2>2
    <3>2. IsFiniteSet(Gone \union {d}) /\ Cardinality(Gone \union {d}) = Cardinality(Gone) + 1
      BY <1>4, FS_AddElement
    <3> QED BY <2>2, <3>1, <3>2 DEF Own
  <2>3. CASE fn[d] \notin ArgFns
    BY <1>3, <1>4, <2>1, <2>3 DEF Own
  <2> QED BY <2>2, <2>3
<1>6. ASSUME overlapped = {} PROVE Active' = {} /\ bump' = Cardinality(Gone')
  BY <1>1, <1>2, <1>3, <1>5, <1>6 DEF BumpInv, IInv, SoloInv, AloneInv
<1> QED BY <1>2, <1>3, <1>5, <1>6 DEF BumpInv

(* Between its arrival and its return a call touches neither its snapshot   *)
(* nor what counts as gone.                                                 *)
LEMMA BumpKept ==
  ASSUME BumpInv, Types, NEW d \in Active, pc'[d] \notin {"new", "done"},
         \A c \in Calls \ {d} : pc'[c] = pc[c],
         fn' = fn, saved' = saved, owed' = owed, overlapped' = overlapped
  PROVE  BumpInv'
<1>1. Active' = Active /\ Gone' = Gone
  BY DEF Active, Gone
<1> QED BY <1>1 DEF BumpInv, Own
LEMMA BumpNext == IInv /\ BumpInv /\ [Next]_vars => BumpInv'
<1> SUFFICES ASSUME IInv, BumpInv, [Next]_vars PROVE BumpInv'
  OBVIOUS
<1>1. Types
  BY DEF IInv
<1>2. ASSUME NEW d \in Calls, CallStarted(d) \/ CallStarting(d) PROVE BumpInv'
  <2>1. d \in Active /\ pc[d] \in CallSteps
    BY <1>2, WaitsEffect DEF CallStarted, CallStarting
  <2> QED BY <1>1, <1>2, <2>1, BumpKept DEF CallStarted, CallStarting, Waits, local, CallSteps
<1>3. ASSUME NEW d \in Calls, HookReturned(d) \/ HandlerReturned(d) \/ Resume(d) PROVE BumpInv'
  <2>1. d \in Active /\ pc[d] \in CallSteps
    BY <1>3, RunningActive, WaitingActive
       DEF HookReturned, HandlerReturned, Resume, OnCall, OnReturn, CallSteps
  <2>2. pc' = [pc EXCEPT ![d] = NextStep(d, pc[d])]
    BY <1>3 DEF HookReturned, HandlerReturned, Resume
  <2>3. pc'[d] \notin {"new", "done"} /\ \A c \in Calls \ {d} : pc'[c] = pc[c]
    BY <1>1, <2>1, <2>2, NextStepCases DEF CallSteps, Types, Active
  <2>4. fn' = fn /\ saved' = saved /\ owed' = owed /\ overlapped' = overlapped
    BY <1>3 DEF HookReturned, HandlerReturned, Resume, local, hist
  <2> QED BY <1>1, <2>1, <2>3, <2>4, BumpKept
<1>4. ASSUME NEW d \in Calls, Start(d) \/ Complete(d) \/ ResumeOnStart(d) PROVE BumpInv'
  <2>1. d \in Active /\ pc[d] \in CallSteps
    BY <1>4, WaitingActive DEF Start, Complete, ResumeOnStart
  <2> QED BY <1>1, <1>4, <2>1, BumpKept DEF Start, Complete, ResumeOnStart, local, hist, CallSteps
<1>5. ASSUME UNCHANGED <<pc, fn, saved, owed, bump, overlapped>> PROVE BumpInv'
  BY <1>5 DEF BumpInv, Gone, Active, Own
<1>6. ASSUME NEW d \in Calls, Trap(d) PROVE BumpInv'
  BY <1>5, <1>6 DEF Trap, local, mem, hist
<1>7. CASE UNCHANGED vars
  BY <1>5, <1>7 DEF vars
<1> QED
  BY <1>2, <1>3, <1>4, <1>6, <1>7, BumpInvoke, BumpFinish DEF Next, Terminated

(* As long as calls come one at a time nothing but the host's arguments     *)
(* stays allocated, whatever the hooks, results and traps were; and a       *)
(* borrow handle is owed only while its call is in flight.                  *)
THEOREM BumpIsBalanced == Spec => []BumpBalanced
<1>1. BumpInv => BumpBalanced
  BY DEF BumpInv, BumpBalanced, Gone
<1> QED BY <1>1, InitInv, NextInv, BumpInit, BumpNext, PTL DEF Spec

-----------------------------------------------------------------------------
(* Tier2Wrapper implements CallProtocol, whose stage, told and delivered    *)
(* get names of their own.                                                  *)
Stages == [c \in Calls |-> StageOf(c)]
IdTold(h) == IF h.late THEN id[h.call] ELSE h.id
Notes == {[hook |-> h.hook, call |-> h.call, id |-> IdTold(h)] : h \in heard}
Deliveries == [c \in Calls |-> Delivered(c)]

-----------------------------------------------------------------------------
(* The inductive invariant on top of IInv.  Ids grow; a hook has been heard *)
(* about a call exactly when the call is past issuing it.                   *)
Unstarted == {"none", "starting"}
Waiting == {"announced", "pending", "dropped"}
Past(c, step, later) == pc[c] \in later \/ (pc[c] = step /\ await[c] \notin Unstarted)
PastOnCall(c)   == Past(c, "on_call", {"handler", "on_return", "finish", "done"})
PastOnReturn(c) == Past(c, "on_return", {"finish", "done"})
HeardInv ==
  \A c \in Calls :
    /\ pc[c] = "on_call"   => "before" \in wired
    /\ pc[c] = "on_return" => "after" \in wired
    /\ Heard(c, "before") <=> "before" \in wired /\ PastOnCall(c)
    /\ Heard(c, "after")  <=> "after" \in wired /\ PastOnReturn(c)
IdsGrow ==
  /\ counter \in Nat /\ id \in [Calls -> Nat]
  /\ \A c \in Calls : id[c] <= counter
ProtocolInv ==
  /\ wired \in SUBSET {"before", "after"} /\ trapped \in BOOLEAN
  /\ HeardInv /\ IdsGrow

LEMMA ProtocolInit == Init => ProtocolInv
<1> SUFFICES ASSUME Init PROVE ProtocolInv
  OBVIOUS
<1>1. \A c \in Calls : pc[c] = "new" /\ ~Heard(c, "before") /\ ~Heard(c, "after")
  BY DEF Init, Heard
<1>2. HeardInv
  BY <1>1 DEF HeardInv, PastOnCall, PastOnReturn, Past
<1>3. IdsGrow
  BY DEF Init, IdsGrow
<1> QED BY <1>2, <1>3 DEF Init, ProtocolInv

(* The stage, read off the step a call is at.                               *)
StageAt(p, a) ==
  CASE p = "new"       -> "idle"
    [] p = "on_call"   -> IF a \in Unstarted THEN "called" ELSE "observed"
    [] p = "handler"   -> IF a \in Waiting THEN "forwarded"
                          ELSE IF a = "ready" THEN "served"
                          ELSE IF "before" \in wired THEN "observed" ELSE "called"
    [] p = "on_return" -> IF a \in Unstarted THEN "served" ELSE "reported"
    [] p = "finish"    -> IF "after" \in wired THEN "reported" ELSE "served"
    [] p = "done"      -> "returned"

LEMMA StageIs ==
  Types /\ ControlInv /\ HeardInv => \A c \in Calls : StageOf(c) = StageAt(pc[c], await[c])
<1> SUFFICES ASSUME Types, ControlInv, HeardInv, NEW c \in Calls
             PROVE  StageOf(c) = StageAt(pc[c], await[c])
  OBVIOUS
<1> USE DEF Unstarted, Waiting
<1>1. pc[c] \in Steps /\ await[c] \in Unstarted \union Waiting \union {"ready"}
  BY DEF Types, Awaits
<1>2. CASE pc[c] \in {"new", "done"}
  BY <1>2 DEF StageOf, StageAt
<1>3. /\ Heard(c, "before") \in BOOLEAN /\ Heard(c, "after") \in BOOLEAN
      /\ Heard(c, "before") = ("before" \in wired /\ PastOnCall(c))
      /\ Heard(c, "after")  = ("after" \in wired /\ PastOnReturn(c))
      /\ pc[c] = "on_call"   => "before" \in wired
      /\ pc[c] = "on_return" => "after" \in wired
  BY DEF HeardInv, Heard, PastOnCall, PastOnReturn, Past
<1>4. CASE pc[c] = "on_call"
  <2>1. ~Heard(c, "after") /\ Heard(c, "before") = (await[c] \notin Unstarted)
    BY <1>3, <1>4 DEF PastOnCall, PastOnReturn, Past
  <2> QED BY <1>1, <1>4, <2>1 DEF StageOf, StageAt
<1>5. CASE pc[c] = "handler"
  <2>1. ~Heard(c, "after") /\ Heard(c, "before") = ("before" \in wired)
    BY <1>3, <1>5 DEF PastOnCall, PastOnReturn, Past
  <2> QED BY <1>1, <1>5, <2>1 DEF StageOf, StageAt
<1>6. CASE pc[c] = "on_return"
  <2>1. Heard(c, "after") = (await[c] \notin Unstarted)
    BY <1>3, <1>6 DEF PastOnReturn, Past
  <2> QED BY <1>1, <1>6, <2>1 DEF StageOf, StageAt
<1>7. CASE pc[c] = "finish"
  <2>1. Heard(c, "after") = ("after" \in wired)
    BY <1>3, <1>7 DEF PastOnReturn, Past
  <2> QED BY <1>1, <1>7, <2>1 DEF StageOf, StageAt
<1> QED BY <1>1, <1>2, <1>4, <1>5, <1>6, <1>7 DEF Steps, CallSteps

(* One call moves; the others stand where they stood.                       *)
LEMMA Moved ==
  ASSUME Types, ControlInv, HeardInv, Types', ControlInv', HeardInv', wired' = wired, NEW d \in Calls,
         \A c \in Calls \ {d} : pc'[c] = pc[c] /\ await'[c] = await[c]
  PROVE  /\ Stages[d] = StageAt(pc[d], await[d])
         /\ Stages' = [Stages EXCEPT ![d] = StageAt(pc'[d], await'[d])]
<1>1. \A c \in Calls : StageOf(c) = StageAt(pc[c], await[c])
  BY StageIs
<1>2. (\A c \in Calls : StageOf(c) = StageAt(pc[c], await[c]))'
  BY StageIs, PTL
<1>3. \A c \in Calls : StageAt(pc[c], await[c])' = StageAt(pc'[c], await'[c])
  BY DEF StageAt
<1>4. \A c \in Calls \ {d} : StageOf(c)' = StageOf(c)
  BY <1>1, <1>2, <1>3
<1> QED BY <1>1, <1>2, <1>3, <1>4 DEF Stages

LEMMA Delivering ==
  ASSUME NEW d \in Calls, Types, \A c \in Calls \ {d} : pc'[c] = pc[c] /\ result'[c] = result[c],
         overlapped' = overlapped
  PROVE  /\ pc[d] # "done" /\ pc'[d] # "done" => Deliveries' = Deliveries
         /\ pc'[d] = "done" /\ (d \notin overlapped => result'[d].of = d)
              => Deliveries' = [Deliveries EXCEPT ![d] = d]
BY DEF Deliveries, Delivered

(* What the middleware is told, in the protocol's terms.                    *)
LEMMA Telling ==
  ASSUME NEW d \in Calls, NEW h, heard' = heard \union {h}, ShownIn(d, h), id' = id
  PROVE  /\ Notes' = Notes \union {[hook |-> HookAt(pc[d]), call |-> d, id |-> id[d]]}
         /\ \A c \in Calls, k \in {"before", "after"} :
              Heard(c, k)' <=> Heard(c, k) \/ (c = d /\ k = HookAt(pc[d]))
<1>1. h.call = d /\ h.hook = HookAt(pc[d]) /\ IdTold(h) = id[d]
  BY DEF ShownIn, IdTold
<1>2. \A g : IdTold(g)' = IdTold(g)
  BY DEF IdTold
<1>3. Notes' = Notes \union {[hook |-> HookAt(pc[d]), call |-> d, id |-> id[d]]}
  BY <1>1, <1>2 DEF Notes
<1> QED BY <1>1, <1>3 DEF Heard
-----------------------------------------------------------------------------
(* A step of one call keeps the invariant when it keeps that call's part.   *)
LEMMA HeardKept ==
  ASSUME HeardInv, wired' = wired, NEW d \in Calls,
         \A c \in Calls \ {d} : pc'[c] = pc[c] /\ await'[c] = await[c],
         \A c \in Calls \ {d}, k \in {"before", "after"} : Heard(c, k)' <=> Heard(c, k),
         pc'[d] = "on_call" => "before" \in wired, pc'[d] = "on_return" => "after" \in wired,
         Heard(d, "before")' <=> "before" \in wired /\ PastOnCall(d)',
         Heard(d, "after")' <=> "after" \in wired /\ PastOnReturn(d)'
  PROVE  HeardInv'
<1> SUFFICES ASSUME NEW c \in Calls
             PROVE  /\ pc'[c] = "on_call"   => "before" \in wired
                    /\ pc'[c] = "on_return" => "after" \in wired
                    /\ Heard(c, "before")' <=> "before" \in wired /\ PastOnCall(c)'
                    /\ Heard(c, "after")' <=> "after" \in wired /\ PastOnReturn(c)'
  BY DEF HeardInv
<1>1. CASE c = d
  BY <1>1
<1>2. CASE c # d
  <2>1. PastOnCall(c)' <=> PastOnCall(c)
    BY <1>2 DEF PastOnCall, Past
  <2>2. PastOnReturn(c)' <=> PastOnReturn(c)
    BY <1>2 DEF PastOnReturn, Past
  <2> QED BY <1>2, <2>1, <2>2 DEF HeardInv
<1> QED BY <1>1, <1>2

LEMMA ProtocolKept ==
  ASSUME ProtocolInv, HeardInv', UNCHANGED <<wired, id, counter>>, trapped' \in BOOLEAN
  PROVE  ProtocolInv'
BY DEF ProtocolInv, IdsGrow

LEMMA NothingHeard ==
  ASSUME heard' = heard
  PROVE  (id' = id => Notes' = Notes) /\ \A c, k : Heard(c, k)' <=> Heard(c, k)
BY DEF Notes, IdTold, Heard

(* The step a call takes in the protocol.                                   *)
Steady == UNCHANGED <<wired, id, trapped>>
LEMMA ObserveStep ==
  ASSUME NEW d \in Calls, "before" \in wired, Stages[d] = "called",
         Stages' = [Stages EXCEPT ![d] = "observed"],
         Notes' = Notes \union {[hook |-> "before", call |-> d, id |-> id[d]]},
         Deliveries' = Deliveries, Steady
  PROVE  Protocol!Observe(d)
BY DEF Protocol!Observe, Protocol!Move, Protocol!Note, Stages, Notes, IdTold, Deliveries, Steady
LEMMA ForwardStep ==
  ASSUME NEW d \in Calls, NEW to, wired \in SUBSET {"before", "after"},
         Stages[d] = IF "before" \in wired THEN "observed" ELSE "called",
         Stages' = [Stages EXCEPT ![d] = to],
         Notes' = Notes, Deliveries' = Deliveries, Steady
  PROVE  Protocol!Forward(d, to)
BY DEF Protocol!Forward, Protocol!Move, Protocol!Cleared, Protocol!Observed, Stages, Notes, IdTold, Deliveries, Steady
LEMMA ServeStep ==
  ASSUME NEW d \in Calls, Stages[d] = "forwarded", Stages' = [Stages EXCEPT ![d] = "served"],
         Notes' = Notes, Deliveries' = Deliveries, Steady
  PROVE  Protocol!Serve(d)
BY DEF Protocol!Serve, Protocol!Move, Stages, Notes, IdTold, Deliveries, Steady
LEMMA ReportStep ==
  ASSUME NEW d \in Calls, "after" \in wired, Stages[d] = "served",
         Stages' = [Stages EXCEPT ![d] = "reported"],
         Notes' = Notes \union {[hook |-> "after", call |-> d, id |-> id[d]]},
         Deliveries' = Deliveries, Steady
  PROVE  Protocol!Report(d)
BY DEF Protocol!Report, Protocol!Move, Protocol!Note, Stages, Notes, IdTold, Deliveries, Steady
LEMMA ReturnStep ==
  ASSUME NEW d \in Calls, Stages[d] = IF "after" \in wired THEN "reported" ELSE "served",
         Stages' = [Stages EXCEPT ![d] = "returned"],
         Notes' = Notes, Deliveries' = [Deliveries EXCEPT ![d] = d], Steady
  PROVE  Protocol!Return(d)
BY DEF Protocol!Return, Protocol!Move, Protocol!Settled, Stages, Notes, IdTold, Deliveries, Steady
LEMMA StutterStep ==
  ASSUME NEW d \in Calls, Stages' = [Stages EXCEPT ![d] = Stages[d]],
         Notes' = Notes, Deliveries' = Deliveries, Steady
  PROVE  UNCHANGED Protocol!pvars
<1>1. Stages' = Stages
  BY DEF Stages
<1> QED BY <1>1 DEF Protocol!pvars, Stages, Notes, IdTold, Deliveries, Steady
LEMMA InProtocol ==
  ASSUME NEW d \in Calls, ~trapped,
         \/ Protocol!Arrive(d) \/ Protocol!Observe(d) \/ Protocol!Forward(d, "forwarded")
         \/ Protocol!Forward(d, "served") \/ Protocol!Serve(d) \/ Protocol!Report(d)
         \/ Protocol!Return(d) \/ UNCHANGED Protocol!pvars
  PROVE  [Protocol!PNext]_(Protocol!pvars)
BY DEF Protocol!PNext

-----------------------------------------------------------------------------
(* Each step of the wrapper is a step of the protocol, or none.             *)
PInv == IInv /\ ProtocolInv
Simulates == ProtocolInv' /\ [Protocol!PNext]_(Protocol!pvars)

LEMMA InvokeSimulates ==
  ASSUME PInv, IInv', NEW d \in Calls, Invoke(d)
  PROVE  Simulates
<1> USE DEF PInv, IInv, ProtocolInv, Unstarted, Waiting
<1>1. /\ Types /\ ControlInv /\ HeardInv /\ ~trapped /\ pc[d] = "new" /\ await[d] = "none"
      /\ await' = await /\ heard' = heard /\ result' = result /\ wired' = wired /\ trapped' = trapped
      /\ counter' = counter + 1 /\ id' = [id EXCEPT ![d] = counter + 1]
  BY DEF Invoke, ControlInv, CallSteps
<1>2. /\ pc'[d] = IF "before" \in wired THEN "on_call" ELSE "handler"
      /\ \A c \in Calls \ {d} : pc'[c] = pc[c] /\ await'[c] = await[c]
  BY <1>1 DEF Invoke, NextStep, Types
<1>3. HeardInv'
  <2>1. ~Heard(d, "before") /\ ~Heard(d, "after")
    BY <1>1 DEF HeardInv, PastOnCall, PastOnReturn, Past
  <2> QED BY <1>1, <1>2, <2>1, NothingHeard, HeardKept DEF PastOnCall, PastOnReturn, Past
<1>4. /\ IdsGrow' /\ id'[d] = counter + 1 /\ \A c \in Calls \ {d} : id'[d] > id[c]
  BY <1>1 DEF IdsGrow
<1>5. ProtocolInv'
  BY <1>1, <1>3, <1>4
<1>6. Stages[d] = "idle" /\ Stages' = [Stages EXCEPT ![d] = "called"]
  <2>1. StageAt(pc[d], await[d]) = "idle" /\ StageAt(pc'[d], await'[d]) = "called"
    BY <1>1, <1>2 DEF StageAt
  <2> QED BY <1>1, <1>2, <1>3, <2>1, Moved
<1>7. Deliveries' = Deliveries
  <2>1. ASSUME NEW c \in Calls, pc[c] = "done" PROVE c \in overlapped' <=> c \in overlapped
    BY <1>1, <2>1 DEF Invoke, Active
  <2>2. ASSUME NEW c \in Calls PROVE Delivered(c)' = Delivered(c)
    BY <1>1, <1>2, <2>1 DEF Delivered
  <2> QED BY <2>2 DEF Deliveries
<1>8. Protocol!Arrive(d)
  <2>1. Notes' = Notes /\ id' = [id EXCEPT ![d] = id'[d]]
    <3>1. ~Heard(d, "before") /\ ~Heard(d, "after")
      BY <1>1 DEF HeardInv, PastOnCall, PastOnReturn, Past
    <3>2. \A h \in heard : h.call \in Calls \ {d}
      BY <1>1, <3>1 DEF Heard, Types
    <3>3. \A h \in heard : IdTold(h)' = IdTold(h)
      BY <1>1, <3>2 DEF IdTold, IdsGrow
    <3> QED BY <1>1, <1>4, <3>3 DEF Notes
  <2> QED BY <1>1, <1>4, <1>6, <1>7, <2>1 DEF Protocol!Arrive, Protocol!Move, Stages, Notes, IdTold, Deliveries
<1> QED BY <1>1, <1>5, <1>8, InProtocol DEF Simulates

LEMMA OnCallSimulates ==
  ASSUME PInv, IInv', NEW d \in Active, ~trapped, pc[d] = "on_call", await[d] \in Unstarted,
         Begins(d), ~Late(d) => Found(d),
         (pc'[d] = "handler" /\ await'[d] = "none") \/ (pc'[d] = "on_call" /\ await'[d] \in Waiting),
         \A c \in Calls \ {d} : pc'[c] = pc[c] /\ await'[c] = await[c],
         UNCHANGED <<wired, id, counter, trapped, result, overlapped>>
  PROVE  Simulates
<1> USE DEF PInv, IInv, ProtocolInv, Unstarted, Waiting
<1>1. Types /\ ControlInv /\ HeardInv /\ "before" \in wired /\ d \in Calls
  BY DEF HeardInv, Active
<1>2. PICK h : heard' = heard \union {h} /\ ShownIn(d, h)
  BY BeginsEffect DEF CallSteps
<1>3. /\ Notes' = Notes \union {[hook |-> "before", call |-> d, id |-> id[d]]}
      /\ \A c \in Calls, k \in {"before", "after"} : Heard(c, k)' <=> Heard(c, k) \/ (c = d /\ k = "before")
  BY <1>1, <1>2, Telling DEF HookAt
<1>4. HeardInv'
  <2>1. ~Heard(d, "after")
    BY <1>1 DEF HeardInv, PastOnReturn, Past
  <2> QED BY <1>1, <1>3, <2>1, HeardKept DEF PastOnCall, PastOnReturn, Past
<1>5. ProtocolInv'
  BY <1>4, ProtocolKept
<1>6. Stages[d] = "called" /\ Stages' = [Stages EXCEPT ![d] = "observed"]
  <2>1. StageAt(pc[d], await[d]) = "called" /\ StageAt(pc'[d], await'[d]) = "observed"
    <3>1. wired' = wired
      OBVIOUS
    <3> QED BY <1>1, <3>1 DEF StageAt
  <2> QED BY <1>1, <1>4, <2>1, Moved
<1>7. Deliveries' = Deliveries
  BY <1>1, Delivering
<1> QED BY <1>1, <1>3, <1>5, <1>6, <1>7, ObserveStep, InProtocol DEF Simulates, Steady

LEMMA OnReturnSimulates ==
  ASSUME PInv, IInv', NEW d \in Active, ~trapped, pc[d] = "on_return", await[d] \in Unstarted,
         Begins(d), ~Late(d) => Found(d),
         (pc'[d] = "finish" /\ await'[d] = "none") \/ (pc'[d] = "on_return" /\ await'[d] \in Waiting),
         \A c \in Calls \ {d} : pc'[c] = pc[c] /\ await'[c] = await[c],
         UNCHANGED <<wired, id, counter, trapped, result, overlapped>>
  PROVE  Simulates
<1> USE DEF PInv, IInv, ProtocolInv, Unstarted, Waiting
<1>1. Types /\ ControlInv /\ HeardInv /\ "after" \in wired /\ d \in Calls
  BY DEF HeardInv, Active
<1>2. PICK h : heard' = heard \union {h} /\ ShownIn(d, h)
  BY BeginsEffect DEF CallSteps
<1>3. /\ Notes' = Notes \union {[hook |-> "after", call |-> d, id |-> id[d]]}
      /\ \A c \in Calls, k \in {"before", "after"} : Heard(c, k)' <=> Heard(c, k) \/ (c = d /\ k = "after")
  BY <1>1, <1>2, Telling DEF HookAt
<1>4. HeardInv'
  <2>1. Heard(d, "before") <=> "before" \in wired
    BY <1>1 DEF HeardInv, PastOnCall, Past
  <2> QED BY <1>1, <1>3, <2>1, HeardKept DEF PastOnCall, PastOnReturn, Past
<1>5. ProtocolInv'
  BY <1>4, ProtocolKept
<1>6. Stages[d] = "served" /\ Stages' = [Stages EXCEPT ![d] = "reported"]
  <2>1. StageAt(pc[d], await[d]) = "served" /\ StageAt(pc'[d], await'[d]) = "reported"
    BY <1>1 DEF StageAt
  <2> QED BY <1>1, <1>4, <2>1, Moved
<1>7. Deliveries' = Deliveries
  BY <1>1, Delivering
<1> QED BY <1>1, <1>3, <1>5, <1>6, <1>7, ReportStep, InProtocol DEF Simulates, Steady

(* The handler is called: it returns at once, or later.                     *)
LEMMA ForwardSimulates ==
  ASSUME PInv, IInv', NEW d \in Active, ~trapped, pc[d] = "handler", await[d] \in Unstarted,
         \/ pc'[d] = NextStep(d, "handler") /\ await'[d] = "none"
         \/ pc'[d] = "handler" /\ await'[d] \in Waiting,
         \A c \in Calls \ {d} : pc'[c] = pc[c] /\ await'[c] = await[c],
         UNCHANGED <<wired, id, counter, trapped, heard, result, overlapped>>
  PROVE  Simulates
<1> USE DEF PInv, IInv, ProtocolInv, Unstarted, Waiting
<1>1. Types /\ ControlInv /\ HeardInv /\ d \in Calls
  BY DEF Active
<1>2. NextStep(d, "handler") = IF "after" \in wired THEN "on_return" ELSE "finish"
  BY DEF NextStep
<1>3. HeardInv'
  <2>1. (Heard(d, "before") <=> "before" \in wired) /\ ~Heard(d, "after")
    BY <1>1 DEF HeardInv, PastOnCall, PastOnReturn, Past
  <2> QED BY <1>1, <1>2, <2>1, NothingHeard, HeardKept DEF PastOnCall, PastOnReturn, Past
<1>4. ProtocolInv'
  BY <1>3, ProtocolKept
<1>5. Notes' = Notes /\ Deliveries' = Deliveries
  BY <1>1, <1>2, NothingHeard, Delivering
<1>6. /\ Stages[d] = IF "before" \in wired THEN "observed" ELSE "called"
      /\ \/ Stages' = [Stages EXCEPT ![d] = "forwarded"]
         \/ Stages' = [Stages EXCEPT ![d] = "served"]
  <2>1. StageAt(pc[d], await[d]) = IF "before" \in wired THEN "observed" ELSE "called"
    BY <1>1 DEF StageAt
  <2>2. StageAt(pc'[d], await'[d]) \in {"forwarded", "served"}
    BY <1>2 DEF StageAt
  <2> QED BY <1>1, <1>3, <2>1, <2>2, Moved
<1> QED BY <1>1, <1>4, <1>5, <1>6, ForwardStep, InProtocol DEF Simulates, Steady

(* A callee that takes no call now has been told nothing.                   *)
LEMMA StartingSimulates ==
  ASSUME PInv, IInv', NEW d \in Calls, CallStarting(d)
  PROVE  Simulates
<1> USE DEF PInv, IInv, ProtocolInv, Unstarted, Waiting
<1>1. /\ Types /\ ControlInv /\ HeardInv /\ ~trapped /\ await[d] = "none" /\ pc[d] \in CallSteps
      /\ await'[d] = "starting" /\ pc' = pc /\ \A c \in Calls \ {d} : await'[c] = await[c]
      /\ UNCHANGED <<wired, id, counter, trapped, heard, result, overlapped>>
  BY WaitsEffect DEF CallStarting, Waits, local, Types
<1>2. HeardInv'
  <2>1. PastOnCall(d)' <=> PastOnCall(d)
    BY <1>1 DEF PastOnCall, Past
  <2>2. PastOnReturn(d)' <=> PastOnReturn(d)
    BY <1>1 DEF PastOnReturn, Past
  <2>3. HeardInv
    BY <1>1
  <2> QED BY <1>1, <2>1, <2>2, NothingHeard, HeardKept DEF HeardInv
<1>3. ProtocolInv'
  BY <1>1, <1>2, ProtocolKept
<1>4. Notes' = Notes /\ Deliveries' = Deliveries
  BY <1>1, NothingHeard, Delivering DEF CallSteps
<1>5. Stages' = [Stages EXCEPT ![d] = Stages[d]]
  <2>1. StageAt(pc'[d], await'[d]) = StageAt(pc[d], await[d])
    BY <1>1 DEF StageAt, CallSteps
  <2> QED BY <1>1, <1>2, <2>1, Moved
<1> QED BY <1>1, <1>3, <1>4, <1>5, StutterStep, InProtocol DEF Simulates, Steady

LEMMA CompleteSimulates ==
  ASSUME PInv, IInv', NEW d \in Calls, Complete(d)
  PROVE  Simulates
<1> USE DEF PInv, IInv, ProtocolInv, Unstarted, Waiting
<1>1. /\ Types /\ ControlInv /\ HeardInv /\ ~trapped /\ await[d] \in {"pending", "announced"} /\ pc[d] \in CallSteps
      /\ await'[d] = "ready" /\ pc' = pc /\ \A c \in Calls \ {d} : await'[c] = await[c]
      /\ UNCHANGED <<wired, id, counter, trapped, heard, result, overlapped>>
  BY WaitingActive DEF Complete, local, hist, Types
<1>2. HeardInv'
  <2>1. PastOnCall(d)' <=> PastOnCall(d)
    BY <1>1 DEF PastOnCall, Past
  <2>2. PastOnReturn(d)' <=> PastOnReturn(d)
    BY <1>1 DEF PastOnReturn, Past
  <2>3. HeardInv
    BY <1>1
  <2> QED BY <1>1, <2>1, <2>2, NothingHeard, HeardKept DEF HeardInv
<1>3. ProtocolInv'
  BY <1>1, <1>2, ProtocolKept
<1>4. Notes' = Notes /\ Deliveries' = Deliveries
  BY <1>1, NothingHeard, Delivering DEF CallSteps
<1>5. IF pc[d] = "handler" THEN Stages[d] = "forwarded" /\ Stages' = [Stages EXCEPT ![d] = "served"]
      ELSE Stages' = [Stages EXCEPT ![d] = Stages[d]]
  <2>1. IF pc[d] = "handler" THEN StageAt(pc[d], await[d]) = "forwarded" /\ StageAt(pc'[d], await'[d]) = "served"
        ELSE StageAt(pc'[d], await'[d]) = StageAt(pc[d], await[d])
    BY <1>1 DEF StageAt, CallSteps
  <2> QED BY <1>1, <1>2, <2>1, Moved
<1> QED BY <1>1, <1>3, <1>4, <1>5, ServeStep, StutterStep, InProtocol DEF Simulates, Steady

LEMMA ResumeSimulates ==
  ASSUME PInv, IInv', NEW d \in Calls, Resume(d)
  PROVE  Simulates
<1> USE DEF PInv, IInv, ProtocolInv, Unstarted, Waiting
<1>1. /\ Types /\ ControlInv /\ HeardInv /\ ~trapped /\ await[d] = "ready" /\ pc[d] \in CallSteps
      /\ await'[d] = "none" /\ pc'[d] = NextStep(d, pc[d])
      /\ \A c \in Calls \ {d} : pc'[c] = pc[c] /\ await'[c] = await[c]
      /\ UNCHANGED <<wired, id, counter, trapped, heard, result, overlapped>>
  BY WaitingActive DEF Resume, local, mem, hist, Types
<1>2. /\ pc[d] = "on_call" => pc'[d] = "handler"
      /\ pc[d] = "handler" => pc'[d] = IF "after" \in wired THEN "on_return" ELSE "finish"
      /\ pc[d] = "on_return" => pc'[d] = "finish"
  BY <1>1 DEF NextStep
<1>3. HeardInv'
  <2>1. PastOnCall(d)' <=> PastOnCall(d)
    BY <1>1, <1>2 DEF PastOnCall, Past, CallSteps
  <2>2. "after" \in wired => (PastOnReturn(d)' <=> PastOnReturn(d))
    BY <1>1, <1>2 DEF PastOnReturn, Past, CallSteps
  <2>3. pc'[d] # "on_call" /\ (pc'[d] = "on_return" => "after" \in wired)
    BY <1>1, <1>2 DEF CallSteps
  <2>4. /\ Heard(d, "before") <=> "before" \in wired /\ PastOnCall(d)
        /\ Heard(d, "after")  <=> "after" \in wired /\ PastOnReturn(d)
    BY <1>1 DEF HeardInv
  <2>5. \A c \in Calls, k \in {"before", "after"} : Heard(c, k)' <=> Heard(c, k)
    BY <1>1, NothingHeard
  <2>6. /\ Heard(d, "before")' <=> "before" \in wired /\ PastOnCall(d)'
        /\ Heard(d, "after")' <=> "after" \in wired /\ PastOnReturn(d)'
    BY <2>1, <2>2, <2>4, <2>5
  <2> QED BY <1>1, <2>3, <2>5, <2>6, HeardKept
<1>4. ProtocolInv'
  BY <1>1, <1>3, ProtocolKept
<1>5. Notes' = Notes /\ Deliveries' = Deliveries
  BY <1>1, <1>2, NothingHeard, Delivering DEF CallSteps
<1>6. Stages' = [Stages EXCEPT ![d] = Stages[d]]
  <2>1. StageAt(pc'[d], await'[d]) = StageAt(pc[d], await[d])
    <3>1. pc[d] = "on_call" => "before" \in wired
      BY <1>1 DEF HeardInv
    <3>2. pc[d] = "on_return" => "after" \in wired
      BY <1>1 DEF HeardInv
    <3> QED BY <1>1, <1>2, <3>1, <3>2 DEF StageAt, CallSteps
  <2> QED BY <1>1, <1>3, <2>1, Moved
<1> QED BY <1>1, <1>4, <1>5, <1>6, StutterStep, InProtocol DEF Simulates, Steady

LEMMA FinishSimulates ==
  ASSUME PInv, IInv', NEW d \in Calls, Finish(d)
  PROVE  Simulates
<1> USE DEF PInv, IInv, ProtocolInv, Unstarted, Waiting
<1>1. /\ Types /\ ControlInv /\ HeardInv /\ ~trapped /\ pc[d] = "finish" /\ await[d] = "none"
      /\ await' = await /\ pc'[d] = "done"
      /\ \A c \in Calls \ {d} : pc'[c] = pc[c] /\ await'[c] = await[c] /\ result'[c] = result[c]
      /\ UNCHANGED <<wired, id, counter, trapped, heard, overlapped>>
  BY RunningActive DEF Finish, local, Types
<1>2. HeardInv'
  <2>1. /\ Heard(d, "before") <=> "before" \in wired
        /\ Heard(d, "after")  <=> "after" \in wired
    BY <1>1 DEF HeardInv, PastOnCall, PastOnReturn, Past
  <2> QED BY <1>1, <2>1, NothingHeard, HeardKept DEF PastOnCall, PastOnReturn, Past
<1>3. ProtocolInv'
  BY <1>1, <1>2, ProtocolKept
<1>4. Notes' = Notes
  BY <1>1, NothingHeard
<1>5. Deliveries' = [Deliveries EXCEPT ![d] = d]
  <2>1. d \notin overlapped => result'[d] = [of |-> d, to |-> d]
    BY <1>1 DEF SoloInv, Solo, Faithful
  <2> QED BY <1>1, <2>1, Delivering
<1>6. /\ Stages[d] = IF "after" \in wired THEN "reported" ELSE "served"
      /\ Stages' = [Stages EXCEPT ![d] = "returned"]
  <2>1. /\ StageAt(pc[d], await[d]) = IF "after" \in wired THEN "reported" ELSE "served"
        /\ StageAt(pc'[d], await'[d]) = "returned"
    BY <1>1 DEF StageAt
  <2> QED BY <1>1, <1>2, <2>1, Moved
<1> QED BY <1>1, <1>3, <1>4, <1>5, <1>6, ReturnStep, InProtocol DEF Simulates, Steady

(* A trap is the death of the instance; nothing else happens.               *)
LEMMA UntouchedSimulates ==
  ASSUME PInv, UNCHANGED <<wired, pc, id, counter, heard, result, overlapped>>,
         \A c \in Calls : await'[c] = await[c] \/ (await[c] = "announced" /\ await'[c] = "dropped"),
         trapped' = trapped \/ (~trapped /\ trapped' = TRUE)
  PROVE  Simulates
<1>1. HeardInv' /\ IdsGrow'
  BY DEF PInv, ProtocolInv, HeardInv, IdsGrow, Heard, PastOnCall, PastOnReturn, Past, Unstarted
<1>2. ProtocolInv'
  BY <1>1 DEF PInv, ProtocolInv
<1>3. \A c \in Calls : StageOf(c)' = StageOf(c) /\ Delivered(c)' = Delivered(c)
  BY DEF StageOf, Delivered, Heard
<1>4. Stages' = Stages /\ Notes' = Notes /\ Deliveries' = Deliveries
  BY <1>3 DEF Stages, Notes, IdTold, Deliveries
<1>5. CASE trapped' = trapped
  BY <1>2, <1>4, <1>5 DEF Simulates, Protocol!pvars, Stages, Notes, IdTold, Deliveries
<1>6. CASE ~trapped /\ trapped' = TRUE
  BY <1>2, <1>4, <1>6 DEF Simulates, Protocol!PNext, Protocol!Die, Stages, Notes, IdTold, Deliveries
<1> QED BY <1>5, <1>6

LEMMA NextSimulates == PInv /\ IInv' /\ [Next]_vars => Simulates
<1> SUFFICES ASSUME PInv, IInv', [Next]_vars PROVE Simulates
  OBVIOUS
<1>1. Types /\ ControlInv
  BY DEF PInv, IInv
<1>2. ASSUME NEW d \in Calls, CallStarted(d) \/ Start(d) PROVE Simulates
  <2>1. /\ ~trapped /\ pc'[d] = pc[d] /\ await[d] \in Unstarted /\ await'[d] \in Waiting /\ Begins(d)
        /\ \A c \in Calls \ {d} : pc'[c] = pc[c] /\ await'[c] = await[c]
        /\ UNCHANGED <<wired, id, counter, trapped, result, overlapped>>
    BY <1>1, <1>2, WaitsEffect DEF PInv, CallStarted, Waits, Start, local, Types, Unstarted, Waiting
  <2>2. d \in Active /\ pc[d] \in CallSteps /\ (~Late(d) => Found(d))
    <3>1. CASE CallStarted(d)
      BY <3>1, WaitsEffect DEF PInv, CallStarted, Placed
    <3>2. CASE Start(d)
      BY <3>2, WaitingActive, StillFound DEF PInv, Start, Late
    <3> QED BY <1>2, <3>1, <3>2
  <2>3. pc[d] = "handler" => heard' = heard
    BY <2>1 DEF Begins
  <2> QED BY <2>1, <2>2, <2>3, OnCallSimulates, ForwardSimulates, OnReturnSimulates DEF CallSteps
<1>3. ASSUME NEW d \in Calls, CallStarting(d) PROVE Simulates
  BY <1>3, StartingSimulates
<1>4. ASSUME NEW d \in Calls, HookReturned(d) PROVE Simulates
  <2>1. /\ ~trapped /\ running = d /\ pc'[d] = NextStep(d, pc[d]) /\ await'[d] = "none" /\ Begins(d)
        /\ \A c \in Calls \ {d} : pc'[c] = pc[c] /\ await'[c] = await[c]
        /\ UNCHANGED <<wired, id, counter, trapped, result, overlapped>>
    BY <1>1, <1>4 DEF HookReturned, local, Types, ControlInv
  <2>2. d \in Active /\ await[d] \in Unstarted /\ Found(d) /\ pc[d] \in {"on_call", "on_return"}
    BY <1>4, RunningActive, IssueEffect
       DEF PInv, HookReturned, Issue, OnCall, OnReturn, Unstarted, Placed
  <2>3. NextStep(d, "on_call") = "handler" /\ NextStep(d, "on_return") = "finish"
    BY NextStepCases
  <2> QED BY <2>1, <2>2, <2>3, OnCallSimulates, OnReturnSimulates
<1>5. ASSUME NEW d \in Calls, HandlerReturned(d) PROVE Simulates
  <2>1. /\ ~trapped /\ pc[d] = "handler" /\ await[d] \in Unstarted /\ await'[d] = "none"
        /\ pc'[d] = NextStep(d, "handler") /\ d \in Active
        /\ \A c \in Calls \ {d} : pc'[c] = pc[c] /\ await'[c] = await[c]
        /\ UNCHANGED <<wired, id, counter, trapped, heard, result, overlapped>>
    BY <1>1, <1>5, RunningActive DEF PInv, HandlerReturned, Begins, local, Types, ControlInv, Unstarted
  <2> QED BY <2>1, ForwardSimulates
<1>6. ASSUME NEW d \in Calls, ResumeOnStart(d) PROVE Simulates
  BY <1>1, <1>6, UntouchedSimulates DEF ResumeOnStart, local, hist, Types
<1>7. ASSUME NEW d \in Calls, Trap(d) PROVE Simulates
  BY <1>7, UntouchedSimulates DEF Trap, local, mem, hist
<1>8. CASE UNCHANGED vars
  BY <1>8, UntouchedSimulates DEF vars
<1> QED
  BY <1>2, <1>3, <1>4, <1>5, <1>6, <1>7, <1>8, InvokeSimulates, CompleteSimulates, ResumeSimulates,
     FinishSimulates DEF Next, Terminated

LEMMA InitProtocol == Init => Protocol!PInit
<1> SUFFICES ASSUME Init PROVE Protocol!PInit
  OBVIOUS
<1>1. wired \in SUBSET {"before", "blocking", "after"} /\ id = [c \in Calls |-> 0] /\ trapped = FALSE
  BY DEF Init
<1>2. Notes = {}
  BY DEF Init, Notes, IdTold
<1>3. Stages = [c \in Calls |-> "idle"]
  BY DEF Init, Stages, StageOf
<1>4. Deliveries = [c \in Calls |-> None]
  BY DEF Init, Deliveries, Delivered
<1> QED BY <1>1, <1>2, <1>3, <1>4 DEF Protocol!PInit, Notes, IdTold, Stages, Deliveries

(* However many calls overlap in the static memory of one tier-2 adapter,   *)
(* each is a call of the protocol: its hooks fire in order with one id no   *)
(* earlier call had, its handler is called exactly once in between, nothing *)
(* happens after a trap, and a call that had the instance to itself returns *)
(* its own result (wrapper_body.rs, from the bump save to task.return).     *)
(* Only a hook that had to wait in a call that overlaps others may be given *)
(* another id.                                                              *)
THEOREM ProtocolIsImplemented == Spec => ImplementsProtocol
<1>1. Init => Protocol!PInit
  BY InitProtocol
<1>2. Init => PInv
  BY InitInv, ProtocolInit DEF PInv
<1>3. PInv /\ [Next]_vars => PInv' /\ [Protocol!PNext]_(Protocol!pvars)
  BY NextInv, NextSimulates DEF PInv, Simulates
<1> QED BY <1>1, <1>2, <1>3, PTL DEF Spec, ImplementsProtocol, Protocol!PSpec
=============================================================================
