------------------------- MODULE Tier1WrapperProofs -------------------------
(***************************************************************************)
(* Proofs about Tier1Wrapper, for every set of calls and functions, every  *)
(* choice of hooks and every number of calls in flight.                    *)
(***************************************************************************)
EXTENDS Tier1Wrapper, TLAPS

Steps == {"new", "decide", "finish", "return", "done"} \union CallSteps

(* The wrapper body moves forward through its own steps.                    *)
LEMMA NextStepCases ==
  /\ NextStep("new") \in {"on_call", "should_block", "handler"}
  /\ NextStep("on_call") \in {"should_block", "handler"}
  /\ NextStep("should_block") = "decide"
  /\ NextStep("decide") = "handler"
  /\ NextStep("handler") \in {"on_return", "finish"}
  /\ NextStep("on_return") = "finish"
  /\ NextStep("finish") = "return"
BY DEF NextStep, AfterOnCall

(* No step of the body leads to the start or past the end.                  *)
LEMMA NextStepType ==
  \A s \in CallSteps \union {"new", "decide", "finish"} : NextStep(s) \in Steps \ {"new", "done"}
BY NextStepCases DEF CallSteps, Steps

-----------------------------------------------------------------------------
(* The inductive invariant.  Control: an active call either runs or waits,  *)
(* and only a step that makes a call can be waiting.                        *)
ControlInv ==
  /\ running \in Calls => pc[running] \notin {"new", "done"} /\ await[running] = "none"
  /\ \A c \in Calls : await[c] # "none" => pc[c] \in CallSteps
  /\ \A c \in Active : await[c] = "none" => running = c

(* Sharing: of two calls in flight both count as overlapped.                *)
SharingInv ==
  /\ \A c, d \in Active : c # d => c \in overlapped
  /\ \A c \in overlapped : pc[c] # "new"

(* Ids: a call that has arrived holds an id no other call holds.  A hook    *)
(* that waits to start in a call alone still finds the id of that call in   *)
(* the buffer, in one that overlaps the id of some call that did.           *)
StartingHook(c) == await[c] = "starting" /\ pc[c] # "handler"
IdInv ==
  /\ \A c \in Calls : pc[c] # "new" => id[c] <= counter
  /\ \A c, d \in Calls : c # d /\ pc[c] # "new" /\ pc[d] # "new" => id[c] # id[d]
  /\ \A c \in Calls : StartingHook(c) =>
       IF c \in overlapped THEN \E d \in overlapped : callIdBuf = id[d] ELSE callIdBuf = id[c]
  /\ \A h \in heard :
       /\ pc[h.call] # "new"
       /\ ~h.late => h.id = id[h.call]
       /\ h.late => h.call \in overlapped /\ \E d \in overlapped : h.id = id[d]

(* Heap: what a call in flight still needs is its own and lies below the    *)
(* allocator, or is about to be lifted by the call that gave it back; and   *)
(* no call that came later has a snapshot below it.                         *)
Sheltered(x) == \A d \in x.beside : pc[d] # "done"
Safe(x) ==
  /\ ram[x.at] = x.call
  /\ x.at < bump \/ (running \in x.beside \union {x.call} /\ pc[running] = "return")
  /\ \A d \in Active \ (x.beside \union {x.call}) : x.at < saved[d]
Holds(c, a) == a # None => \E x \in live : x.call = c /\ x.at = a
LiveInv ==
  /\ \A x \in live : x.call \in Active /\ (x.beside # {} => x.call \in overlapped)
  /\ \A x \in live : Sheltered(x) => Safe(x)
  /\ \A c \in Active : Holds(c, args[c])
  /\ \A c \in Calls : pc[c] = "new" => args[c] = None

(* Solo: while a call that never overlapped is active it is the only one,   *)
(* so the static slots hold what was written for it.                        *)
AnswerIn(c) == pc[c] = "decide" \/ (pc[c] = "should_block" /\ await[c] = "ready")
Given(c) == \/ pc[c] \in {"on_return", "finish", "return"}
            \/ pc[c] = "handler" /\ await[c] \notin {"none", "starting"}
ResultIn(c) == \/ pc[c] \in {"on_return", "finish", "return"}
               \/ pc[c] = "handler" /\ await[c] = "ready"
SoloSlots(c) ==
  /\ pc[c] \in {"new", "on_call"} => answer[c] = "none"
  /\ pc[c] = "should_block" /\ await[c] # "ready" => answer[c] = "none"
  /\ AnswerIn(c) => answer[c] = IF blockSlot THEN "block" ELSE "pass"
  /\ pc[c] \in {"handler", "on_return", "finish", "return"} => answer[c] # "block"
  /\ pc[c] = "handler" /\ await[c] = "starting" /\ fn[c] \in IndirectFns =>
       paramsRec[fn[c]] = Params(c)
  /\ pc[c] = "new" => served[c] = Unseen
  /\ Given(c) => served[c] = Own(c)
  /\ ResultIn(c) /\ UsesRetptr(fn[c]) => retptr[fn[c]].of = c /\ Holds(c, retptr[fn[c]].to)
  /\ pc[c] # "done" => outcome[c] = "none"
Faithful(c) ==
  /\ served[c] # Unseen => served[c] = Own(c)
  /\ outcome[c] = "blocked" => answer[c] = "block"
  /\ outcome[c] = "served"  => answer[c] # "block" /\ served[c] = Own(c) /\ result[c] = Own(c)
SoloInv == \A c \in Calls \ overlapped : SoloSlots(c) /\ Faithful(c)

-----------------------------------------------------------------------------
(* The hook told at a step is one of the three hooks.                       *)
LEMMA HookOfType ==
  \A s \in CallSteps \ {"handler"} : HookOf[s] \in {"before", "blocking", "after"}
BY DEF HookOf, CallSteps

(* Data put in the heap has an address there.                               *)
LEMMA AllocateType ==
  ASSUME TypeOK, NEW c \in Calls, Allocate(c)
  PROVE  /\ bump' = bump + 1 /\ bump' \in Nat
         /\ DOMAIN ram' = DOMAIN ram \union {bump}
         /\ DOMAIN ram' \subseteq Nat /\ ram' \in [DOMAIN ram' -> Calls]
         /\ ram'[bump] = c
         /\ \A a \in DOMAIN ram : a # bump => ram'[a] = ram[a]
         /\ live' \subseteq [call : Calls, at : DOMAIN ram', beside : SUBSET Calls]
<1>1. DOMAIN ram' = DOMAIN ram \union {bump}
  BY DEF Allocate
<1>2. ram' = [a \in DOMAIN ram' |-> IF a = bump THEN c ELSE ram[a]]
  BY <1>1 DEF Allocate
<1>3. \A a \in DOMAIN ram : ram[a] \in Calls
  BY DEF TypeOK
<1>4. ram' \in [DOMAIN ram' -> Calls]
  BY <1>1, <1>2, <1>3
<1>5. live \subseteq [call : Calls, at : DOMAIN ram, beside : SUBSET Calls]
  BY DEF TypeOK
<1>6. live' \subseteq [call : Calls, at : DOMAIN ram', beside : SUBSET Calls]
  BY <1>1, <1>5 DEF Allocate, Active
<1> QED BY <1>1, <1>2, <1>4, <1>6 DEF Allocate, TypeOK

(* The part of the types that concerns the heap.                            *)
HeapOK ==
  /\ bump \in Nat /\ DOMAIN ram \subseteq Nat /\ ram \in [DOMAIN ram -> Calls]
  /\ live \subseteq [call : Calls, at : DOMAIN ram, beside : SUBSET Calls]

(* What a callee writes stays within the types of the memory it writes to.  *)
LEMMA CalleeReturnsType ==
  ASSUME TypeOK, NEW c \in Calls, CalleeReturns(c)
  PROVE  /\ HeapOK' /\ DOMAIN ram \subseteq DOMAIN ram'
         /\ blockSlot' \in BOOLEAN
         /\ retptr' \in [Fns -> Datum']
         /\ answer' \in [Calls -> {"none", "block", "pass"}]
<1>1. CASE pc[c] = "should_block"
  BY <1>1 DEF CalleeReturns, heap, HeapOK, TypeOK, Datum
<1>2. CASE pc[c] = "handler"
  <2>1. HeapOK' /\ DOMAIN ram \subseteq DOMAIN ram' /\ (fn[c] \in HeapFns => bump \in DOMAIN ram')
    BY <1>2, AllocateType DEF CalleeReturns, heap, HeapOK, TypeOK
  <2>2. /\ UNCHANGED <<blockSlot, answer>>
        /\ retptr' = IF UsesRetptr(fn[c])
                     THEN [retptr EXCEPT ![fn[c]] =
                             [of |-> c, to |-> IF fn[c] \in HeapFns THEN bump ELSE None]]
                     ELSE retptr
    BY <1>2 DEF CalleeReturns
  <2>3. retptr \in [Fns -> Datum']
    BY <2>1 DEF TypeOK, Datum
  <2>4. [of |-> c, to |-> IF fn[c] \in HeapFns THEN bump ELSE None] \in Datum'
    BY <2>1 DEF Datum
  <2> QED BY <2>1, <2>2, <2>3, <2>4 DEF TypeOK
<1>3. CASE pc[c] \notin {"should_block", "handler"}
  BY <1>3 DEF CalleeReturns, TypeOK, heap, HeapOK, Datum
<1> QED BY <1>1, <1>2, <1>3

(* The parameters of a call are a datum of its own.                         *)
LEMMA ParamsType ==
  ASSUME TypeOK, NEW c \in Calls
  PROVE  Params(c) \in Datum
BY DEF TypeOK, Params, Datum

LEMMA PopulateType ==
  ASSUME TypeOK, NEW c \in Calls, Populate(c)
  PROVE  callIdBuf' \in Nat /\ paramsRec' \in [Fns -> Datum]
BY ParamsType DEF Populate, CallIdFor, TypeOK

(* What a reader makes of a datum is calls or nothing.                      *)
LEMMA SeenType ==
  ASSUME TypeOK, NEW d \in Datum
  PROVE  Seen(d) \in View
BY DEF TypeOK, Datum, Seen, View

(* What the middleware is told has the type of a hook record.               *)
LEMMA BeginsType ==
  ASSUME TypeOK, NEW c \in Calls, pc[c] \in CallSteps, Begins(c),
         callIdBuf' \in Nat, paramsRec' \in [Fns -> Datum]
  PROVE  /\ heard' \subseteq [hook : {"before", "blocking", "after"}, call : Calls, id : Nat,
                              late : BOOLEAN]
         /\ served' \in [Calls -> View]
<1>1. CASE pc[c] = "handler"
  <2> DEFINE given == IF fn[c] \in IndirectFns THEN paramsRec'[fn[c]] ELSE Params(c)
  <2>1. given \in Datum
    BY ParamsType DEF TypeOK
  <2>2. Seen(given) \in View
    BY <2>1, SeenType
  <2>3. served' = [served EXCEPT ![c] = Seen(given)] /\ heard' = heard
    BY <1>1 DEF Begins
  <2> QED BY <2>2, <2>3 DEF TypeOK
<1>2. CASE pc[c] # "handler"
  <2>1. HookOf[pc[c]] \in {"before", "blocking", "after"}
    BY <1>2, HookOfType
  <2>2. heard' = heard \union {[hook |-> HookOf[pc[c]], call |-> c, id |-> callIdBuf',
                                 late |-> await[c] = "starting" /\ c \in overlapped]}
    BY <1>2 DEF Begins
  <2>3. [hook |-> HookOf[pc[c]], call |-> c, id |-> callIdBuf',
         late |-> await[c] = "starting" /\ c \in overlapped]
          \in [hook : {"before", "blocking", "after"}, call : Calls, id : Nat, late : BOOLEAN]
    BY <2>1
  <2>4. served' = served
    BY <1>2 DEF Begins
  <2> QED BY <2>2, <2>3, <2>4 DEF TypeOK
<1> QED BY <1>1, <1>2

-----------------------------------------------------------------------------
(* Type correctness needs the control invariant, and the other way round.   *)
LEMMA TypeInit == Init => TypeOK /\ ControlInv
<1> SUFFICES ASSUME Init PROVE TypeOK /\ ControlInv
  OBVIOUS
<1>1. TypeOK
  BY HooksAssumption, NoneAssumption
  DEF Init, TypeOK, Awaits, Blank, Unseen, Datum, View
<1>2. ControlInv
  BY NoneAssumption DEF Init, ControlInv, Active
<1> QED BY <1>1, <1>2

LEMMA TypeNext == TypeOK /\ ControlInv /\ [Next]_vars => TypeOK'
<1> SUFFICES ASSUME TypeOK, ControlInv, [Next]_vars PROVE TypeOK'
  OBVIOUS
<1>1. ASSUME NEW c \in Calls, Invoke(c) PROVE TypeOK'
  <2>1. NextStep("new") \in Steps
    BY NextStepType
  <2>2. HeapOK' /\ DOMAIN ram \subseteq DOMAIN ram'
    BY <1>1, AllocateType DEF Invoke, heap, HeapOK, TypeOK
  <2>3. args' \in [Calls -> DOMAIN ram' \union {None}]
    <3>1. CASE fn[c] \in ArgFns
      <4>1. bump \in DOMAIN ram' /\ args' = [args EXCEPT ![c] = bump]
        BY <1>1, <3>1, AllocateType DEF Invoke
      <4> QED BY <4>1, <2>2 DEF TypeOK
    <3>2. CASE fn[c] \notin ArgFns
      BY <1>1, <2>2, <3>2 DEF Invoke, TypeOK
    <3> QED BY <3>1, <3>2
  <2>4. Active \subseteq Calls
    BY DEF Active
  <2>5. paramsRec' \in [Fns -> Datum'] /\ retptr' \in [Fns -> Datum']
    BY <1>1, <2>2 DEF Invoke, TypeOK, Datum
  <2>6. saved' \in [Calls -> Nat] /\ id' \in [Calls -> Nat] /\ counter' \in Nat
    BY <1>1, <2>2 DEF Invoke, AllocCallId, TypeOK, HeapOK
  <2>7. pc' \in [Calls -> {"new", "decide", "finish", "return", "done"} \union CallSteps]
    BY <1>1, <2>1 DEF Invoke, TypeOK, Steps
  <2> QED BY <1>1, <2>2, <2>3, <2>4, <2>5, <2>6, <2>7 DEF Invoke, TypeOK, HeapOK, View
<1>2. ASSUME NEW c \in Calls, CallReturned(c) PROVE TypeOK'
  <2>1. NextStep(pc[c]) \in Steps
    BY <1>2, NextStepType DEF CallReturned
  <2>2. pc' \in [Calls -> {"new", "decide", "finish", "return", "done"} \union CallSteps]
    BY <1>2, <2>1 DEF CallReturned, TypeOK, Steps
  <2>3. callIdBuf' \in Nat /\ paramsRec' \in [Fns -> Datum]
    BY <1>2, PopulateType DEF CallReturned
  <2>4. /\ heard' \subseteq [hook : {"before", "blocking", "after"}, call : Calls, id : Nat,
                             late : BOOLEAN]
        /\ served' \in [Calls -> View]
    BY <1>2, <2>3, BeginsType DEF CallReturned
  <2>5. /\ HeapOK' /\ DOMAIN ram \subseteq DOMAIN ram'
        /\ blockSlot' \in BOOLEAN /\ retptr' \in [Fns -> Datum']
        /\ answer' \in [Calls -> {"none", "block", "pass"}]
    BY <1>2, CalleeReturnsType DEF CallReturned
  <2>6. paramsRec' \in [Fns -> Datum'] /\ args \in [Calls -> DOMAIN ram' \union {None}]
    BY <2>3, <2>5 DEF Datum, TypeOK
  <2> QED BY <1>2, <2>2, <2>3, <2>4, <2>5, <2>6 DEF CallReturned, frame, TypeOK, HeapOK, View
<1>3. ASSUME NEW c \in Calls, CallStarted(c) PROVE TypeOK'
  <2>1. Waits(c) /\ Begins(c) /\ await' = [await EXCEPT ![c] = "pending"]
    BY <1>3 DEF CallStarted
  <2>2. callIdBuf' \in Nat /\ paramsRec' \in [Fns -> Datum]
    BY <2>1, PopulateType DEF Waits
  <2>3. /\ heard' \subseteq [hook : {"before", "blocking", "after"}, call : Calls, id : Nat,
                             late : BOOLEAN]
        /\ served' \in [Calls -> View]
    BY <2>1, <2>2, BeginsType DEF Waits
  <2> QED BY <2>1, <2>2, <2>3 DEF Waits, frame, heap, TypeOK, Awaits, Datum, View
<1>4. ASSUME NEW c \in Calls, CallStarting(c) PROVE TypeOK'
  <2>1. Waits(c) /\ await' = [await EXCEPT ![c] = "starting"] /\ UNCHANGED <<heard, served>>
    BY <1>4 DEF CallStarting
  <2>2. callIdBuf' \in Nat /\ paramsRec' \in [Fns -> Datum]
    BY <2>1, PopulateType DEF Waits
  <2> QED BY <2>1, <2>2 DEF Waits, frame, heap, TypeOK, Awaits, Datum, View
<1>5. ASSUME NEW c \in Calls, Start(c) PROVE TypeOK'
  <2>1. pc[c] \in CallSteps
    BY <1>5 DEF Start, ControlInv
  <2>2. callIdBuf' \in Nat /\ paramsRec' \in [Fns -> Datum]
    BY <1>5 DEF Start, TypeOK
  <2>3. /\ heard' \subseteq [hook : {"before", "blocking", "after"}, call : Calls, id : Nat,
                             late : BOOLEAN]
        /\ served' \in [Calls -> View]
    BY <1>5, <2>1, <2>2, BeginsType DEF Start
  <2> QED BY <1>5, <2>2, <2>3 DEF Start, frame, heap, TypeOK, Awaits, Datum, View
<1>6. ASSUME NEW c \in Calls, Complete(c) PROVE TypeOK'
  <2>1. /\ HeapOK' /\ DOMAIN ram \subseteq DOMAIN ram'
        /\ blockSlot' \in BOOLEAN /\ retptr' \in [Fns -> Datum']
        /\ answer' \in [Calls -> {"none", "block", "pass"}]
    BY <1>6, CalleeReturnsType DEF Complete
  <2>2. paramsRec \in [Fns -> Datum'] /\ args \in [Calls -> DOMAIN ram' \union {None}]
    BY <2>1 DEF Datum, TypeOK
  <2> QED BY <1>6, <2>1, <2>2 DEF Complete, frame, TypeOK, Awaits, HeapOK, View
<1>7. ASSUME NEW c \in Calls, Resume(c) PROVE TypeOK'
  <2>1. NextStep(pc[c]) \in Steps
    BY <1>7, NextStepType DEF Resume, ControlInv
  <2> QED BY <1>7, <2>1 DEF Resume, TypeOK, frame, mem, heap, hist, Steps, Awaits, Datum, View
<1>8. ASSUME NEW c \in Calls, ResumeOnStart(c) PROVE TypeOK'
  BY <1>8 DEF ResumeOnStart, TypeOK, frame, mem, heap, hist, Awaits, Datum, View
<1>9. ASSUME NEW c \in Calls, Proceed(c) PROVE TypeOK'
  <2>1. NextStep("decide") \in Steps
    BY NextStepType
  <2> QED BY <1>9, <2>1 DEF Proceed, TypeOK, frame, mem, heap, hist, Steps, Datum, View
<1>10. ASSUME NEW c \in Calls, EarlyReturn(c) PROVE TypeOK'
  BY <1>10 DEF EarlyReturn, RestoredBump, LiveWithout, frame, TypeOK, Datum, View
<1>11. ASSUME NEW c \in Calls, Finish(c) PROVE TypeOK'
  <2>1. NextStep("finish") \in Steps
    BY NextStepType
  <2> QED BY <1>11, <2>1 DEF Finish, RestoredBump, frame, hist, TypeOK, Steps, Datum, View
<1>12. ASSUME NEW c \in Calls, Return(c) PROVE TypeOK'
  <2>1. Result(c) \in Datum
    BY DEF Result, TypeOK, Datum
  <2>2. Seen(Result(c)) \in View
    BY <2>1, SeenType
  <2> QED BY <1>12, <2>2 DEF Return, LiveWithout, frame, TypeOK, Datum, View
<1>13. ASSUME NEW c \in Calls, Trap(c) PROVE TypeOK'
  BY <1>13 DEF Trap, TypeOK, frame, wasm, mem, heap, hist, Datum, View
<1>14. CASE UNCHANGED vars
  BY <1>14 DEF vars, TypeOK, Datum, View
<1> QED BY <1>1, <1>2, <1>3, <1>4, <1>5, <1>6, <1>7, <1>8, <1>9, <1>10, <1>11, <1>12, <1>13, <1>14
        DEF Next, Step, Event, Terminated

LEMMA ControlNext == TypeOK /\ ControlInv /\ [Next]_vars => ControlInv'
<1> SUFFICES ASSUME TypeOK, ControlInv, [Next]_vars PROVE ControlInv'
  OBVIOUS
<1> USE NoneAssumption
<1>1. ASSUME NEW c \in Calls, Invoke(c) PROVE ControlInv'
  BY <1>1, NextStepCases DEF Invoke, TypeOK, ControlInv, CallSteps, Active
<1>2. ASSUME NEW c \in Calls, CallReturned(c) PROVE ControlInv'
  BY <1>2, NextStepCases DEF CallReturned, TypeOK, ControlInv, CallSteps, Active
<1>3. ASSUME NEW c \in Calls, CallStarted(c) \/ CallStarting(c) PROVE ControlInv'
  BY <1>3 DEF CallStarted, CallStarting, Waits, TypeOK, ControlInv, Active
<1>4. ASSUME NEW c \in Calls, Start(c) \/ Complete(c) PROVE ControlInv'
  BY <1>4 DEF Start, Complete, TypeOK, ControlInv, Active
<1>5. ASSUME NEW c \in Calls, Resume(c) PROVE ControlInv'
  <2>1. pc[c] \in CallSteps
    BY <1>5 DEF Resume, ControlInv
  <2>2. NextStep(pc[c]) \notin {"new", "done"}
    BY <2>1, NextStepType
  <2> QED BY <1>5, <2>1, <2>2 DEF Resume, TypeOK, ControlInv, Active
<1>6. ASSUME NEW c \in Calls, ResumeOnStart(c) PROVE ControlInv'
  BY <1>6 DEF ResumeOnStart, TypeOK, ControlInv, Active
<1>7. ASSUME NEW c \in Calls, Proceed(c) PROVE ControlInv'
  BY <1>7, NextStepCases DEF Proceed, TypeOK, ControlInv, CallSteps, Active
<1>8. ASSUME NEW c \in Calls, EarlyReturn(c) \/ Return(c) PROVE ControlInv'
  BY <1>8 DEF EarlyReturn, Return, TypeOK, ControlInv, CallSteps, Active
<1>9. ASSUME NEW c \in Calls, Finish(c) PROVE ControlInv'
  BY <1>9, NextStepCases DEF Finish, TypeOK, ControlInv, CallSteps, Active
<1>10. ASSUME NEW c \in Calls, Trap(c) PROVE ControlInv'
  BY <1>10 DEF Trap, wasm, ControlInv, Active
<1>11. CASE UNCHANGED vars
  BY <1>11 DEF vars, ControlInv, Active
<1> QED BY <1>1, <1>2, <1>3, <1>4, <1>5, <1>6, <1>7, <1>8, <1>9, <1>10, <1>11
        DEF Next, Step, Event, Terminated

(* The generated code establishes and keeps its types, whatever is wired.   *)
THEOREM TypeCorrect == Spec => []TypeOK
<1>1. Init => TypeOK /\ ControlInv
  BY TypeInit
<1>2. TypeOK /\ ControlInv /\ [Next]_vars => (TypeOK /\ ControlInv)'
  BY TypeNext, ControlNext
<1> QED BY <1>1, <1>2, PTL DEF Spec

-----------------------------------------------------------------------------
(* A step that does not bring in a call leaves the ids and frames alone and *)
(* moves no call back to its start or away from its end.                    *)
Onward == /\ UNCHANGED <<frame, overlapped>>
          /\ \A c \in Calls : /\ pc[c]' = "new" <=> pc[c] = "new"
                              /\ pc[c] = "done" => pc[c]' = "done"

LEMMA OnlyInvokeEnters ==
  ASSUME TypeOK, ControlInv, [Next]_vars, ~(\E d \in Calls : Invoke(d))
  PROVE  Onward
<1>1. ASSUME NEW c \in Calls, CallReturned(c) PROVE Onward
  BY <1>1, NextStepCases DEF CallReturned, Onward, TypeOK, CallSteps
<1>2. ASSUME NEW c \in Calls, CallStarted(c) \/ CallStarting(c) PROVE Onward
  BY <1>2 DEF CallStarted, CallStarting, Waits, Onward
<1>3. ASSUME NEW c \in Calls, Start(c) \/ Complete(c) \/ ResumeOnStart(c) PROVE Onward
  BY <1>3 DEF Start, Complete, ResumeOnStart, hist, Onward
<1>4. ASSUME NEW c \in Calls, Resume(c) PROVE Onward
  <2>1. pc[c] \in CallSteps
    BY <1>4 DEF Resume, ControlInv
  <2> QED BY <1>4, <2>1, NextStepCases DEF Resume, hist, Onward, TypeOK, CallSteps
<1>5. ASSUME NEW c \in Calls, Proceed(c) \/ Finish(c) PROVE Onward
  BY <1>5, NextStepCases DEF Proceed, Finish, hist, Onward, TypeOK
<1>6. ASSUME NEW c \in Calls, EarlyReturn(c) \/ Return(c) PROVE Onward
  BY <1>6 DEF EarlyReturn, Return, Onward, TypeOK
<1>7. ASSUME NEW c \in Calls, Trap(c) PROVE Onward
  BY <1>7 DEF Trap, wasm, hist, Onward
<1>8. CASE UNCHANGED vars
  BY <1>8 DEF vars, frame, Onward
<1> QED BY <1>1, <1>2, <1>3, <1>4, <1>5, <1>6, <1>7, <1>8 DEF Next, Step, Event, Terminated

LEMMA SharingNext == TypeOK /\ ControlInv /\ SharingInv /\ [Next]_vars => SharingInv'
<1> SUFFICES ASSUME TypeOK, ControlInv, SharingInv, [Next]_vars PROVE SharingInv'
  OBVIOUS
<1>1. ASSUME NEW d \in Calls, Invoke(d) PROVE SharingInv'
  <2>1. Active' = Active \union {d} /\ \A c \in Calls : pc[c]' = "new" => pc[c] = "new" /\ c # d
    BY <1>1, NextStepCases DEF Invoke, TypeOK, Active
  <2>2. overlapped' = IF Active = {} THEN overlapped ELSE overlapped \union Active \union {d}
    BY <1>1 DEF Invoke
  <2>3. (\A c, e \in Active : c # e => c \in overlapped)'
    BY <2>1, <2>2
  <2>4. (\A c \in overlapped : pc[c] # "new")'
    <3>1. overlapped \subseteq Calls
      BY DEF TypeOK
    <3> QED BY <2>1, <2>2, <3>1 DEF SharingInv, Active
  <2> QED BY <2>3, <2>4 DEF SharingInv
<1>2. CASE ~(\E d \in Calls : Invoke(d))
  <2>1. Onward
    BY <1>2, OnlyInvokeEnters
  <2>2. Active' \subseteq Active /\ overlapped' = overlapped /\ overlapped \subseteq Calls
    BY <2>1 DEF Onward, Active, TypeOK
  <2> QED BY <2>1, <2>2 DEF SharingInv, Onward
<1> QED BY <1>1, <1>2

-----------------------------------------------------------------------------
(* Ids are never taken twice, and a hook reads that of its own call.        *)
LEMMA IdInit == Init => SharingInv /\ IdInv
BY DEF Init, SharingInv, IdInv, StartingHook, Active

(* A hook that starts now is told what is in the call-id buffer.            *)
LEMMA HookTold ==
  ASSUME NEW c \in Calls, pc[c] # "handler", Begins(c), NEW h \in heard', h \notin heard
  PROVE  h.call = c /\ h.id = callIdBuf' /\ h.late = (await[c] = "starting" /\ c \in overlapped)
<1>1. h = [hook |-> HookOf[pc[c]], call |-> c, id |-> callIdBuf',
           late |-> await[c] = "starting" /\ c \in overlapped]
  BY DEF Begins
<1>2. h.call = c /\ h.id = callIdBuf'
  BY <1>1
<1>3. h.late = (await[c] = "starting" /\ c \in overlapped)
  BY <1>1, Zenon
<1> QED BY <1>2, <1>3

Punctual(h, c) == h.call = c /\ ~h.late /\ h.id = id[c]

LEMMA IdNext == TypeOK /\ ControlInv /\ SharingInv /\ IdInv /\ [Next]_vars => IdInv'
<1> SUFFICES ASSUME TypeOK, ControlInv, SharingInv, IdInv, [Next]_vars PROVE IdInv'
  OBVIOUS
<1>0. /\ \A h \in heard : h.call \in Calls
      /\ overlapped \subseteq Calls
      /\ \A c \in Calls : id[c] \in Nat /\ counter \in Nat
  BY DEF TypeOK
<1>1. ASSUME NEW c \in Calls, Invoke(c) PROVE IdInv'
  <2>1. NextStep("new") # "new"
    BY NextStepCases
  <2>2. \A h \in heard : h.call # c
    BY <1>1 DEF Invoke, IdInv
  <2>3. id[c]' = counter + 1 /\ counter' = counter + 1
    BY <1>1 DEF Invoke, AllocCallId, TypeOK
  <2>4. \A d \in Calls : d # c => id[d]' = id[d] /\ pc[d]' = pc[d]
    BY <1>1 DEF Invoke, AllocCallId, TypeOK
  <2>5. heard' = heard /\ callIdBuf' = callIdBuf /\ await' = await /\ pc[c]' # "new"
    BY <1>1, <2>1 DEF Invoke, TypeOK
  <2>6. c \notin overlapped /\ await[c] = "none"
    BY <1>1 DEF Invoke, SharingInv, ControlInv, CallSteps
  <2>7. overlapped' = IF Active = {} THEN overlapped ELSE overlapped \union Active \union {c}
    BY <1>1 DEF Invoke
  <2>8. (\A d \in Calls : pc[d] # "new" => id[d] <= counter)'
    BY <2>3, <2>4, <1>0 DEF IdInv
  <2>9. (\A d, e \in Calls : d # e /\ pc[d] # "new" /\ pc[e] # "new" => id[d] # id[e])'
    BY <2>3, <2>4, <1>0 DEF IdInv
  <2>10. ASSUME NEW d \in Calls, StartingHook(d)'
         PROVE  IF d \in overlapped' THEN \E e \in overlapped' : callIdBuf' = id'[e]
                ELSE callIdBuf' = id'[d]
    <3>1. d # c /\ StartingHook(d)
      BY <2>4, <2>5, <2>6, <2>10 DEF StartingHook
    <3>2. CASE d \in overlapped
      <4>1. PICK e \in overlapped : callIdBuf = id[e]
        BY <3>1, <3>2 DEF IdInv
      <4>2. e \in overlapped' /\ callIdBuf' = id'[e] /\ d \in overlapped'
        BY <4>1, <3>2, <2>4, <2>5, <2>6, <2>7, <1>0
      <4> QED BY <4>2
    <3>3. CASE d \notin overlapped
      BY <3>1, <3>3, <2>4, <2>5 DEF IdInv
    <3> QED BY <3>2, <3>3
  <2>11. ASSUME NEW h \in heard'
         PROVE  /\ pc'[h.call] # "new"
                /\ ~h.late => h.id = id'[h.call]
                /\ h.late => h.call \in overlapped' /\ \E d \in overlapped' : h.id = id'[d]
    <3>1. h \in heard /\ h.call # c /\ h.call \in Calls
      BY <2>2, <2>5, <1>0
    <3>2. ASSUME h.late PROVE h.call \in overlapped' /\ \E d \in overlapped' : h.id = id'[d]
      <4>1. h.call \in overlapped /\ \E d \in overlapped : h.id = id[d]
        BY <3>1, <3>2 DEF IdInv
      <4> QED BY <4>1, <2>4, <2>6, <2>7, <1>0
    <3> QED BY <3>1, <3>2, <2>4 DEF IdInv
  <2> QED BY <2>8, <2>9, <2>10, <2>11 DEF IdInv
<1>2. ASSUME Onward, UNCHANGED <<heard, callIdBuf>>,
             \A c \in Calls : StartingHook(c)' => StartingHook(c)
      PROVE  IdInv'
  BY <1>2, <1>0 DEF IdInv, Onward, frame
<1>3. ASSUME Onward, NEW c \in Calls, pc[c] # "new", c \in Active,
             \A h \in heard' : h \in heard \/ Punctual(h, c),
             \A d \in Calls \ {c} : StartingHook(d)' => StartingHook(d),
             \/ callIdBuf' = callIdBuf /\ ~StartingHook(c)'
             \/ callIdBuf' = id[c]
      PROVE  IdInv'
  <2>1. id' = id /\ counter' = counter /\ overlapped' = overlapped
    BY <1>3 DEF Onward, frame
  <2>2. \A d \in Calls : pc[d]' = "new" <=> pc[d] = "new"
    BY <1>3 DEF Onward
  <2>3. ASSUME NEW d \in Calls, StartingHook(d)'
        PROVE  IF d \in overlapped THEN \E e \in overlapped : callIdBuf' = id[e]
               ELSE callIdBuf' = id[d]
    <3>1. CASE d = c
      BY <1>3, <2>3, <3>1
    <3>2. CASE d # c
      <4>1. StartingHook(d)
        BY <1>3, <2>3, <3>2
      <4>2. d \in Active
        BY <4>1 DEF StartingHook, ControlInv, Active, CallSteps
      <4>3. c \in overlapped /\ d \in overlapped
        BY <1>3, <3>2, <4>2 DEF SharingInv
      <4> QED BY <1>3, <4>1, <4>3 DEF IdInv
    <3> QED BY <3>1, <3>2
  <2>4. ASSUME NEW h \in heard'
        PROVE  /\ pc'[h.call] # "new"
               /\ ~h.late => h.id = id[h.call]
               /\ h.late => h.call \in overlapped /\ \E d \in overlapped : h.id = id[d]
    <3>1. CASE h \in heard
      BY <3>1, <2>2, <1>0 DEF IdInv
    <3>2. CASE Punctual(h, c)
      BY <3>2, <1>3, <2>2 DEF Punctual
    <3> QED BY <1>3, <3>1, <3>2
  <2>5. (\A d \in Calls : pc[d] # "new" => id[d] <= counter)'
    BY <2>1, <2>2 DEF IdInv
  <2>6. (\A d, e \in Calls : d # e /\ pc[d] # "new" /\ pc[e] # "new" => id[d] # id[e])'
    BY <2>1, <2>2 DEF IdInv
  <2> QED BY <2>1, <2>3, <2>4, <2>5, <2>6 DEF IdInv
<1>4. ASSUME NEW c \in Calls, CallReturned(c) \/ CallStarted(c) \/ CallStarting(c), Onward
      PROVE  IdInv'
  <2>1. c \in Active /\ pc[c] # "new" /\ pc[c] \in CallSteps /\ running = c /\ Populate(c)
    BY <1>4 DEF CallReturned, CallStarted, CallStarting, Waits, Active, CallSteps
  <2>2. await[c] = "none"
    BY <2>1 DEF ControlInv
  <2>3. \A h \in heard' : h \in heard \/ Punctual(h, c)
    <3>1. CASE heard' = heard
      BY <3>1
    <3>2. CASE Begins(c) /\ pc[c] # "handler"
      BY <3>2, <2>1, <2>2, HookTold DEF Populate, CallIdFor, Punctual
    <3>3. CASE Begins(c) /\ pc[c] = "handler"
      BY <3>3 DEF Begins
    <3> QED BY <1>4, <3>1, <3>2, <3>3 DEF CallReturned, CallStarted, CallStarting
  <2>4. \A d \in Calls \ {c} : StartingHook(d)' => StartingHook(d)
    BY <1>4 DEF CallReturned, CallStarted, CallStarting, Waits, StartingHook, TypeOK
  <2>5. CASE pc[c] = "handler"
    <3>1. callIdBuf' = callIdBuf
      BY <2>1, <2>5 DEF Populate
    <3>2. ~StartingHook(c)'
      BY <1>4, <2>2, <2>5 DEF CallReturned, CallStarted, CallStarting, Waits, StartingHook, TypeOK
    <3> QED BY <1>3, <1>4, <2>1, <2>3, <2>4, <3>1, <3>2
  <2>6. CASE pc[c] # "handler"
    <3>1. callIdBuf' = id[c]
      BY <2>1, <2>6 DEF Populate, CallIdFor
    <3> QED BY <1>3, <1>4, <2>1, <2>3, <2>4, <3>1
  <2> QED BY <2>5, <2>6
<1>5. ASSUME NEW c \in Calls, Start(c), Onward PROVE IdInv'
  <2>1. /\ c \in Active /\ pc[c] # "new" /\ pc[c] \in CallSteps /\ await[c] = "starting"
        /\ callIdBuf' = callIdBuf /\ Begins(c) /\ pc' = pc
        /\ await' = [await EXCEPT ![c] = "announced"]
    BY <1>5 DEF Start, Active, CallSteps, ControlInv
  <2>2. ~StartingHook(c)' /\ \A d \in Calls \ {c} : StartingHook(d)' => StartingHook(d)
    BY <2>1 DEF StartingHook, TypeOK
  <2>3. CASE pc[c] = "handler"
    BY <1>2, <1>5, <2>1, <2>2, <2>3 DEF Begins
  <2>4. CASE pc[c] # "handler" /\ c \notin overlapped
    <3>1. callIdBuf = id[c]
      BY <2>1, <2>4 DEF IdInv, StartingHook
    <3>2. \A h \in heard' : h \in heard \/ Punctual(h, c)
      BY <2>1, <2>4, <3>1, HookTold DEF Punctual
    <3> QED BY <1>3, <1>5, <2>1, <2>2, <3>2
  <2>5. CASE pc[c] # "handler" /\ c \in overlapped
    <3>1. \E d \in overlapped : callIdBuf = id[d]
      BY <2>1, <2>5 DEF IdInv, StartingHook
    <3>2. id' = id /\ counter' = counter /\ overlapped' = overlapped
      BY <1>5 DEF Onward, frame
    <3>3. ASSUME NEW h \in heard'
          PROVE  /\ pc[h.call] # "new"
                 /\ ~h.late => h.id = id[h.call]
                 /\ h.late => h.call \in overlapped /\ \E d \in overlapped : h.id = id[d]
      <4>1. CASE h \in heard
        BY <4>1, <1>0 DEF IdInv
      <4>2. CASE h \notin heard
        <5>1. h.call = c /\ h.late /\ h.id = callIdBuf
          BY <4>2, <2>1, <2>5, HookTold
        <5> QED BY <5>1, <2>1, <2>5, <3>1
      <4> QED BY <4>1, <4>2
    <3> QED BY <2>1, <2>2, <3>2, <3>3 DEF IdInv
  <2> QED BY <2>3, <2>4, <2>5
<1>6. ASSUME NEW c \in Calls, Complete(c) \/ Resume(c) \/ ResumeOnStart(c), Onward PROVE IdInv'
  <2>1. UNCHANGED <<heard, callIdBuf>>
    BY <1>6 DEF Complete, Resume, ResumeOnStart, mem, hist
  <2>2. \A d \in Calls : StartingHook(d)' => StartingHook(d)
    BY <1>6 DEF Complete, Resume, ResumeOnStart, StartingHook, TypeOK
  <2> QED BY <1>2, <1>6, <2>1, <2>2
<1>7. ASSUME NEW c \in Calls, Proceed(c) \/ EarlyReturn(c) \/ Finish(c) \/ Return(c), Onward
      PROVE  IdInv'
  <2>1. UNCHANGED <<heard, callIdBuf, await>> /\ running = c
    BY <1>7 DEF Proceed, EarlyReturn, Finish, Return, mem, hist
  <2>2. await[c] = "none" /\ \A d \in Calls \ {c} : pc[d]' = pc[d]
    BY <1>7, <2>1 DEF Proceed, EarlyReturn, Finish, Return, ControlInv, TypeOK
  <2>3. \A d \in Calls : StartingHook(d)' => StartingHook(d)
    BY <2>1, <2>2 DEF StartingHook
  <2> QED BY <1>2, <1>7, <2>1, <2>3
<1>8. ASSUME NEW c \in Calls, Trap(c) PROVE IdInv'
  BY <1>8 DEF Trap, frame, wasm, mem, hist, StartingHook, IdInv
<1>9. CASE UNCHANGED vars
  BY <1>9 DEF vars, StartingHook, IdInv
<1> QED BY <1>1, <1>4, <1>5, <1>6, <1>7, <1>8, <1>9, OnlyInvokeEnters DEF Next, Step, Event, Terminated

(* However many calls are in flight, the middleware can pair on-call and    *)
(* on-return by id, the promise wit/common/world.wit makes about call-id:   *)
(* for every hook that did not have to wait in a call that overlaps others, *)
(* and for every call that overlaps none.                                   *)
THEOREM CallIdsAlwaysPair == Spec => []CallIdsPair
<1>1. Init => TypeOK /\ ControlInv /\ SharingInv /\ IdInv
  BY TypeInit, IdInit
<1>2. TypeOK /\ ControlInv /\ SharingInv /\ IdInv /\ [Next]_vars
        => (TypeOK /\ ControlInv /\ SharingInv /\ IdInv)'
  BY TypeNext, ControlNext, SharingNext, IdNext
<1>3. TypeOK /\ SharingInv /\ IdInv => CallIdsPair
  <2> SUFFICES ASSUME TypeOK, SharingInv, IdInv, NEW g \in heard, NEW h \in heard
               PROVE  /\ ~g.late /\ ~h.late => (g.id = h.id <=> g.call = h.call)
                      /\ g.call \notin overlapped /\ g.id = h.id => g.call = h.call
    BY DEF CallIdsPair
  <2>1. g.call \in Calls /\ h.call \in Calls /\ overlapped \subseteq Calls
    BY DEF TypeOK
  <2>2. ~g.late /\ ~h.late => (g.id = h.id <=> g.call = h.call)
    BY <2>1 DEF IdInv
  <2>3. ASSUME g.call \notin overlapped, g.id = h.id PROVE g.call = h.call
    <3>1. g.id = id[g.call] /\ pc[g.call] # "new"
      BY <2>3 DEF IdInv
    <3>2. PICK d \in Calls : pc[d] # "new" /\ h.id = id[d] /\ (d = h.call \/ d \in overlapped)
      <4>1. CASE h.late
        BY <4>1, <2>1 DEF IdInv, SharingInv
      <4>2. CASE ~h.late
        BY <4>2, <2>1 DEF IdInv
      <4> QED BY <4>1, <4>2
    <3>3. d = g.call
      BY <3>1, <3>2, <2>1, <2>3 DEF IdInv
    <3> QED BY <3>2, <3>3, <2>3
  <2> QED BY <2>2, <2>3
<1> QED BY <1>1, <1>2, <1>3, PTL DEF Spec

-----------------------------------------------------------------------------
(* The memory a call in flight still needs.                                 *)
LEMMA LiveInit == Init => LiveInv
BY DEF Init, LiveInv, Active

LEMMA LiveType ==
  ASSUME TypeOK, NEW x \in live
  PROVE  x.call \in Calls /\ x.at \in DOMAIN ram /\ x.at \in Nat /\ x.beside \subseteq Calls
BY DEF TypeOK

(* No step makes an unsheltered datum sheltered again.                      *)
LEMMA ShelterLost ==
  ASSUME TypeOK, NEW x \in live, Sheltered(x)', \A c \in Calls : pc[c] = "done" => pc[c]' = "done"
  PROVE  Sheltered(x)
BY LiveType DEF Sheltered

(* With no call returning, what is needed lies below the allocator.         *)
NoneReturning == running \in Calls => pc[running] # "return"

LEMMA SafeBelow ==
  ASSUME TypeOK, LiveInv, NoneReturning, NEW x \in live, Sheltered(x)
  PROVE  ram[x.at] = x.call /\ x.at < bump
<1>1. Safe(x)
  BY DEF LiveInv
<1>2. ~(running \in x.beside \union {x.call} /\ pc[running] = "return")
  BY LiveType DEF NoneReturning
<1> QED BY <1>1, <1>2 DEF Safe

(* A datum stays safe while memory is handed out and calls arrive.          *)
LEMMA OldSafe ==
  ASSUME TypeOK, LiveInv, NoneReturning, NEW x \in live, Sheltered(x)',
         \A d \in Calls : pc[d] = "done" => pc[d]' = "done",
         UNCHANGED heap \/ \E c \in Calls : Allocate(c),
         \A d \in Active' : (d \in Active /\ saved'[d] = saved[d]) \/ saved'[d] = bump'
  PROVE  Safe(x)'
<1>1. Sheltered(x)
  BY ShelterLost
<1>2. ram[x.at] = x.call /\ x.at < bump /\ x.at \in DOMAIN ram /\ x.at \in Nat
  BY <1>1, SafeBelow, LiveType
<1>3. ram'[x.at] = x.call /\ x.at < bump'
  <2>1. CASE UNCHANGED heap
    BY <1>2, <2>1 DEF heap
  <2>2. ASSUME NEW c \in Calls, Allocate(c) PROVE ram'[x.at] = x.call /\ x.at < bump'
    <3>1. bump \in Nat /\ bump' = bump + 1 /\ ram'[x.at] = ram[x.at]
      BY <1>2, <2>2, AllocateType DEF TypeOK
    <3> QED BY <1>2, <3>1
  <2> QED BY <2>1, <2>2
<1>4. ASSUME NEW d \in Active' \ (x.beside \union {x.call}) PROVE x.at < saved'[d]
  <2>1. CASE d \in Active /\ saved'[d] = saved[d]
    BY <1>1, <1>4, <2>1 DEF LiveInv, Safe
  <2>2. CASE saved'[d] = bump'
    BY <1>3, <2>2
  <2> QED BY <1>4, <2>1, <2>2
<1> QED BY <1>3, <1>4 DEF Safe

(* Memory handed out now belongs to nobody else, and everyone in flight is  *)
(* beside it.                                                               *)
LEMMA NewSafe ==
  ASSUME TypeOK, NEW c \in Calls, Allocate(c), Active' \subseteq Active \union {c}, NEW x \in live',
         x \notin live
  PROVE  Safe(x)' /\ x.call = c /\ x.at = bump /\ x.beside = Active \ {c}
<1>1. x = [call |-> c, at |-> bump, beside |-> Active \ {c}]
  BY DEF Allocate
<1>2. bump \in Nat /\ bump' = bump + 1 /\ ram'[bump] = c
  BY AllocateType DEF TypeOK
<1>3. x.call = c /\ x.at = bump /\ x.beside = Active \ {c}
  BY <1>1
<1> QED BY <1>2, <1>3 DEF Safe

(* The step of an active call that is not about to return: it leaves the    *)
(* heap alone or puts something there.                                      *)
LEMMA LiveQuiet ==
  ASSUME TypeOK, SharingInv, LiveInv, Onward, NoneReturning, NEW c \in Active, Active' = Active,
         UNCHANGED heap \/ Allocate(c)
  PROVE  LiveInv'
<1>1. /\ UNCHANGED <<saved, args, overlapped>> /\ c \in Calls
      /\ \A d \in Calls : (pc[d]' = "new" <=> pc[d] = "new") /\ (pc[d] = "done" => pc[d]' = "done")
  BY DEF Onward, frame, Active
<1>2. live \subseteq live' /\ \A x \in live' \ live : Allocate(c)
  BY DEF heap, Allocate
<1>3. ASSUME NEW x \in live'
      PROVE  x.call \in Active /\ (x.beside # {} => x.call \in overlapped)
  <2>1. CASE x \in live
    BY <2>1 DEF LiveInv
  <2>2. CASE x \notin live
    <3>1. x.call = c /\ x.beside = Active \ {c}
      BY <1>1, <1>2, <2>2, NewSafe
    <3> QED BY <3>1 DEF SharingInv
  <2> QED BY <2>1, <2>2
<1>4. ASSUME NEW x \in live', Sheltered(x)' PROVE Safe(x)'
  <2>1. CASE x \in live
    BY <1>1, <1>4, <2>1, OldSafe
  <2>2. CASE x \notin live
    BY <1>1, <1>2, <2>2, NewSafe
  <2> QED BY <2>1, <2>2
<1>5. ASSUME NEW d \in Active PROVE Holds(d, args[d])'
  BY <1>1, <1>2 DEF LiveInv, Holds
<1> QED BY <1>1, <1>3, <1>4, <1>5 DEF LiveInv

(* A call ends: what it needed is needed no more, and what is still needed  *)
(* was not given back with it.                                              *)
LEMMA LiveEnds ==
  ASSUME TypeOK, LiveInv, Onward, NEW c \in Active, running = c, live' = LiveWithout(c),
         Active' = Active \ {c}, pc'[c] = "done", UNCHANGED ram,
         \/ pc[c] # "return" /\ bump' = saved[c]
         \/ pc[c] = "return" /\ bump' = bump
  PROVE  LiveInv'
<1>1. /\ UNCHANGED <<saved, args, overlapped>> /\ c \in Calls
      /\ \A d \in Calls : (pc[d]' = "new" <=> pc[d] = "new") /\ (pc[d] = "done" => pc[d]' = "done")
  BY DEF Onward, frame, Active
<1>2. \A x \in live' : x \in live /\ x.call # c
  BY DEF LiveWithout
<1>3. ASSUME NEW x \in live', Sheltered(x)' PROVE Safe(x)'
  <2>1. x \in live /\ x.call # c /\ Sheltered(x) /\ x.at \in Nat /\ x.beside \subseteq Calls
    BY <1>1, <1>2, <1>3, ShelterLost, LiveType
  <2>2. c \notin x.beside
    BY <1>3, <1>1 DEF Sheltered
  <2>3. Safe(x) /\ x.at < saved[c]
    BY <2>1, <2>2 DEF LiveInv, Safe
  <2>4. x.at < bump'
    BY <2>1, <2>2, <2>3 DEF Safe
  <2> QED BY <1>1, <2>3, <2>4 DEF Safe
<1>4. ASSUME NEW d \in Active \ {c} PROVE Holds(d, args[d])'
  BY <1>1, <1>4 DEF LiveInv, Holds, LiveWithout
<1> QED BY <1>1, <1>2, <1>3, <1>4 DEF LiveInv

LEMMA LiveNext ==
  TypeOK /\ ControlInv /\ SharingInv /\ SharingInv' /\ LiveInv /\ [Next]_vars => LiveInv'
<1> SUFFICES ASSUME TypeOK, ControlInv, SharingInv, SharingInv', LiveInv, [Next]_vars PROVE LiveInv'
  OBVIOUS
<1> USE NoneAssumption
<1>1. ASSUME NEW c \in Calls, Invoke(c) PROVE LiveInv'
  <2>1. Active' = Active \union {c} /\ NoneReturning /\ c \notin Active
    BY <1>1, NextStepCases DEF Invoke, TypeOK, Active, NoneReturning
  <2>2. /\ \A d \in Calls \ {c} : saved'[d] = saved[d] /\ args'[d] = args[d] /\ pc'[d] = pc[d]
        /\ saved'[c] = bump' /\ pc[c] = "new" /\ pc'[c] \notin {"new", "done"} /\ args[c] = None
    BY <1>1, NextStepCases DEF Invoke, TypeOK, LiveInv
  <2>3. \/ UNCHANGED heap /\ args' = args
        \/ Allocate(c) /\ args'[c] = bump
    BY <1>1 DEF Invoke, TypeOK
  <2>4. live \subseteq live' /\ \A x \in live' \ live : Allocate(c)
    BY <2>3 DEF heap, Allocate
  <2>5. overlapped' = IF Active = {} THEN overlapped ELSE overlapped \union Active \union {c}
    BY <1>1 DEF Invoke
  <2>6. ASSUME NEW x \in live'
        PROVE  x.call \in Active' /\ (x.beside # {} => x.call \in overlapped')
    <3>1. CASE x \in live
      BY <2>1, <2>5, <3>1 DEF LiveInv
    <3>2. CASE x \notin live
      <4>1. x.call = c /\ x.beside = Active \ {c}
        BY <2>1, <2>4, <3>2, NewSafe
      <4> QED BY <2>1, <2>5, <4>1
    <3> QED BY <3>1, <3>2
  <2>7. ASSUME NEW x \in live', Sheltered(x)' PROVE Safe(x)'
    <3>1. CASE x \in live
      <4>1. \A d \in Active' : (d \in Active /\ saved'[d] = saved[d]) \/ saved'[d] = bump'
        BY <2>1, <2>2 DEF Active
      <4>2. \A d \in Calls : pc[d] = "done" => pc[d]' = "done"
        BY <2>2
      <4> QED BY <2>1, <2>3, <2>7, <3>1, <4>1, <4>2, OldSafe
    <3>2. CASE x \notin live
      BY <2>1, <2>4, <3>2, NewSafe
    <3> QED BY <3>1, <3>2
  <2>8. ASSUME NEW d \in Active' PROVE Holds(d, args[d])'
    <3>1. CASE d # c
      BY <2>1, <2>2, <2>4, <2>8, <3>1 DEF LiveInv, Holds, Active
    <3>2. CASE d = c /\ args' = args
      BY <2>2, <3>2 DEF Holds
    <3>3. CASE d = c /\ Allocate(c) /\ args'[c] = bump
      <4>1. [call |-> c, at |-> bump, beside |-> Active \ {c}] \in live'
        BY <3>3 DEF Allocate
      <4> QED BY <3>3, <4>1 DEF Holds
    <3> QED BY <2>3, <3>1, <3>2, <3>3
  <2>9. \A d \in Calls : pc'[d] = "new" => args'[d] = None
    BY <2>2 DEF LiveInv
  <2> QED BY <2>6, <2>7, <2>8, <2>9 DEF LiveInv
<1>2. ASSUME NEW c \in Calls, CallReturned(c) \/ Complete(c), Onward PROVE LiveInv'
  <2>1. c \in Active /\ Active' = Active /\ NoneReturning
    BY <1>2, NextStepCases DEF CallReturned, Complete, TypeOK, Active, CallSteps, ControlInv,
       NoneReturning
  <2>2. UNCHANGED heap \/ Allocate(c)
    BY <1>2 DEF CallReturned, Complete, CalleeReturns
  <2> QED BY <1>2, <2>1, <2>2, LiveQuiet
<1>3. ASSUME NEW c \in Calls, CallStarted(c) \/ CallStarting(c), Onward PROVE LiveInv'
  <2>1. c \in Active /\ Active' = Active /\ NoneReturning /\ UNCHANGED heap
    BY <1>3 DEF CallStarted, CallStarting, Waits, Active, CallSteps, NoneReturning
  <2> QED BY <1>3, <2>1, LiveQuiet
<1>4. ASSUME NEW c \in Calls, Start(c) \/ ResumeOnStart(c), Onward PROVE LiveInv'
  <2>1. c \in Active /\ Active' = Active /\ NoneReturning /\ UNCHANGED heap
    BY <1>4 DEF Start, ResumeOnStart, mem, Active, CallSteps, ControlInv, NoneReturning
  <2> QED BY <1>4, <2>1, LiveQuiet
<1>5. ASSUME NEW c \in Calls, Resume(c), Onward PROVE LiveInv'
  <2>1. pc[c] \in CallSteps
    BY <1>5 DEF Resume, ControlInv
  <2>2. c \in Active /\ Active' = Active /\ NoneReturning /\ UNCHANGED heap
    BY <1>5, <2>1, NextStepCases DEF Resume, mem, Active, CallSteps, TypeOK, NoneReturning
  <2> QED BY <1>5, <2>2, LiveQuiet
<1>6. ASSUME NEW c \in Calls, Proceed(c), Onward PROVE LiveInv'
  <2>1. c \in Active /\ Active' = Active /\ NoneReturning /\ UNCHANGED heap
    BY <1>6, NextStepCases DEF Proceed, mem, Active, TypeOK, NoneReturning
  <2> QED BY <1>6, <2>1, LiveQuiet
<1>7. ASSUME NEW c \in Calls, EarlyReturn(c) \/ Return(c), Onward PROVE LiveInv'
  <2>1. c \in Active /\ running = c /\ live' = LiveWithout(c) /\ pc'[c] = "done" /\ ram' = ram
    BY <1>7 DEF EarlyReturn, Return, Active, TypeOK
  <2>2. Active' = Active \ {c}
    BY <1>7 DEF EarlyReturn, Return, Active, TypeOK
  <2>3. \/ pc[c] # "return" /\ bump' = saved[c]
        \/ pc[c] = "return" /\ bump' = bump
    BY <1>7 DEF EarlyReturn, Return, RestoredBump
  <2> QED BY <1>7, <2>1, <2>2, <2>3, LiveEnds
<1>8. ASSUME NEW c \in Calls, Finish(c), Onward PROVE LiveInv'
  <2>1. /\ c \in Active /\ Active' = Active /\ NoneReturning /\ running' = c
        /\ pc'[c] = "return" /\ bump' = saved[c] /\ UNCHANGED <<ram, live>>
    BY <1>8, NextStepCases DEF Finish, RestoredBump, Active, TypeOK, NoneReturning
  <2>2. /\ UNCHANGED <<saved, args, overlapped>>
        /\ \A d \in Calls : (pc[d]' = "new" <=> pc[d] = "new") /\ (pc[d] = "done" => pc[d]' = "done")
    BY <1>8 DEF Onward, frame
  <2>3. ASSUME NEW x \in live, Sheltered(x)' PROVE Safe(x)'
    <3>1. Sheltered(x)
      BY <2>2, <2>3, ShelterLost
    <3>2. Safe(x)
      BY <3>1 DEF LiveInv
    <3>3. CASE c \in x.beside \union {x.call}
      BY <2>1, <2>2, <3>2, <3>3 DEF Safe
    <3>4. CASE c \notin x.beside \union {x.call}
      BY <2>1, <2>2, <3>2, <3>4 DEF Safe
    <3> QED BY <3>3, <3>4
  <2> QED BY <2>1, <2>2, <2>3 DEF LiveInv, Holds
<1>9. ASSUME NEW c \in Calls, Trap(c) PROVE LiveInv'
  BY <1>9 DEF Trap, frame, wasm, mem, heap, hist, LiveInv, Sheltered, Safe, Holds, Active
<1>10. CASE UNCHANGED vars
  BY <1>10 DEF vars, LiveInv, Sheltered, Safe, Holds, Active
<1> QED BY <1>1, <1>2, <1>3, <1>4, <1>5, <1>6, <1>7, <1>8, <1>9, <1>10, OnlyInvokeEnters
        DEF Next, Step, Event, Terminated

(* However many calls are in flight, the allocator hands out no memory that *)
(* one of them still needs, the window between the restore of the bump      *)
(* pointer and the lift of the result included.                             *)
THEOREM LiveHeapIsSafe == Spec => []LiveHeapSafe
<1>1. Init => TypeOK /\ ControlInv /\ SharingInv /\ LiveInv
  BY TypeInit, IdInit, LiveInit
<1>2. TypeOK /\ ControlInv /\ SharingInv /\ LiveInv /\ [Next]_vars
        => (TypeOK /\ ControlInv /\ SharingInv /\ LiveInv)'
  BY TypeNext, ControlNext, SharingNext, LiveNext
<1>3. LiveInv => LiveHeapSafe
  BY DEF LiveInv, LiveHeapSafe, Sheltered, Safe
<1> QED BY <1>1, <1>2, <1>3, PTL DEF Spec

-----------------------------------------------------------------------------
(* What a call that overlapped no other finds in static memory and heap.    *)

(* What it holds a pointer to is still its own.                             *)
LEMMA HoldsOwn ==
  ASSUME TypeOK, LiveInv, NEW c \in Active \ overlapped, NEW a, a # None, Holds(c, a)
  PROVE  ram[a] = c
<1>1. PICK x \in live : x.call = c /\ x.at = a
  BY DEF Holds
<1>2. x.beside = {}
  BY <1>1 DEF LiveInv
<1>3. Safe(x)
  BY <1>2 DEF LiveInv, Sheltered
<1> QED BY <1>1, <1>3 DEF Safe

LEMMA OwnSeen ==
  ASSUME TypeOK, LiveInv, NEW c \in Active \ overlapped, NEW d, d.of = c, Holds(c, d.to)
  PROVE  Seen(d) = Own(c)
BY HoldsOwn DEF Seen, Own

LEMMA OwnParams ==
  ASSUME TypeOK, LiveInv, NEW c \in Active \ overlapped
  PROVE  Seen(Params(c)) = Own(c)
<1>1. Params(c).of = c /\ Params(c).to = args[c]
  BY DEF Params
<1>2. Holds(c, args[c])
  BY DEF LiveInv
<1> QED BY <1>1, <1>2, OwnSeen

(* A call that never overlapped is not disturbed by a step of another one:  *)
(* it cannot be active, so no slot matters to it.                           *)
Untouched(c) == /\ pc[c]' = pc[c] /\ await[c]' = await[c] /\ answer[c]' = answer[c]
                /\ outcome[c]' = outcome[c] /\ result[c]' = result[c] /\ served[c]' = served[c]

LEMMA Bystander ==
  ASSUME TypeOK, ControlInv, SharingInv, SoloInv, NEW c \in Calls, NEW d \in Calls, c # d,
         c \notin overlapped, d \in Active, Untouched(c)
  PROVE  SoloSlots(c)' /\ Faithful(c)'
<1>1. pc[c] \in {"new", "done"} /\ pc[c]' = pc[c] /\ SoloSlots(c) /\ Faithful(c)
  BY DEF Active, Untouched, SharingInv, SoloInv
<1>2. SoloSlots(c)'
  BY <1>1 DEF SoloSlots, AnswerIn, Given, ResultIn, Untouched
<1> QED BY <1>1, <1>2 DEF Faithful, Untouched

(* A step of one active call keeps SoloInv when it keeps that call's part.  *)
LEMMA OneCallSteps ==
  ASSUME TypeOK, ControlInv, SharingInv, SoloInv, NEW d \in Active, UNCHANGED overlapped,
         \A c \in Calls \ {d} : Untouched(c),
         d \notin overlapped => SoloSlots(d)' /\ Faithful(d)'
  PROVE  SoloInv'
<1>1. d \in Calls
  BY DEF Active
<1> QED BY <1>1, Bystander DEF SoloInv

(* What a handler is given when it starts in a call that runs alone.        *)
LEMMA HandlerGiven ==
  ASSUME TypeOK, LiveInv, NEW c \in Active \ overlapped, pc[c] = "handler", Begins(c),
         fn[c] \in IndirectFns => paramsRec'[fn[c]] = Params(c)
  PROVE  served' = [served EXCEPT ![c] = Own(c)]
BY OwnParams DEF Begins

LEMMA SoloInit == Init => SoloInv
<1> SUFFICES ASSUME Init PROVE SoloInv
  OBVIOUS
<1>1. \A c \in Calls : SoloSlots(c)
  BY DEF Init, SoloSlots, AnswerIn, Given, ResultIn
<1>2. \A c \in Calls : Faithful(c)
  BY DEF Init, Faithful
<1> QED BY <1>1, <1>2 DEF SoloInv

LEMMA SoloNext ==
  TypeOK /\ ControlInv /\ SharingInv /\ LiveInv /\ SoloInv /\ [Next]_vars => SoloInv'
<1> SUFFICES ASSUME TypeOK, ControlInv, SharingInv, LiveInv, SoloInv, [Next]_vars PROVE SoloInv'
  OBVIOUS
<1> USE NoneAssumption
<1>1. ASSUME NEW d \in Calls, Invoke(d) PROVE SoloInv'
  <2>1. \A c \in Calls \ {d} : Untouched(c)
    BY <1>1 DEF Invoke, TypeOK, Untouched
  <2>2. overlapped' = IF Active = {} THEN overlapped ELSE overlapped \union Active \union {d}
    BY <1>1 DEF Invoke
  <2>3. UNCHANGED <<answer, outcome, result, served, await, blockSlot, retptr, paramsRec, fn>>
    BY <1>1 DEF Invoke
  <2>4. ASSUME NEW c \in Calls, c \notin overlapped' PROVE SoloSlots(c)' /\ Faithful(c)'
    <3>1. SoloSlots(c) /\ Faithful(c)
      BY <2>2, <2>4 DEF SoloInv
    <3>2. CASE c = d
      <4>1. pc[d] = "new" /\ pc[d]' \in {"on_call", "should_block", "handler"} /\ await[d] = "none"
        BY <1>1, NextStepCases DEF Invoke, TypeOK, ControlInv, CallSteps
      <4> QED BY <2>3, <3>1, <3>2, <4>1 DEF SoloSlots, Faithful, AnswerIn, Given, ResultIn
    <3>3. CASE c # d
      <4>1. c \notin Active
        BY <2>2, <2>4
      <4>2. pc[c] \in {"new", "done"} /\ pc'[c] = pc[c]
        BY <2>1, <3>3, <4>1 DEF Active, Untouched
      <4> QED BY <2>1, <2>3, <3>1, <3>3, <4>2
              DEF SoloSlots, Faithful, AnswerIn, Given, ResultIn, Untouched
    <3> QED BY <3>2, <3>3
  <2> QED BY <2>4 DEF SoloInv
<1>2. ASSUME NEW d \in Calls, CallReturned(d) \/ Complete(d), pc[d] = "should_block" PROVE SoloInv'
  <2>1. d \in Active /\ UNCHANGED overlapped
    BY <1>2 DEF CallReturned, Complete, hist, Active
  <2>2. served' = served /\ UNCHANGED <<outcome, result, fn, retptr>>
    BY <1>2 DEF CallReturned, Complete, hist, frame, Begins, CalleeReturns
  <2>3. \A c \in Calls \ {d} : Untouched(c)
    BY <1>2, <2>2 DEF CallReturned, Complete, CalleeReturns, TypeOK, Untouched
  <2>4. answer[d]' = (IF blockSlot' THEN "block" ELSE "pass") /\ AnswerIn(d)'
    BY <1>2, NextStepCases DEF CallReturned, Complete, CalleeReturns, TypeOK, AnswerIn
  <2>5. pc'[d] \in {"decide", "should_block"} /\ (pc'[d] = "should_block" => await'[d] = "ready")
    BY <1>2, NextStepCases DEF CallReturned, Complete, TypeOK
  <2>6. d \notin overlapped => SoloSlots(d)' /\ Faithful(d)'
    <3> SUFFICES ASSUME d \notin overlapped PROVE SoloSlots(d)' /\ Faithful(d)'
      OBVIOUS
    <3>1. SoloSlots(d) /\ Faithful(d)
      BY DEF SoloInv
    <3>2. SoloSlots(d)'
      BY <1>2, <2>2, <2>4, <2>5, <3>1 DEF SoloSlots, AnswerIn, Given, ResultIn
    <3>3. Faithful(d)'
      BY <1>2, <2>2, <3>1 DEF Faithful, SoloSlots
    <3> QED BY <3>2, <3>3
  <2> QED BY <2>1, <2>3, <2>6, OneCallSteps
<1>3. ASSUME NEW d \in Calls, CallReturned(d) \/ Complete(d), pc[d] = "handler" PROVE SoloInv'
  <2>1. d \in Active /\ UNCHANGED overlapped
    BY <1>3 DEF CallReturned, Complete, hist, Active
  <2>2. UNCHANGED <<outcome, result, fn, answer, blockSlot>>
    BY <1>3 DEF CallReturned, Complete, hist, frame, CalleeReturns
  <2>3. \A c \in Calls \ {d} : Untouched(c)
    BY <1>3, <2>2 DEF CallReturned, Complete, hist, Begins, TypeOK, Untouched
  <2>4. /\ pc[d]' \in {"handler", "on_return", "finish"}
        /\ pc[d]' = "handler" => await[d]' = "ready"
    BY <1>3, NextStepCases DEF CallReturned, Complete, TypeOK
  <2>5. UsesRetptr(fn[d]) => retptr'[fn[d]].of = d /\ Holds(d, retptr[fn[d]].to)'
    <3> SUFFICES ASSUME UsesRetptr(fn[d])
                 PROVE  retptr'[fn[d]].of = d /\ Holds(d, retptr[fn[d]].to)'
      OBVIOUS
    <3>1. retptr'[fn[d]] = [of |-> d, to |-> IF fn[d] \in HeapFns THEN bump ELSE None]
      BY <1>3 DEF CallReturned, Complete, CalleeReturns, TypeOK
    <3>2. fn[d] \in HeapFns => [call |-> d, at |-> bump, beside |-> Active \ {d}] \in live'
      BY <1>3 DEF CallReturned, Complete, CalleeReturns, Allocate
    <3>3. CASE fn[d] \in HeapFns
      <4>1. [call |-> d, at |-> bump, beside |-> Active \ {d}].call = d
            /\ [call |-> d, at |-> bump, beside |-> Active \ {d}].at = bump
        OBVIOUS
      <4>2. \E x \in live' : x.call = d /\ x.at = bump
        BY <3>2, <3>3, <4>1
      <4> QED BY <2>2, <3>1, <3>3, <4>2 DEF Holds
    <3>4. CASE fn[d] \notin HeapFns
      BY <2>2, <3>1, <3>4 DEF Holds
    <3> QED BY <3>3, <3>4
  <2>6. d \notin overlapped => served'[d] = Own(d)
    <3> SUFFICES ASSUME d \notin overlapped PROVE served'[d] = Own(d)
      OBVIOUS
    <3>1. CASE CallReturned(d)
      <4>1. fn[d] \in IndirectFns => paramsRec'[fn[d]] = Params(d)
        BY <1>3, <3>1, FnsAssumption DEF CallReturned, Populate, TypeOK
      <4>2. served' = [served EXCEPT ![d] = Own(d)]
        BY <1>3, <2>1, <3>1, <4>1, HandlerGiven DEF CallReturned
      <4> QED BY <4>2 DEF TypeOK
    <3>2. CASE Complete(d)
      BY <1>3, <3>2 DEF Complete, SoloInv, SoloSlots, Given, hist
    <3> QED BY <1>3, <3>1, <3>2
  <2>7. d \notin overlapped => SoloSlots(d)' /\ Faithful(d)'
    <3> SUFFICES ASSUME d \notin overlapped PROVE SoloSlots(d)' /\ Faithful(d)'
      OBVIOUS
    <3>1. SoloSlots(d) /\ Faithful(d)
      BY DEF SoloInv
    <3>2. SoloSlots(d)'
      BY <1>3, <2>2, <2>4, <2>5, <2>6, <3>1 DEF SoloSlots, AnswerIn, Given, ResultIn
    <3>3. Faithful(d)'
      BY <1>3, <2>2, <2>6, <3>1 DEF Faithful, SoloSlots
    <3> QED BY <3>2, <3>3
  <2> QED BY <2>1, <2>3, <2>7, OneCallSteps
<1>4. ASSUME NEW d \in Calls, CallReturned(d) \/ Complete(d), pc[d] \notin {"should_block", "handler"}
      PROVE  SoloInv'
  <2>1. d \in Active /\ UNCHANGED overlapped /\ pc[d] \in {"on_call", "on_return"}
    BY <1>4 DEF CallReturned, Complete, hist, Active, ControlInv, CallSteps
  <2>2. UNCHANGED <<answer, outcome, result, served, blockSlot, retptr, fn, heap>>
    BY <1>4 DEF CallReturned, Complete, CalleeReturns, Begins, frame, hist
  <2>3. \A c \in Calls \ {d} : Untouched(c)
    BY <1>4, <2>2 DEF CallReturned, Complete, TypeOK, Untouched
  <2>4. \/ pc[d]' = pc[d]
        \/ pc[d] = "on_call" /\ pc[d]' \in {"should_block", "handler"} /\ await[d]' = "none"
        \/ pc[d] = "on_return" /\ pc[d]' = "finish"
    BY <1>4, <2>1, NextStepCases DEF CallReturned, Complete, TypeOK, ControlInv
  <2>5. d \notin overlapped => SoloSlots(d)' /\ Faithful(d)'
    BY <2>1, <2>2, <2>4 DEF SoloInv, SoloSlots, Faithful, AnswerIn, Given, ResultIn, Holds, heap
  <2> QED BY <2>1, <2>3, <2>5, OneCallSteps
<1>5. ASSUME NEW d \in Calls, CallStarted(d) \/ CallStarting(d) \/ Start(d) PROVE SoloInv'
  <2>1. d \in Active /\ pc[d] \in CallSteps
    BY <1>5 DEF CallStarted, CallStarting, Waits, Start, ControlInv, CallSteps, Active
  <2>2. UNCHANGED <<pc, answer, outcome, result, blockSlot, retptr, fn, overlapped, heap>>
    BY <1>5 DEF CallStarted, CallStarting, Waits, Start, frame
  <2>3. \A c \in Calls \ {d} : Untouched(c)
    BY <1>5, <2>2 DEF CallStarted, CallStarting, Waits, Start, Begins, TypeOK, Untouched
  <2>4. /\ await[d] \in {"none", "starting"}
        /\ await[d]' \in {"starting", "pending", "announced"}
        /\ await[d]' = "starting" <=> CallStarting(d)
    BY <1>5 DEF CallStarted, CallStarting, Waits, Start, TypeOK, ControlInv
  <2>5. CallStarting(d) /\ pc[d] = "handler" /\ fn[d] \in IndirectFns =>
          paramsRec'[fn[d]] = Params(d)'
    BY <2>2 DEF CallStarting, Waits, Populate, Params, frame, TypeOK
  <2>6. CASE pc[d] = "handler" /\ ~CallStarting(d)
    <3>1. d \notin overlapped => served'[d] = Own(d)
      <4> SUFFICES ASSUME d \notin overlapped PROVE served'[d] = Own(d)
        OBVIOUS
      <4>1. fn[d] \in IndirectFns => paramsRec'[fn[d]] = Params(d)
        <5>1. CASE CallStarted(d)
          BY <2>6, <5>1 DEF CallStarted, Waits, Populate, TypeOK
        <5>2. CASE Start(d)
          BY <2>6, <5>2 DEF Start, SoloInv, SoloSlots
        <5> QED BY <1>5, <2>6, <5>1, <5>2
      <4>2. Begins(d)
        BY <1>5, <2>6 DEF CallStarted, Start
      <4>3. served' = [served EXCEPT ![d] = Own(d)]
        BY <2>1, <2>6, <4>1, <4>2, HandlerGiven
      <4> QED BY <2>1, <4>3 DEF TypeOK, Active
    <3>2. d \notin overlapped => SoloSlots(d)' /\ Faithful(d)'
      BY <2>2, <2>4, <2>6, <3>1
         DEF SoloInv, SoloSlots, Faithful, AnswerIn, Given, ResultIn, Holds, heap
    <3> QED BY <2>1, <2>2, <2>3, <3>2, OneCallSteps
  <2>7. CASE pc[d] # "handler" \/ CallStarting(d)
    <3>1. served' = served
      BY <1>5, <2>7 DEF CallStarted, CallStarting, Start, Begins
    <3>2. d \notin overlapped => SoloSlots(d)' /\ Faithful(d)'
      <4> SUFFICES ASSUME d \notin overlapped PROVE SoloSlots(d)' /\ Faithful(d)'
        OBVIOUS
      <4>1. SoloSlots(d) /\ Faithful(d)
        BY DEF SoloInv
      <4>2. Faithful(d)'
        BY <2>2, <3>1, <4>1 DEF Faithful
      <4> QED BY <2>1, <2>2, <2>4, <2>5, <2>7, <3>1, <4>1, <4>2
              DEF SoloSlots, AnswerIn, Given, ResultIn, Holds, heap
    <3> QED BY <2>1, <2>2, <2>3, <3>2, OneCallSteps
  <2> QED BY <2>6, <2>7
<1>6. ASSUME NEW d \in Calls, Resume(d) \/ Proceed(d) \/ Finish(d) \/ ResumeOnStart(d) PROVE SoloInv'
  <2>1. d \in Active
    BY <1>6 DEF Resume, Proceed, Finish, ResumeOnStart, ControlInv, CallSteps, Active
  <2>2. UNCHANGED <<answer, outcome, result, served, blockSlot, retptr, paramsRec, fn, args, live,
                    overlapped>>
    BY <1>6 DEF Resume, Proceed, Finish, ResumeOnStart, frame, mem, heap, hist
  <2>3. \A c \in Calls \ {d} : Untouched(c)
    BY <1>6, <2>2 DEF Resume, Proceed, Finish, ResumeOnStart, TypeOK, Untouched
  <2>4. \/ await[d] = "ready" /\ await'[d] = "none" /\ pc[d] \in CallSteps /\ pc'[d] = NextStep(pc[d])
        \/ await[d] = "announced" /\ await'[d] = "dropped" /\ pc'[d] = pc[d]
        \/ pc[d] = "decide" /\ ~blockSlot /\ pc'[d] = "handler" /\ await'[d] = await[d]
        \/ pc[d] = "finish" /\ pc'[d] = "return" /\ await'[d] = await[d]
    BY <1>6, NextStepCases DEF Resume, Proceed, Finish, ResumeOnStart, MustBlock, ControlInv, TypeOK
  <2>5. await[d] # "none" => pc[d] \in CallSteps
    BY <2>1 DEF ControlInv, Active
  <2>6. d \notin overlapped => SoloSlots(d)' /\ Faithful(d)'
    <3> SUFFICES ASSUME d \notin overlapped PROVE SoloSlots(d)' /\ Faithful(d)'
      OBVIOUS
    <3>1. SoloSlots(d) /\ Faithful(d)
      BY <2>1 DEF SoloInv, Active
    <3>2. Faithful(d)'
      BY <3>1, <2>2 DEF Faithful
    <3> QED BY <3>1, <3>2, <2>2, <2>4, <2>5, NextStepCases
            DEF SoloSlots, AnswerIn, Given, ResultIn, Holds, CallSteps, Params
  <2> QED BY <2>1, <2>2, <2>3, <2>6, OneCallSteps
<1>7. ASSUME NEW d \in Calls, EarlyReturn(d) PROVE SoloInv'
  <2>1. d \in Active /\ UNCHANGED overlapped
    BY <1>7 DEF EarlyReturn, Active
  <2>2. \A c \in Calls \ {d} : Untouched(c)
    BY <1>7 DEF EarlyReturn, TypeOK, Untouched
  <2>3. d \notin overlapped => SoloSlots(d)' /\ Faithful(d)'
    BY <1>7 DEF EarlyReturn, MustBlock, TypeOK, SoloInv, SoloSlots, Faithful, AnswerIn, Given, ResultIn
  <2> QED BY <2>1, <2>2, <2>3, OneCallSteps
<1>8. ASSUME NEW d \in Calls, Return(d) PROVE SoloInv'
  <2>1. d \in Active /\ UNCHANGED overlapped
    BY <1>8 DEF Return, Active
  <2>2. \A c \in Calls \ {d} : Untouched(c)
    BY <1>8 DEF Return, TypeOK, Untouched
  <2>3. d \notin overlapped => SoloSlots(d)' /\ Faithful(d)'
    <3> SUFFICES ASSUME d \notin overlapped PROVE SoloSlots(d)' /\ Faithful(d)'
      OBVIOUS
    <3>1. SoloSlots(d) /\ pc[d] = "return"
      BY <1>8 DEF SoloInv, Return
    <3>2. Result(d).of = d /\ Holds(d, Result(d).to)
      BY <3>1 DEF SoloSlots, ResultIn, Result, Holds
    <3>3. Seen(Result(d)) = Own(d)
      BY <2>1, <3>2, OwnSeen
    <3>4. result'[d] = Own(d) /\ UNCHANGED <<served, answer>> /\ pc'[d] = "done" /\ outcome'[d] = "served"
      BY <1>8, <3>3 DEF Return, TypeOK
    <3> QED BY <3>1, <3>4 DEF SoloSlots, Faithful, AnswerIn, Given, ResultIn
  <2> QED BY <2>1, <2>2, <2>3, OneCallSteps
<1>9. ASSUME NEW d \in Calls, Trap(d) PROVE SoloInv'
  BY <1>9 DEF Trap, frame, wasm, mem, heap, hist, SoloInv, SoloSlots, Faithful, AnswerIn, Given,
     ResultIn, Holds, Params
<1>10. CASE UNCHANGED vars
  BY <1>10 DEF vars, SoloInv, SoloSlots, Faithful, AnswerIn, Given, ResultIn, Holds, Params
<1> QED BY <1>1, <1>2, <1>3, <1>4, <1>5, <1>6, <1>7, <1>8, <1>9, <1>10
        DEF Next, Step, Event, Terminated

(* The single-active-call assumption, exactly: whatever the traffic, a call *)
(* that shared the instance with no other has its own arguments forwarded,  *)
(* is blocked only if the middleware said so, and otherwise returns its own *)
(* result, whatever it points at included.                                  *)
THEOREM SoloCallsAreFaithful == Spec => []SoloCallsFaithful
<1>1. Init => TypeOK /\ ControlInv /\ SharingInv /\ LiveInv /\ SoloInv
  BY TypeInit, IdInit, LiveInit, SoloInit
<1>2. TypeOK /\ ControlInv /\ SharingInv /\ LiveInv /\ SoloInv /\ [Next]_vars
        => (TypeOK /\ ControlInv /\ SharingInv /\ LiveInv /\ SoloInv)'
  BY TypeNext, ControlNext, SharingNext, LiveNext, SoloNext
<1>3. SoloInv => SoloCallsFaithful
  BY DEF SoloInv, SoloCallsFaithful, Faithful
<1> QED BY <1>1, <1>2, <1>3, PTL DEF Spec
=============================================================================
