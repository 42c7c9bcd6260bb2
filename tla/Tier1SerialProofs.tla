--------------------------- MODULE Tier1SerialProofs ---------------------------
(***************************************************************************)
(* What the single-active-call assumption of emit.rs buys Tier1Wrapper:    *)
(* proofs for every set of calls and functions and every choice of hooks,  *)
(* under MaxActive = 1.  BorrowsAreDropped needs no such assumption.       *)
(***************************************************************************)
EXTENDS Tier1WrapperProofs, FiniteSetTheorems

Core == TypeOK /\ ControlInv /\ SharingInv /\ IdInv /\ LiveInv /\ SoloInv
LEMMA CoreInit == Init => Core
BY TypeInit, IdInit, LiveInit, SoloInit DEF Core
LEMMA CoreNext == Core /\ [Next]_vars => Core'
BY TypeNext, ControlNext, SharingNext, IdNext, LiveNext, SoloNext DEF Core

(* One at a time: a call arrives only when no other is in flight.           *)
SerialInv == IsFiniteSet(Active) /\ overlapped = {}
LEMMA NobodyElse ==
  ASSUME MaxActive = 1, SerialInv, Cardinality(Active) < MaxActive
  PROVE  Active = {}
<1>1. Cardinality(Active) \in Nat
  BY FS_CardinalityType DEF SerialInv
<1>2. Cardinality(Active) = 0
  BY <1>1
<1> QED BY <1>2, FS_EmptySet DEF SerialInv

LEMMA SerialInit == Init => SerialInv
<1> SUFFICES ASSUME Init PROVE SerialInv
  OBVIOUS
<1>1. Active = {}
  BY DEF Init, Active
<1> QED BY <1>1, FS_EmptySet DEF Init, SerialInv

LEMMA SerialNext ==
  ASSUME MaxActive = 1
  PROVE  Core /\ SerialInv /\ [Next]_vars => SerialInv'
<1> SUFFICES ASSUME Core, SerialInv, [Next]_vars PROVE SerialInv'
  OBVIOUS
<1> USE DEF Core
<1>1. ASSUME NEW d \in Calls, Invoke(d) PROVE SerialInv'
  <2>1. Active = {} /\ overlapped' = overlapped
    BY <1>1, NobodyElse DEF Invoke
  <2>2. Active' = {d}
    BY <1>1, <2>1, NextStepCases DEF Invoke, TypeOK, Active
  <2> QED BY <2>1, <2>2, FS_Singleton DEF SerialInv
<1>2. CASE ~(\E d \in Calls : Invoke(d))
  <2>1. Onward
    BY <1>2, OnlyInvokeEnters
  <2>2. Active' \subseteq Active /\ overlapped' = overlapped
    BY <2>1 DEF Onward, Active
  <2> QED BY <2>2, FS_Subset DEF SerialInv
<1> QED BY <1>1, <1>2

(* The call that takes a step is the only one in flight.                    *)
LEMMA OnlyOne ==
  ASSUME Core, SerialInv, NEW d \in Active
  PROVE  Active = {d}
BY DEF Core, SerialInv, SharingInv

-----------------------------------------------------------------------------
(* The allocator.  Calls that returned left their arguments allocated; the  *)
(* snapshot of the call in flight stands right after its own, and it is     *)
(* restored when the call is about to return.                               *)
Gone == {c \in Calls : pc[c] = "done" /\ fn[c] \in ArgFns}
Left(c) == IF fn[c] \in ArgFns THEN 1 ELSE 0
BumpInv ==
  /\ IsFiniteSet(Gone)
  /\ Active = {} => bump = Cardinality(Gone)
  /\ \A c \in Active : /\ saved[c] = Cardinality(Gone) + Left(c)
                       /\ pc[c] = "return" => bump = saved[c]

LEMMA BumpInit == Init => BumpInv
<1> SUFFICES ASSUME Init PROVE BumpInv
  OBVIOUS
<1>1. Gone = {} /\ Active = {}
  BY DEF Init, Gone, Active
<1> QED BY <1>1, FS_EmptySet DEF Init, BumpInv

LEMMA InvokeBump ==
  ASSUME MaxActive = 1, Core, SerialInv, BumpInv, NEW d \in Calls, Invoke(d)
  PROVE  BumpInv'
<1> USE DEF Core
<1>1. Active = {} /\ pc[d] = "new" /\ bump \in Nat /\ bump = Cardinality(Gone)
  BY NobodyElse DEF Invoke, BumpInv, TypeOK
<1>2. /\ pc' = [pc EXCEPT ![d] = pc'[d]] /\ pc'[d] \notin {"new", "return", "done"}
      /\ fn' = fn /\ saved'[d] = bump' /\ bump' = bump + Left(d)
  BY <1>1, NextStepCases DEF Invoke, TypeOK, Left, Allocate, heap
<1>3. Gone' = Gone /\ Active' = {d}
  BY <1>1, <1>2 DEF Gone, Active, TypeOK
<1> QED BY <1>1, <1>2, <1>3 DEF BumpInv, Left

(* A call in flight moves no snapshot; what it leaves in the heap does not  *)
(* matter until it is about to return.                                      *)
LEMMA InFlightBump ==
  ASSUME Core, SerialInv, BumpInv, NEW d \in Active, pc'[d] \notin {"new", "done"},
         \A c \in Calls \ {d} : pc'[c] = pc[c], UNCHANGED <<fn, saved>>,
         pc'[d] = "return" => bump' = saved[d]
  PROVE  BumpInv'
<1>1. Active = {d} /\ d \in Calls
  BY OnlyOne DEF Active
<1>2. Active' = {d} /\ Gone' = Gone
  BY <1>1 DEF Active, Gone
<1> QED BY <1>1, <1>2 DEF BumpInv, Left

(* A call that returns has given back what lies above its snapshot.         *)
LEMMA GivenBack ==
  ASSUME Core, SerialInv, BumpInv, NEW d \in Active, pc' = [pc EXCEPT ![d] = "done"],
         UNCHANGED <<fn, saved>>, bump' = saved[d]
  PROVE  BumpInv'
<1>1. d \in Calls /\ Active = {d} /\ pc[d] # "done" /\ pc \in [Calls -> Steps]
  BY OnlyOne DEF Core, TypeOK, Active, Steps
<1>2. Active' = {} /\ Gone' = IF fn[d] \in ArgFns THEN Gone \union {d} ELSE Gone
  BY <1>1 DEF Active, Gone
<1>3. IsFiniteSet(Gone) /\ d \notin Gone /\ Cardinality(Gone) \in Nat
  BY <1>1, FS_CardinalityType DEF BumpInv, Gone
<1>4. IsFiniteSet(Gone') /\ Cardinality(Gone') = Cardinality(Gone) + Left(d)
  <2>1. CASE fn[d] \in ArgFns
    <3>1. Gone' = Gone \union {d}
      BY <1>2, <2>1
    <3>2. IsFiniteSet(Gone \union {d}) /\ Cardinality(Gone \union {d}) = Cardinality(Gone) + 1
      BY <1>3, FS_AddElement
    <3> QED BY <2>1, <3>1, <3>2 DEF Left
  <2>2. CASE fn[d] \notin ArgFns
    BY <1>2, <1>3, <2>2 DEF Left
  <2> QED BY <2>1, <2>2
<1> QED BY <1>2, <1>4 DEF BumpInv

LEMMA BumpNext ==
  ASSUME MaxActive = 1
  PROVE  Core /\ SerialInv /\ BumpInv /\ [Next]_vars => BumpInv'
<1> SUFFICES ASSUME Core, SerialInv, BumpInv, [Next]_vars PROVE BumpInv'
  OBVIOUS
<1>1. TypeOK /\ ControlInv
  BY DEF Core
<1>2. ASSUME NEW d \in Calls, CallReturned(d) \/ Resume(d) \/ Proceed(d) PROVE BumpInv'
  <2>1. /\ pc[d] \in CallSteps \union {"decide"} /\ pc'[d] = NextStep(pc[d])
        /\ UNCHANGED <<fn, saved>> /\ \A c \in Calls \ {d} : pc'[c] = pc[c]
    BY <1>1, <1>2 DEF CallReturned, Resume, Proceed, ControlInv, frame, TypeOK
  <2>2. pc'[d] \notin {"new", "return", "done"} /\ d \in Active
    BY <2>1, NextStepCases DEF CallSteps, Active
  <2> QED BY <2>1, <2>2, InFlightBump
<1>3. ASSUME NEW d \in Calls,
             CallStarted(d) \/ CallStarting(d) \/ Start(d) \/ Complete(d) \/ ResumeOnStart(d)
      PROVE  BumpInv'
  <2>1. pc[d] \in CallSteps /\ UNCHANGED <<pc, fn, saved>>
    BY <1>1, <1>3 DEF CallStarted, CallStarting, Waits, Start, Complete, ResumeOnStart, ControlInv, frame
  <2>2. d \in Active /\ pc[d] \notin {"new", "return", "done"}
    BY <2>1 DEF CallSteps, Active
  <2> QED BY <2>1, <2>2, InFlightBump
<1>4. ASSUME NEW d \in Calls, Finish(d) PROVE BumpInv'
  <2>1. /\ d \in Active /\ pc'[d] = "return" /\ bump' = saved[d] /\ UNCHANGED <<fn, saved>>
        /\ \A c \in Calls \ {d} : pc'[c] = pc[c]
    BY <1>1, <1>4, NextStepCases DEF Finish, RestoredBump, frame, Active, TypeOK
  <2> QED BY <2>1, InFlightBump
<1>5. ASSUME NEW d \in Calls, EarlyReturn(d) \/ Return(d) PROVE BumpInv'
  <2>1. d \in Active /\ UNCHANGED <<fn, saved>> /\ pc' = [pc EXCEPT ![d] = "done"]
    BY <1>5 DEF EarlyReturn, Return, frame, Active
  <2>2. bump' = saved[d]
    BY <1>5, <2>1 DEF EarlyReturn, Return, RestoredBump, BumpInv
  <2> QED BY <2>1, <2>2, GivenBack
<1>6. ASSUME UNCHANGED <<pc, fn, saved, bump>> PROVE BumpInv'
  BY <1>6 DEF BumpInv, Gone, Left, Active
<1>7. ASSUME NEW d \in Calls, Trap(d) PROVE BumpInv'
  BY <1>6, <1>7 DEF Trap, wasm, frame, mem, heap
<1> QED BY <1>2, <1>3, <1>4, <1>5, <1>6, <1>7, InvokeBump
        DEF Next, Step, Event, Terminated, vars

(* emit_bump_save and emit_bump_restore, served one call at a time: when no *)
(* call is active only the arguments the host lowered before the snapshots  *)
(* are allocated, whether the calls were forwarded or blocked.              *)
THEOREM BumpIsBalanced == ASSUME MaxActive = 1 PROVE Spec => []BumpBalanced
<1>1. Init => Core /\ SerialInv /\ BumpInv
  BY CoreInit, SerialInit, BumpInit
<1>2. Core /\ SerialInv /\ BumpInv /\ [Next]_vars => (Core /\ SerialInv /\ BumpInv)'
  BY CoreNext, SerialNext, BumpNext
<1>3. BumpInv => BumpBalanced
  BY DEF BumpInv, BumpBalanced, Gone
<1> QED BY <1>1, <1>2, <1>3, PTL DEF Spec

-----------------------------------------------------------------------------
(* Refinement of CallProtocol.  The protocol's stage, under a name of its   *)
(* own, and the invariant about one call: a hook has been told of it, and   *)
(* should-block has answered, exactly when the call is past that.           *)
Stages == [c \in Calls |-> StageOf(c)]
AllTold == {[hook |-> h.hook, call |-> h.call, id |-> h.id] : h \in heard}
Handed == [c \in Calls |-> IF result[c].deep = result[c].of THEN result[c].of ELSE None]
Unstarted == {"none", "starting"}
Waiting == {"announced", "pending", "dropped"}
Past(c, step, later) == pc[c] \in later \/ (pc[c] = step /\ await[c] \notin Unstarted)
ToldInv(c) ==
  /\ Told(c, "before")   <=> "before" \in wired
                             /\ Past(c, "on_call", {"should_block", "decide", "handler", "on_return", "finish", "return"})
  /\ Told(c, "blocking") <=> "blocking" \in wired
                             /\ Past(c, "should_block", {"decide", "handler", "on_return", "finish", "return"})
  /\ Told(c, "after")    <=> "after" \in wired /\ Past(c, "on_return", {"finish", "return"})
AnswerInv(c) ==
  /\ pc[c] \in {"new", "on_call"} => answer[c] = "none"
  /\ pc[c] = "should_block" => (answer[c] # "none" <=> await[c] = "ready")
  /\ pc[c] = "decide" => answer[c] # "none"
  /\ pc[c] \in {"handler", "on_return", "finish", "return"} =>
       answer[c] = IF "blocking" \in wired THEN "pass" ELSE "none"
CallInv(c) ==
  /\ pc[c] = "on_call" => "before" \in wired
  /\ pc[c] \in {"should_block", "decide"} => "blocking" \in wired
  /\ pc[c] = "on_return" => "after" \in wired
  /\ pc[c] # "done" => ToldInv(c)
  /\ AnswerInv(c)
IdsGrow == \A c \in Calls : id[c] <= counter
CallsInv == (\A c \in Calls : CallInv(c)) /\ IdsGrow

LEMMA CallsInit == Init => CallsInv
<1> SUFFICES ASSUME Init, NEW c \in Calls PROVE CallInv(c) /\ id[c] <= counter
  BY DEF CallsInv, IdsGrow
<1>1. pc[c] = "new" /\ answer[c] = "none" /\ id[c] = 0 /\ counter = 0
  BY DEF Init
<1>2. ~Told(c, "before") /\ ~Told(c, "blocking") /\ ~Told(c, "after")
  BY DEF Init, Told
<1> QED BY <1>1, <1>2 DEF CallInv, ToldInv, AnswerInv, Past

(* The stage, read off the step a call is at.                               *)
Observed == IF "before" \in wired THEN "observed" ELSE "called"
Cleared  == IF "blocking" \in wired THEN "allowed" ELSE Observed
Verdict(s) == IF s = "block" THEN "denied" ELSE "allowed"
StageAt(p, a, s, o) ==
  CASE p = "new"          -> "idle"
    [] p = "on_call"      -> IF a \in Unstarted THEN "called" ELSE "observed"
    [] p = "should_block" -> IF a \in Unstarted THEN Observed
                             ELSE IF a \in Waiting THEN "asked" ELSE Verdict(s)
    [] p = "decide"       -> Verdict(s)
    [] p = "handler"      -> IF a \in Unstarted THEN Cleared
                             ELSE IF a \in Waiting THEN "forwarded" ELSE "served"
    [] p = "on_return"    -> IF a \in Unstarted THEN "served" ELSE "reported"
    [] p \in {"finish", "return"} -> IF "after" \in wired THEN "reported" ELSE "served"
    [] p = "done"         -> IF o = "blocked" THEN "refused" ELSE "returned"

LEMMA StageIs ==
  Core /\ CallsInv => \A c \in Calls : StageOf(c) = StageAt(pc[c], await[c], answer[c], outcome[c])
<1> SUFFICES ASSUME Core, CallsInv, NEW c \in Calls
             PROVE  StageOf(c) = StageAt(pc[c], await[c], answer[c], outcome[c])
  OBVIOUS
<1>1. /\ pc[c] \in Steps /\ await[c] \in Unstarted \union Waiting \union {"ready"}
      /\ await[c] # "none" => pc[c] \in CallSteps
      /\ answer[c] \in {"none", "block", "pass"}
  BY DEF Core, TypeOK, Steps, ControlInv, Unstarted, Waiting, Awaits
<1>2. CallInv(c) /\ AnswerInv(c)
  BY DEF CallsInv, CallInv
<1>3. CASE pc[c] \in {"new", "done"}
  BY <1>3 DEF StageOf, StageAt
<1>4. ASSUME pc[c] # "done"
      PROVE  /\ Told(c, "before") = ("before" \in wired
                  /\ Past(c, "on_call", {"should_block", "decide", "handler", "on_return", "finish", "return"}))
             /\ Told(c, "blocking") = ("blocking" \in wired
                  /\ Past(c, "should_block", {"decide", "handler", "on_return", "finish", "return"}))
             /\ Told(c, "after") = ("after" \in wired /\ Past(c, "on_return", {"finish", "return"}))
  BY <1>2, <1>4 DEF CallInv, ToldInv, Told, Past
<1>5. CASE pc[c] = "on_call"
  <2>1. Told(c, "before") = (await[c] \notin Unstarted) /\ Told(c, "blocking") = FALSE /\ answer[c] = "none"
    BY <1>2, <1>4, <1>5 DEF Unstarted, CallInv, AnswerInv, Past
  <2> QED BY <1>1, <1>5, <2>1 DEF Unstarted, Waiting, StageOf, StageAt, Answered
<1>6. CASE pc[c] = "should_block"
  <2>1. /\ Told(c, "before") = ("before" \in wired) /\ Told(c, "blocking") = (await[c] \notin Unstarted)
        /\ answer[c] # "none" <=> await[c] = "ready"
    BY <1>2, <1>4, <1>6 DEF Unstarted, CallInv, AnswerInv, Past
  <2> QED BY <1>1, <1>6, <2>1 DEF Unstarted, Waiting, StageOf, StageAt, Answered, Verdict, Observed
<1>7. CASE pc[c] = "decide"
  BY <1>1, <1>2, <1>7 DEF Unstarted, Waiting, AnswerInv, StageOf, StageAt, Answered, Verdict
<1>8. CASE pc[c] = "handler"
  <2>1. /\ Told(c, "before") = ("before" \in wired) /\ Told(c, "blocking") = ("blocking" \in wired)
        /\ answer[c] = IF "blocking" \in wired THEN "pass" ELSE "none"
    BY <1>2, <1>4, <1>8 DEF AnswerInv, Past
  <2> QED BY <1>1, <1>8, <2>1 DEF Unstarted, Waiting, StageOf, StageAt, Answered, Cleared, Observed
<1>9. CASE pc[c] = "on_return"
  <2>1. Told(c, "after") = (await[c] \notin Unstarted)
    BY <1>2, <1>4, <1>9 DEF CallInv, Past, Unstarted
  <2> QED BY <1>9, <2>1 DEF Unstarted, Waiting, StageOf, StageAt
<1>10. CASE pc[c] \in {"finish", "return"}
  <2>1. Told(c, "after") = ("after" \in wired)
    BY <1>4, <1>10 DEF Past
  <2> QED BY <1>10, <2>1 DEF Unstarted, Waiting, StageOf, StageAt
<1> QED BY <1>1, <1>3, <1>5, <1>6, <1>7, <1>8, <1>9, <1>10 DEF Steps, CallSteps

(* One call moves; the others stand where they stood.                       *)
Others(d) == \A c \in Calls \ {d} :
  pc'[c] = pc[c] /\ await'[c] = await[c] /\ answer'[c] = answer[c] /\ outcome'[c] = outcome[c]
LEMMA Moved ==
  ASSUME Core, CallsInv, Core', CallsInv', wired' = wired, NEW d \in Calls, Others(d)
  PROVE  /\ Stages[d] = StageAt(pc[d], await[d], answer[d], outcome[d])
         /\ Stages' = [Stages EXCEPT ![d] = StageAt(pc'[d], await'[d], answer'[d], outcome'[d])]
<1>1. \A c \in Calls : StageOf(c) = StageAt(pc[c], await[c], answer[c], outcome[c])
  BY StageIs
<1>2. (\A c \in Calls : StageOf(c) = StageAt(pc[c], await[c], answer[c], outcome[c]))'
  BY StageIs, PTL
<1>3. \A c \in Calls : StageAt(pc[c], await[c], answer[c], outcome[c])'
                         = StageAt(pc'[c], await'[c], answer'[c], outcome'[c])
  BY DEF StageAt, Observed, Cleared, Verdict
<1>4. \A c \in Calls \ {d} : StageOf(c)' = StageOf(c)
  BY <1>1, <1>2, <1>3 DEF Others
<1> QED BY <1>1, <1>2, <1>3, <1>4 DEF Stages

(* A step of one call keeps the invariant when it keeps that call's part.   *)
ToldKept(d) ==
  \A c \in Calls \ {d}, k \in {"before", "blocking", "after"} : Told(c, k)' <=> Told(c, k)
LEMMA CallsKept ==
  ASSUME CallsInv, wired' = wired, UNCHANGED <<id, counter>>, NEW d \in Calls, Others(d), ToldKept(d),
         CallInv(d)'
  PROVE  CallsInv'
<1> SUFFICES ASSUME NEW c \in Calls \ {d} PROVE CallInv(c)'
  BY DEF CallsInv, IdsGrow
<1>1. CallInv(c)
  BY DEF CallsInv
<1>2. ToldInv(c) => ToldInv(c)'
  BY DEF ToldInv, ToldKept, Others, Past
<1>3. AnswerInv(c)'
  BY <1>1 DEF CallInv, AnswerInv, Others
<1> QED BY <1>1, <1>2, <1>3 DEF CallInv, Others

(* What the middleware is told at each step.                                *)
Notes(d, hook) == AllTold' = AllTold \union {[hook |-> hook, call |-> d, id |-> id[d]]}
LEMMA Telling ==
  ASSUME NEW d \in Calls, Begins(d), pc[d] \in CallSteps \ {"handler"}, callIdBuf' = id[d]
  PROVE  /\ Notes(d, HookOf[pc[d]])
         /\ ToldKept(d)
         /\ \A k \in {"before", "blocking", "after"} : Told(d, k)' <=> Told(d, k) \/ k = HookOf[pc[d]]
<1> DEFINE new == [hook |-> HookOf[pc[d]], call |-> d, id |-> callIdBuf',
                   late |-> await[d] = "starting" /\ d \in overlapped]
<1>1. heard' = heard \union {new} /\ new.hook = HookOf[pc[d]] /\ new.call = d /\ new.id = id[d]
  BY DEF Begins
<1> HIDE DEF new
<1>2. ToldKept(d)
  BY <1>1 DEF ToldKept, Told
<1>3. \A k \in {"before", "blocking", "after"} : Told(d, k)' <=> Told(d, k) \/ k = HookOf[pc[d]]
  BY <1>1 DEF Told
<1>4. Notes(d, HookOf[pc[d]])
  BY <1>1 DEF Notes, AllTold
<1> QED BY <1>2, <1>3, <1>4
LEMMA NothingTold ==
  ASSUME heard' = heard, NEW d \in Calls
  PROVE  ToldKept(d) /\ \A k \in {"before", "blocking", "after"} : Told(d, k)' <=> Told(d, k)
BY DEF ToldKept, Told
LEMMA HookOfSteps ==
  HookOf["on_call"] = "before" /\ HookOf["should_block"] = "blocking" /\ HookOf["on_return"] = "after"
BY DEF HookOf, CallSteps

(* The step a call takes in the protocol.                                   *)
Steady == UNCHANGED <<wired, id, trapped>>
Moves(d, from, to) == Stages[d] = from /\ Stages' = [Stages EXCEPT ![d] = to]
LEMMA ObserveStep ==
  ASSUME NEW d \in Calls, "before" \in wired, Moves(d, "called", "observed"), Notes(d, "before"),
         Handed' = Handed, Steady
  PROVE  Protocol!Observe(d)
BY DEF Protocol!Observe, Protocol!Move, Protocol!Note, Moves, Stages, AllTold, Handed, Notes, Steady
LEMMA AskStep ==
  ASSUME NEW d \in Calls, NEW to, "blocking" \in wired, Moves(d, Observed, to), Notes(d, "blocking"),
         Handed' = Handed, Steady
  PROVE  Protocol!Ask(d, to)
BY DEF Protocol!Ask, Protocol!Move, Protocol!Note, Protocol!Observed, Observed, Moves, Stages, AllTold, Handed, Notes, Steady
LEMMA AnswerStep ==
  ASSUME NEW d \in Calls, NEW to, Moves(d, "asked", to), AllTold' = AllTold, Handed' = Handed, Steady
  PROVE  Protocol!Answer(d, to)
BY DEF Protocol!Answer, Protocol!Move, Moves, Stages, AllTold, Handed, Steady
LEMMA ForwardStep ==
  ASSUME NEW d \in Calls, NEW to, Moves(d, Cleared, to), AllTold' = AllTold, Handed' = Handed, Steady
  PROVE  Protocol!Forward(d, to)
BY DEF Protocol!Forward, Protocol!Move, Protocol!Cleared, Protocol!Observed, Cleared, Observed,
       Moves, Stages, AllTold, Handed, Steady
LEMMA ServeStep ==
  ASSUME NEW d \in Calls, Moves(d, "forwarded", "served"), AllTold' = AllTold, Handed' = Handed, Steady
  PROVE  Protocol!Serve(d)
BY DEF Protocol!Serve, Protocol!Move, Moves, Stages, AllTold, Handed, Steady
LEMMA ReportStep ==
  ASSUME NEW d \in Calls, "after" \in wired, Moves(d, "served", "reported"), Notes(d, "after"),
         Handed' = Handed, Steady
  PROVE  Protocol!Report(d)
BY DEF Protocol!Report, Protocol!Move, Protocol!Note, Moves, Stages, AllTold, Handed, Notes, Steady
LEMMA ReturnStep ==
  ASSUME NEW d \in Calls, Moves(d, IF "after" \in wired THEN "reported" ELSE "served", "returned"),
         AllTold' = AllTold, Handed' = [Handed EXCEPT ![d] = d], Steady
  PROVE  Protocol!Return(d)
BY DEF Protocol!Return, Protocol!Move, Protocol!Settled, Moves, Stages, AllTold, Handed, Steady
LEMMA RefuseStep ==
  ASSUME NEW d \in Calls, Moves(d, "denied", "refused"), AllTold' = AllTold, Handed' = Handed, Steady
  PROVE  Protocol!Refuse(d)
BY DEF Protocol!Refuse, Protocol!Move, Moves, Stages, AllTold, Handed, Steady
LEMMA StutterStep ==
  ASSUME NEW d \in Calls, NEW s, Moves(d, s, s), AllTold' = AllTold, Handed' = Handed, Steady
  PROVE  UNCHANGED Protocol!pvars
<1>1. Stages' = Stages
  BY DEF Moves, Stages
<1> QED BY <1>1 DEF Protocol!pvars, Stages, AllTold, Handed, Steady
LEMMA NothingNew ==
  /\ heard' = heard => AllTold' = AllTold
  /\ result' = result => Handed' = Handed
BY DEF AllTold, Handed
LEMMA InProtocol ==
  ASSUME NEW d \in Calls, ~trapped,
         \/ Protocol!Arrive(d) \/ Protocol!Observe(d) \/ Protocol!Ask(d, "asked")
         \/ Protocol!Ask(d, "allowed") \/ Protocol!Ask(d, "denied") \/ Protocol!Answer(d, "allowed")
         \/ Protocol!Answer(d, "denied") \/ Protocol!Forward(d, "forwarded")
         \/ Protocol!Forward(d, "served") \/ Protocol!Serve(d) \/ Protocol!Report(d)
         \/ Protocol!Return(d) \/ Protocol!Refuse(d) \/ UNCHANGED Protocol!pvars
  PROVE  [Protocol!PNext]_(Protocol!pvars)
BY DEF Protocol!PNext

-----------------------------------------------------------------------------
(* Each step of the wrapper is a step of the protocol, or none.             *)
PInv == Core /\ SerialInv /\ CallsInv
Simulates == CallsInv' /\ [Protocol!PNext]_(Protocol!pvars)
Kept == UNCHANGED <<wired, id, counter, trapped>>
LEMMA OneCallMoves ==
  ASSUME PInv, Core', Kept, NEW d \in Calls, Others(d), ToldKept(d), CallInv(d)'
  PROVE  /\ CallsInv' /\ Steady
         /\ Moves(d, StageAt(pc[d], await[d], answer[d], outcome[d]),
                     StageAt(pc'[d], await'[d], answer'[d], outcome'[d]))
<1>1. CallsInv'
  BY CallsKept DEF PInv, Kept
<1> QED BY <1>1, Moved DEF PInv, Kept, Steady, Moves

LEMMA InvokeSimulates ==
  ASSUME MaxActive = 1, PInv, Core', NEW d \in Calls, Invoke(d)
  PROVE  Simulates
<1> USE NothingNew DEF Unstarted, Waiting
<1>1. /\ TypeOK /\ CallsInv /\ ControlInv /\ ~trapped /\ pc[d] = "new" /\ await[d] = "none"
      /\ wired' = wired /\ trapped' = trapped /\ heard' = heard /\ result' = result
      /\ counter' = counter + 1 /\ id' = [id EXCEPT ![d] = counter + 1]
      /\ await' = await /\ answer' = answer /\ outcome' = outcome
  BY DEF PInv, Core, Invoke, AllocCallId, ControlInv, CallSteps
<1>2. pc'[d] = NextStep("new") /\ Others(d)
  BY <1>1 DEF Invoke, TypeOK, Others
<1>3. ToldKept(d) /\ \A k \in {"before", "blocking", "after"} : Told(d, k)' <=> Told(d, k)
  BY <1>1, NothingTold
<1>4. CallInv(d)'
  <2>1. CallInv(d) /\ ToldInv(d) /\ AnswerInv(d)
    BY <1>1 DEF CallsInv, CallInv
  <2>2. ~Told(d, "before") /\ ~Told(d, "blocking") /\ ~Told(d, "after") /\ answer[d] = "none"
    BY <1>1, <2>1 DEF ToldInv, AnswerInv, Past
  <2>3. pc'[d] = IF "before" \in wired THEN "on_call" ELSE IF "blocking" \in wired THEN "should_block" ELSE "handler"
    BY <1>2 DEF NextStep, AfterOnCall
  <2>4. ToldInv(d)'
    BY <1>1, <1>3, <2>2, <2>3 DEF ToldInv, Past
  <2>5. AnswerInv(d)'
    BY <1>1, <2>2, <2>3 DEF AnswerInv
  <2> QED BY <1>1, <2>3, <2>4, <2>5 DEF CallInv
<1>5. /\ CallsInv' /\ id'[d] = counter + 1 /\ \A c \in Calls \ {d} : id'[d] > id[c]
  <2>1. counter \in Nat /\ id \in [Calls -> Nat] /\ \A c \in Calls : id[c] <= counter
    BY <1>1 DEF TypeOK, CallsInv, IdsGrow
  <2>2. IdsGrow' /\ id'[d] = counter + 1 /\ \A c \in Calls \ {d} : id'[d] > id[c]
    BY <1>1, <2>1 DEF IdsGrow
  <2>3. ASSUME NEW c \in Calls \ {d} PROVE CallInv(c)'
    <3>1. CallInv(c) /\ pc'[c] = pc[c]
      BY <1>1, <1>2 DEF CallsInv, Others
    <3>2. ToldInv(c) => ToldInv(c)'
      BY <1>1, <1>3, <3>1 DEF ToldInv, ToldKept, Past
    <3>3. AnswerInv(c)'
      BY <1>1, <3>1 DEF CallInv, AnswerInv
    <3> QED BY <1>1, <3>1, <3>2, <3>3 DEF CallInv
  <2> QED BY <1>4, <2>2, <2>3 DEF CallsInv
<1>6. Moves(d, "idle", "called")
  <2>1. StageAt(pc[d], await[d], answer[d], outcome[d]) = "idle"
    BY <1>1 DEF StageAt
  <2>2. StageAt(pc'[d], await'[d], answer'[d], outcome'[d]) = "called"
    <3>1. pc'[d] = IF "before" \in wired THEN "on_call" ELSE IF "blocking" \in wired THEN "should_block" ELSE "handler"
      BY <1>2 DEF NextStep, AfterOnCall
    <3> QED BY <1>1, <3>1 DEF StageAt, Unstarted, Observed, Cleared
  <2> QED BY <1>1, <1>2, <1>5, <2>1, <2>2, Moved DEF PInv, Moves
<1>7. Protocol!Arrive(d)
  <2>1. id' = [id EXCEPT ![d] = id'[d]]
    BY <1>1, <1>5
  <2>2. AllTold' = AllTold /\ Handed' = Handed
    BY <1>1, NothingNew
  <2> QED BY <1>1, <1>5, <1>6, <2>1, <2>2
          DEF Protocol!Arrive, Protocol!Move, Moves, Stages, AllTold, Handed
<1> QED BY <1>1, <1>5, <1>7, InProtocol DEF Simulates

LEMMA OnCallSimulates ==
  ASSUME PInv, Core', Kept, NEW d \in Calls, ~trapped, await[d] \in Unstarted, pc[d] = "on_call",
         Begins(d), callIdBuf' = id[d],
         \/ pc'[d] = NextStep("on_call") /\ await'[d] = "none"
         \/ pc'[d] = "on_call" /\ await'[d] \in Waiting,
         Others(d), answer'[d] = answer[d], result' = result
  PROVE  Simulates
<1> USE NothingNew DEF Unstarted, Waiting
<1>1. /\ CallInv(d) /\ ToldInv(d) /\ AnswerInv(d) /\ "before" \in wired /\ wired' = wired
  BY DEF PInv, CallsInv, CallInv, Kept
<1>2. \/ pc'[d] = "on_call" /\ await'[d] \in Waiting
      \/ /\ pc'[d] = IF "blocking" \in wired THEN "should_block" ELSE "handler"
         /\ await'[d] = "none"
  BY DEF NextStep, AfterOnCall
<1>3. /\ Notes(d, "before") /\ ToldKept(d)
      /\ \A k \in {"before", "blocking", "after"} : Told(d, k)' <=> Told(d, k) \/ k = "before"
  BY Telling, HookOfSteps DEF CallSteps, Notes
<1>4. CallInv(d)'
  <2>1. ~Told(d, "blocking") /\ ~Told(d, "after") /\ answer[d] = "none"
    BY <1>1 DEF ToldInv, AnswerInv, Past
  <2>2. ToldInv(d)'
    BY <1>1, <1>2, <1>3, <2>1 DEF ToldInv, Past
  <2>3. AnswerInv(d)'
    BY <1>1, <1>2, <2>1 DEF AnswerInv
  <2> QED BY <1>1, <1>2, <2>2, <2>3 DEF CallInv
<1>5. CallsInv' /\ Steady /\ Moves(d, "called", "observed")
  <2>1. StageAt(pc[d], await[d], answer[d], outcome[d]) = "called"
    BY <1>1 DEF StageAt
  <2>2. StageAt(pc'[d], await'[d], answer'[d], outcome'[d]) = "observed"
    BY <1>1, <1>2 DEF StageAt, Observed, Cleared
  <2> QED BY <1>3, <1>4, <2>1, <2>2, OneCallMoves
<1> QED BY <1>1, <1>3, <1>5, ObserveStep, InProtocol DEF Simulates

LEMMA AskSimulates ==
  ASSUME PInv, Core', Kept, NEW d \in Calls, ~trapped, await[d] \in Unstarted, pc[d] = "should_block",
         Begins(d), callIdBuf' = id[d],
         \/ pc'[d] = "decide" /\ await'[d] = "none" /\ answer'[d] \in {"block", "pass"}
         \/ pc'[d] = "should_block" /\ await'[d] \in Waiting /\ answer'[d] = answer[d],
         Others(d), result' = result
  PROVE  Simulates
<1> USE NothingNew DEF Unstarted, Waiting
<1>1. /\ CallInv(d) /\ ToldInv(d) /\ AnswerInv(d) /\ "blocking" \in wired /\ wired' = wired
  BY DEF PInv, CallsInv, CallInv, Kept
<1>2. /\ Notes(d, "blocking") /\ ToldKept(d)
      /\ \A k \in {"before", "blocking", "after"} : Told(d, k)' <=> Told(d, k) \/ k = "blocking"
  BY Telling, HookOfSteps DEF CallSteps, Notes
<1>3. CallInv(d)'
  <2>1. (Told(d, "before") <=> "before" \in wired) /\ ~Told(d, "after") /\ answer[d] = "none"
    BY <1>1 DEF ToldInv, AnswerInv, Past
  <2>2. ToldInv(d)'
    BY <1>1, <1>2, <2>1 DEF ToldInv, Past
  <2>3. AnswerInv(d)'
    BY <1>1, <2>1 DEF AnswerInv
  <2> QED BY <1>1, <2>2, <2>3 DEF CallInv
<1>4. /\ CallsInv' /\ Steady
      /\ Moves(d, Observed, "asked") \/ Moves(d, Observed, "allowed") \/ Moves(d, Observed, "denied")
  <2>1. StageAt(pc[d], await[d], answer[d], outcome[d]) = Observed
    BY <1>1 DEF StageAt
  <2>2. StageAt(pc'[d], await'[d], answer'[d], outcome'[d]) \in {"asked", "allowed", "denied"}
    BY DEF StageAt, Verdict
  <2> QED BY <1>2, <1>3, <2>1, <2>2, OneCallMoves
<1> QED BY <1>1, <1>2, <1>4, AskStep, InProtocol DEF Simulates

(* The handler is called: it returns at once, or later.                     *)
LEMMA ForwardSimulates ==
  ASSUME PInv, Core', Kept, NEW d \in Calls, ~trapped, await[d] \in Unstarted, pc[d] = "handler",
         heard' = heard,
         \/ pc'[d] = NextStep("handler") /\ await'[d] = "none"
         \/ pc'[d] = "handler" /\ await'[d] \in Waiting,
         Others(d), answer'[d] = answer[d], result' = result
  PROVE  Simulates
<1> USE NothingNew DEF Unstarted, Waiting
<1>1. /\ CallInv(d) /\ ToldInv(d) /\ AnswerInv(d) /\ wired' = wired
  BY DEF PInv, CallsInv, CallInv, Kept
<1>2. pc'[d] = "handler" \/ pc'[d] = IF "after" \in wired THEN "on_return" ELSE "finish"
  BY DEF NextStep
<1>3. ToldKept(d) /\ \A k \in {"before", "blocking", "after"} : Told(d, k)' <=> Told(d, k)
  BY NothingTold
<1>4. CallInv(d)'
  <2>1. /\ (Told(d, "before") <=> "before" \in wired) /\ (Told(d, "blocking") <=> "blocking" \in wired)
        /\ ~Told(d, "after") /\ answer[d] = IF "blocking" \in wired THEN "pass" ELSE "none"
    BY <1>1 DEF ToldInv, AnswerInv, Past
  <2>2. ToldInv(d)'
    BY <1>1, <1>2, <1>3, <2>1 DEF ToldInv, Past, NextStep
  <2>3. AnswerInv(d)'
    BY <1>1, <1>2, <2>1 DEF AnswerInv
  <2> QED BY <1>1, <1>2, <2>2, <2>3 DEF CallInv
<1>5. /\ CallsInv' /\ Steady
      /\ Moves(d, Cleared, "forwarded") \/ Moves(d, Cleared, "served")
  <2>1. StageAt(pc[d], await[d], answer[d], outcome[d]) = Cleared
    BY <1>1 DEF StageAt
  <2>2. StageAt(pc'[d], await'[d], answer'[d], outcome'[d]) \in {"forwarded", "served"}
    BY <1>1, <1>2 DEF StageAt, NextStep
  <2> QED BY <1>3, <1>4, <2>1, <2>2, OneCallMoves
<1> QED BY <1>5, ForwardStep, InProtocol DEF Simulates

LEMMA OnReturnSimulates ==
  ASSUME PInv, Core', Kept, NEW d \in Calls, ~trapped, await[d] \in Unstarted, pc[d] = "on_return",
         Begins(d), callIdBuf' = id[d],
         \/ pc'[d] = "finish" /\ await'[d] = "none"
         \/ pc'[d] = "on_return" /\ await'[d] \in Waiting,
         Others(d), answer'[d] = answer[d], result' = result
  PROVE  Simulates
<1> USE NothingNew DEF Unstarted, Waiting
<1>1. /\ CallInv(d) /\ ToldInv(d) /\ AnswerInv(d) /\ "after" \in wired /\ wired' = wired
  BY DEF PInv, CallsInv, CallInv, Kept
<1>2. /\ Notes(d, "after") /\ ToldKept(d)
      /\ \A k \in {"before", "blocking", "after"} : Told(d, k)' <=> Told(d, k) \/ k = "after"
  BY Telling, HookOfSteps DEF CallSteps, Notes
<1>3. CallInv(d)'
  <2>1. (Told(d, "before") <=> "before" \in wired) /\ (Told(d, "blocking") <=> "blocking" \in wired)
    BY <1>1 DEF ToldInv, Past
  <2>2. ToldInv(d)'
    BY <1>1, <1>2, <2>1 DEF ToldInv, Past
  <2>3. AnswerInv(d)'
    BY <1>1 DEF AnswerInv
  <2> QED BY <1>1, <2>2, <2>3 DEF CallInv
<1>4. CallsInv' /\ Steady /\ Moves(d, "served", "reported")
  <2>1. StageAt(pc[d], await[d], answer[d], outcome[d]) = "served"
    BY <1>1 DEF StageAt
  <2>2. StageAt(pc'[d], await'[d], answer'[d], outcome'[d]) = "reported"
    BY <1>1 DEF StageAt
  <2> QED BY <1>2, <1>3, <2>1, <2>2, OneCallMoves
<1> QED BY <1>1, <1>2, <1>4, ReportStep, InProtocol DEF Simulates

(* The subtask returns: its answer is in the block slot, its result in the  *)
(* result buffer.                                                           *)
LEMMA CompleteSimulates ==
  ASSUME PInv, Core', NEW d \in Calls, Complete(d)
  PROVE  Simulates
<1> USE NothingNew DEF Unstarted, Waiting
<1>1. /\ CallInv(d) /\ AnswerInv(d) /\ ~trapped /\ await[d] \in {"pending", "announced"} /\ pc[d] \in CallSteps
      /\ await'[d] = "ready" /\ pc' = pc /\ heard' = heard /\ outcome' = outcome /\ result' = result
      /\ Kept /\ wired' = wired
  BY DEF PInv, Core, TypeOK, CallsInv, CallInv, ControlInv, Complete, frame, Kept
<1>2. /\ pc[d] = "should_block" => answer'[d] \in {"block", "pass"}
      /\ pc[d] # "should_block" => answer'[d] = answer[d]
      /\ Others(d)
  BY <1>1 DEF PInv, Core, TypeOK, Complete, CalleeReturns, Others
<1>3. ToldKept(d) /\ \A k \in {"before", "blocking", "after"} : Told(d, k)' <=> Told(d, k)
  BY <1>1, NothingTold
<1>4. CallInv(d)'
  <2>1. ToldInv(d)
    BY <1>1 DEF CallInv, CallSteps
  <2>2. ToldInv(d)'
    BY <1>1, <1>3, <2>1 DEF ToldInv, Past
  <2>3. AnswerInv(d)'
    BY <1>1, <1>2 DEF AnswerInv
  <2> QED BY <1>1, <2>2, <2>3 DEF CallInv
<1>5. /\ CallsInv' /\ Steady
      /\ Moves(d, StageAt(pc[d], await[d], answer[d], outcome[d]),
                  StageAt(pc'[d], await'[d], answer'[d], outcome'[d]))
  BY <1>1, <1>2, <1>3, <1>4, OneCallMoves
<1>6. CASE pc[d] = "should_block"
  <2>1. StageAt(pc[d], await[d], answer[d], outcome[d]) = "asked"
    BY <1>1, <1>6 DEF StageAt
  <2>2. StageAt(pc'[d], await'[d], answer'[d], outcome'[d]) \in {"allowed", "denied"}
    BY <1>1, <1>2, <1>6 DEF StageAt, Verdict
  <2> QED BY <1>1, <1>5, <2>1, <2>2, AnswerStep, InProtocol DEF Simulates
<1>7. CASE pc[d] = "handler"
  <2>1. /\ StageAt(pc[d], await[d], answer[d], outcome[d]) = "forwarded"
        /\ StageAt(pc'[d], await'[d], answer'[d], outcome'[d]) = "served"
    BY <1>1, <1>7 DEF StageAt
  <2> QED BY <1>1, <1>5, <2>1, ServeStep, InProtocol DEF Simulates
<1>8. CASE pc[d] \in {"on_call", "on_return"}
  <2>1. StageAt(pc'[d], await'[d], answer'[d], outcome'[d])
          = StageAt(pc[d], await[d], answer[d], outcome[d])
    BY <1>1, <1>8 DEF StageAt
  <2> QED BY <1>1, <1>5, <2>1, StutterStep, InProtocol DEF Simulates
<1> QED BY <1>1, <1>6, <1>7, <1>8 DEF CallSteps

(* The event is delivered: what it says the middleware already knows.       *)
LEMMA ResumeSimulates ==
  ASSUME PInv, Core', NEW d \in Calls, Resume(d)
  PROVE  Simulates
<1> USE NothingNew DEF Unstarted, Waiting
<1>1. /\ CallInv(d) /\ AnswerInv(d) /\ ~trapped /\ await[d] = "ready" /\ pc[d] \in CallSteps
      /\ await'[d] = "none" /\ pc'[d] = NextStep(pc[d]) /\ heard' = heard /\ answer' = answer
      /\ outcome' = outcome /\ result' = result /\ Kept /\ wired' = wired /\ Others(d)
  BY DEF PInv, Core, TypeOK, CallsInv, CallInv, ControlInv, Resume, frame, hist, Kept, Others
<1>2. /\ pc[d] = "on_call" => pc'[d] = IF "blocking" \in wired THEN "should_block" ELSE "handler"
      /\ pc[d] = "should_block" => pc'[d] = "decide"
      /\ pc[d] = "handler" => pc'[d] = IF "after" \in wired THEN "on_return" ELSE "finish"
      /\ pc[d] = "on_return" => pc'[d] = "finish"
  BY <1>1 DEF NextStep, AfterOnCall
<1>3. ToldKept(d) /\ \A k \in {"before", "blocking", "after"} : Told(d, k)' <=> Told(d, k)
  BY <1>1, NothingTold
<1>4. CallInv(d)'
  <2>1. ToldInv(d)
    BY <1>1 DEF CallInv, CallSteps
  <2>2. ToldInv(d)'
    <3>1. /\ pc[d] = "on_call" => "before" \in wired
          /\ pc[d] = "should_block" => "blocking" \in wired
          /\ pc[d] = "on_return" => "after" \in wired
      BY <1>1 DEF CallInv
    <3> QED BY <1>1, <1>2, <1>3, <2>1, <3>1 DEF ToldInv, Past, CallSteps
  <2>3. AnswerInv(d)'
    BY <1>1, <1>2 DEF AnswerInv, CallSteps
  <2> QED BY <1>1, <1>2, <2>2, <2>3 DEF CallInv, CallSteps
<1>5. /\ CallsInv' /\ Steady
      /\ Moves(d, StageAt(pc[d], await[d], answer[d], outcome[d]),
                  StageAt(pc'[d], await'[d], answer'[d], outcome'[d]))
  BY <1>1, <1>3, <1>4, OneCallMoves
<1>6. StageAt(pc'[d], await'[d], answer'[d], outcome'[d])
        = StageAt(pc[d], await[d], answer[d], outcome[d])
  <2>1. (pc[d] = "on_call" => "before" \in wired) /\ (pc[d] = "on_return" => "after" \in wired)
    BY <1>1 DEF CallInv
  <2> QED BY <1>1, <1>2, <2>1 DEF StageAt, Observed, Cleared, CallSteps
<1> QED BY <1>1, <1>5, <1>6, StutterStep, InProtocol DEF Simulates

(* The branch on the block slot takes the way the middleware answered,      *)
(* because no other call wrote the slot in between.                         *)
LEMMA ProceedSimulates ==
  ASSUME PInv, Core', NEW d \in Calls, Proceed(d)
  PROVE  Simulates
<1> USE NothingNew DEF Unstarted, Waiting
<1>1. /\ CallInv(d) /\ AnswerInv(d) /\ ~trapped /\ pc[d] = "decide" /\ await[d] = "none" /\ ~blockSlot
      /\ await'[d] = "none" /\ pc'[d] = "handler" /\ heard' = heard /\ answer' = answer
      /\ outcome' = outcome /\ result' = result /\ Kept /\ wired' = wired /\ Others(d)
  BY NextStepCases
     DEF PInv, Core, TypeOK, CallsInv, CallInv, ControlInv, CallSteps, Proceed, MustBlock, frame, hist,
         Kept, Others
<1>2. answer[d] = "pass"
  BY <1>1 DEF PInv, Core, SerialInv, SoloInv, SoloSlots, AnswerIn, CallSteps
<1>3. ToldKept(d) /\ \A k \in {"before", "blocking", "after"} : Told(d, k)' <=> Told(d, k)
  BY <1>1, NothingTold
<1>4. "blocking" \in wired /\ ToldInv(d)
  BY <1>1 DEF CallInv
<1>5. CallInv(d)'
  <2>1. ToldInv(d)'
    BY <1>1, <1>3, <1>4 DEF ToldInv, Past
  <2>2. AnswerInv(d)'
    BY <1>1, <1>2, <1>4 DEF AnswerInv
  <2> QED BY <1>1, <2>1, <2>2 DEF CallInv
<1>6. CallsInv' /\ Steady /\ Moves(d, "allowed", "allowed")
  <2>1. /\ StageAt(pc[d], await[d], answer[d], outcome[d]) = "allowed"
        /\ StageAt(pc'[d], await'[d], answer'[d], outcome'[d]) = "allowed"
    BY <1>1, <1>2, <1>4 DEF StageAt, Verdict, Cleared
  <2> QED BY <1>1, <1>3, <1>5, <2>1, OneCallMoves
<1> QED BY <1>1, <1>6, StutterStep, InProtocol DEF Simulates

(* A call that returned needs no more than its outcome.                     *)
LEMMA DoneInv ==
  ASSUME NEW d \in Calls, pc'[d] = "done"
  PROVE  CallInv(d)'
BY DEF CallInv, AnswerInv

LEMMA EarlyReturnSimulates ==
  ASSUME PInv, Core', NEW d \in Calls, EarlyReturn(d)
  PROVE  Simulates
<1> USE NothingNew DEF Unstarted, Waiting
<1>1. /\ CallInv(d) /\ ~trapped /\ pc[d] = "decide" /\ await[d] = "none" /\ blockSlot
      /\ pc'[d] = "done" /\ heard' = heard /\ answer' = answer
      /\ outcome'[d] = "blocked" /\ result' = result /\ Kept /\ Others(d)
  BY DEF PInv, Core, TypeOK, CallsInv, ControlInv, CallSteps, EarlyReturn, MustBlock, frame, Kept, Others
<1>2. answer[d] = "block"
  BY <1>1 DEF PInv, Core, SerialInv, SoloInv, SoloSlots, AnswerIn, CallSteps
<1>3. CallsInv' /\ Steady /\ Moves(d, "denied", "refused")
  <2>1. /\ StageAt(pc[d], await[d], answer[d], outcome[d]) = "denied"
        /\ StageAt(pc'[d], await'[d], answer'[d], outcome'[d]) = "refused"
    BY <1>1, <1>2 DEF StageAt, Verdict
  <2> QED BY <1>1, <2>1, NothingTold, DoneInv, OneCallMoves
<1> QED BY <1>1, <1>3, RefuseStep, InProtocol DEF Simulates

(* Giving the memory back is no step of the protocol; returning is.         *)
LEMMA FinishSimulates ==
  ASSUME PInv, Core', NEW d \in Calls, Finish(d)
  PROVE  Simulates
<1> USE NothingNew DEF Unstarted, Waiting
<1>1. /\ CallInv(d) /\ AnswerInv(d) /\ ToldInv(d) /\ ~trapped /\ pc[d] = "finish" /\ await[d] = "none"
      /\ pc'[d] = "return" /\ await' = await /\ heard' = heard /\ answer' = answer
      /\ outcome' = outcome /\ result' = result /\ Kept /\ wired' = wired /\ Others(d)
  BY NextStepCases
     DEF PInv, Core, TypeOK, CallsInv, CallInv, ControlInv, CallSteps, Finish, frame, hist, Kept, Others
<1>2. ToldKept(d) /\ \A k \in {"before", "blocking", "after"} : Told(d, k)' <=> Told(d, k)
  BY <1>1, NothingTold
<1>3. CallInv(d)'
  <2>1. ToldInv(d)'
    BY <1>1, <1>2 DEF ToldInv, Past
  <2>2. AnswerInv(d)'
    BY <1>1 DEF AnswerInv
  <2> QED BY <1>1, <2>1, <2>2 DEF CallInv
<1>4. /\ CallsInv' /\ Steady
      /\ Moves(d, StageAt(pc[d], await[d], answer[d], outcome[d]),
                  StageAt(pc'[d], await'[d], answer'[d], outcome'[d]))
  BY <1>1, <1>2, <1>3, OneCallMoves
<1>5. StageAt(pc'[d], await'[d], answer'[d], outcome'[d])
        = StageAt(pc[d], await[d], answer[d], outcome[d])
  BY <1>1 DEF StageAt
<1> QED BY <1>1, <1>4, <1>5, StutterStep, InProtocol DEF Simulates

LEMMA ReturnSimulates ==
  ASSUME PInv, Core', NEW d \in Calls, Return(d)
  PROVE  Simulates
<1> USE NothingNew DEF Unstarted, Waiting
<1>1. /\ CallInv(d) /\ ~trapped /\ pc[d] = "return" /\ await[d] = "none"
      /\ pc'[d] = "done" /\ heard' = heard /\ answer' = answer
      /\ outcome'[d] = "served" /\ result' = [result EXCEPT ![d] = Seen(Result(d))] /\ Kept /\ Others(d)
  BY DEF PInv, Core, TypeOK, CallsInv, ControlInv, CallSteps, Return, frame, Kept, Others
<1>2. Seen(Result(d)) = Own(d)
  <2>1. d \in Active \ overlapped /\ SoloSlots(d)
    BY <1>1 DEF PInv, SerialInv, Core, SoloInv, Active
  <2>2. Result(d).of = d /\ Holds(d, Result(d).to)
    BY <1>1, <2>1 DEF SoloSlots, ResultIn, Result, Holds
  <2> QED BY <2>1, <2>2, OwnSeen DEF PInv, Core
<1>3. Handed' = [Handed EXCEPT ![d] = d]
  <2>1. result' = [result EXCEPT ![d] = [of |-> d, deep |-> d]] /\ result \in [Calls -> View]
    BY <1>1, <1>2 DEF Own, PInv, Core, TypeOK
  <2> QED BY <2>1 DEF Handed
<1>4. CallsInv' /\ Steady /\ Moves(d, IF "after" \in wired THEN "reported" ELSE "served", "returned")
  <2>1. /\ StageAt(pc[d], await[d], answer[d], outcome[d]) = IF "after" \in wired THEN "reported" ELSE "served"
        /\ StageAt(pc'[d], await'[d], answer'[d], outcome'[d]) = "returned"
    BY <1>1 DEF StageAt
  <2> QED BY <1>1, <2>1, NothingTold, DoneInv, OneCallMoves
<1> QED BY <1>1, <1>3, <1>4, ReturnStep, InProtocol DEF Simulates

(* A callee that takes no call now has been told nothing.                   *)
LEMMA StartingSimulates ==
  ASSUME PInv, Core', NEW d \in Calls, CallStarting(d)
  PROVE  Simulates
<1> USE NothingNew DEF Unstarted, Waiting
<1>1. /\ CallInv(d) /\ AnswerInv(d) /\ ToldInv(d) /\ ~trapped /\ pc[d] \in CallSteps /\ await[d] = "none"
      /\ pc' = pc /\ await'[d] = "starting" /\ heard' = heard /\ answer' = answer
      /\ outcome' = outcome /\ result' = result /\ Kept /\ wired' = wired /\ Others(d)
  BY DEF PInv, Core, TypeOK, CallsInv, CallInv, ControlInv, CallSteps, CallStarting, Waits, frame,
         Kept, Others
<1>2. ToldKept(d) /\ \A k \in {"before", "blocking", "after"} : Told(d, k)' <=> Told(d, k)
  BY <1>1, NothingTold
<1>3. CallInv(d)'
  <2>1. ToldInv(d)'
    BY <1>1, <1>2 DEF ToldInv, Past
  <2>2. AnswerInv(d)'
    BY <1>1 DEF AnswerInv
  <2> QED BY <1>1, <2>1, <2>2 DEF CallInv
<1>4. /\ CallsInv' /\ Steady
      /\ Moves(d, StageAt(pc[d], await[d], answer[d], outcome[d]),
                  StageAt(pc'[d], await'[d], answer'[d], outcome'[d]))
  BY <1>1, <1>2, <1>3, OneCallMoves
<1>5. StageAt(pc'[d], await'[d], answer'[d], outcome'[d])
        = StageAt(pc[d], await[d], answer[d], outcome[d])
  BY <1>1 DEF StageAt
<1> QED BY <1>1, <1>4, <1>5, StutterStep, InProtocol DEF Simulates

(* The callee takes the call, at once or late: with one call at a time the  *)
(* call-id buffer holds its id either way.                                  *)
LEMMA BeginsSimulates ==
  ASSUME PInv, Core', NEW d \in Calls, CallStarted(d) \/ Start(d)
  PROVE  Simulates
<1>1. /\ ~trapped /\ pc[d] \in CallSteps /\ await[d] \in Unstarted /\ Begins(d)
      /\ pc'[d] = pc[d] /\ await'[d] \in Waiting /\ answer' = answer /\ result' = result
      /\ Kept /\ Others(d)
  BY DEF PInv, Core, TypeOK, ControlInv, CallStarted, Waits, Start, frame, Kept, Others,
         Unstarted, Waiting
<1>2. pc[d] = "handler" => heard' = heard
  BY <1>1 DEF Begins
<1>3. pc[d] # "handler" => callIdBuf' = id[d]
  <2>1. CASE CallStarted(d)
    BY <2>1 DEF CallStarted, Waits, Populate, CallIdFor
  <2>2. CASE Start(d)
    BY <2>2 DEF Start, PInv, Core, IdInv, StartingHook, SerialInv
  <2> QED BY <2>1, <2>2
<1> QED
  BY <1>1, <1>2, <1>3, OnCallSimulates, AskSimulates, ForwardSimulates, OnReturnSimulates DEF CallSteps

(* A trap is the death of the instance; nothing else happens.               *)
LEMMA UntouchedSimulates ==
  ASSUME PInv, UNCHANGED <<wired, pc, id, counter, heard, answer, outcome, result>>,
         \A c \in Calls : await'[c] = await[c] \/ (await[c] = "announced" /\ await'[c] = "dropped"),
         trapped' = trapped \/ (~trapped /\ trapped' = TRUE)
  PROVE  Simulates
<1>1. CallsInv'
  BY DEF PInv, CallsInv, IdsGrow, CallInv, ToldInv, AnswerInv, Past, Told, Unstarted
<1>2. \A c \in Calls : StageOf(c)' = StageOf(c)
  BY DEF StageOf, Answered, Told
<1>3. Stages' = Stages
  BY <1>2 DEF Stages
<1>4. CASE trapped' = trapped
  BY <1>1, <1>3, <1>4 DEF Simulates, Protocol!pvars, Stages
<1>5. CASE ~trapped /\ trapped' = TRUE
  BY <1>1, <1>3, <1>5 DEF Simulates, Protocol!PNext, Protocol!Die, Stages
<1> QED BY <1>4, <1>5

LEMMA NextSimulates ==
  ASSUME MaxActive = 1
  PROVE  PInv /\ Core' /\ [Next]_vars => Simulates
<1> SUFFICES ASSUME PInv, Core', [Next]_vars PROVE Simulates
  OBVIOUS
<1>1. TypeOK /\ ControlInv
  BY DEF PInv, Core
<1>2. ASSUME NEW d \in Calls, CallReturned(d) PROVE Simulates
  <2>1. /\ ~trapped /\ running = d /\ pc[d] \in CallSteps /\ Begins(d) /\ CalleeReturns(d)
        /\ pc'[d] = NextStep(pc[d]) /\ await[d] = "none" /\ await'[d] = "none" /\ result' = result /\ Kept
        /\ \A c \in Calls \ {d} : pc'[c] = pc[c] /\ await'[c] = await[c] /\ outcome'[c] = outcome[c]
    BY <1>1, <1>2 DEF CallReturned, ControlInv, TypeOK, frame, Kept
  <2>2. /\ pc[d] = "should_block" => answer'[d] \in {"block", "pass"}
        /\ pc[d] # "should_block" => answer' = answer
        /\ \A c \in Calls \ {d} : answer'[c] = answer[c]
    BY <1>1, <2>1 DEF CalleeReturns, TypeOK
  <2>3. Others(d)
    BY <2>1, <2>2 DEF Others
  <2>4. /\ pc[d] = "handler" => heard' = heard
        /\ pc[d] # "handler" => callIdBuf' = id[d]
    BY <1>2, <2>1 DEF Begins, CallReturned, Populate, CallIdFor
  <2>5. NextStep("should_block") = "decide" /\ NextStep("on_return") = "finish"
    BY NextStepCases
  <2> QED
    BY <2>1, <2>2, <2>3, <2>4, <2>5, OnCallSimulates, AskSimulates, ForwardSimulates, OnReturnSimulates
       DEF CallSteps, Unstarted
<1>3. ASSUME NEW d \in Calls, ResumeOnStart(d) PROVE Simulates
  BY <1>1, <1>3, UntouchedSimulates DEF ResumeOnStart, frame, hist, TypeOK
<1>4. ASSUME NEW d \in Calls, Trap(d) PROVE Simulates
  BY <1>4, UntouchedSimulates DEF Trap, frame, wasm, hist
<1>5. CASE UNCHANGED vars
  BY <1>5, UntouchedSimulates DEF vars
<1> QED
  BY <1>2, <1>3, <1>4, <1>5, InvokeSimulates, StartingSimulates, BeginsSimulates, CompleteSimulates,
     ResumeSimulates, ProceedSimulates, EarlyReturnSimulates, FinishSimulates, ReturnSimulates
     DEF Next, Step, Event, Terminated

LEMMA InitProtocol == Init => Protocol!PInit
<1> SUFFICES ASSUME Init PROVE Protocol!PInit
  OBVIOUS
<1>1. wired \in SUBSET {"before", "blocking", "after"}
  BY HooksAssumption DEF Init
<1>2. Stages = [c \in Calls |-> "idle"]
  BY DEF Init, Stages, StageOf
<1>3. AllTold = {}
  BY DEF Init, AllTold
<1>4. Handed = [c \in Calls |-> None]
  BY DEF Init, Handed, Unseen
<1> QED BY <1>1, <1>2, <1>3, <1>4 DEF Init, Protocol!PInit, Stages, AllTold, Handed

(* Served one call at a time, the wrapper does what docs/tiers/tier-1.md    *)
(* promises of each call: hooks in order with one fresh id; a call that     *)
(* should-block denied never reaches the handler, every other call reaches  *)
(* it exactly once and returns its own result; nothing happens after a trap.*)
THEOREM ProtocolIsImplemented == ASSUME MaxActive = 1 PROVE Spec => ImplementsProtocol
<1>1. Init => Protocol!PInit
  BY InitProtocol
<1>2. Init => PInv
  BY CoreInit, SerialInit, CallsInit DEF PInv
<1>3. PInv /\ [Next]_vars => PInv' /\ [Protocol!PNext]_(Protocol!pvars)
  <2> SUFFICES ASSUME PInv, [Next]_vars PROVE PInv' /\ [Protocol!PNext]_(Protocol!pvars)
    OBVIOUS
  <2>1. Core' /\ SerialInv'
    BY CoreNext, SerialNext DEF PInv
  <2> QED BY <2>1, NextSimulates DEF PInv, Simulates
<1> QED BY <1>1, <1>2, <1>3, PTL DEF Spec, ImplementsProtocol, Protocol!PSpec


-----------------------------------------------------------------------------
(* A wrapper returns early only where the blocking hook is wired, and then  *)
(* no function of the interface has a result.  On every other way out the   *)
(* borrows are dropped before the return.                                   *)
BlockInv ==
  /\ wired \subseteq Hooks /\ Supported(wired, fn)
  /\ \A c \in Calls : pc[c] \in {"should_block", "decide"} => "blocking" \in wired
BorrowInv ==
  \A c \in borrows : /\ fn[c] \in BorrowFns
                     /\ pc[c] # "return"
                     /\ pc[c] = "done" => "blocking" \in wired

LEMMA BorrowInit == Init => BlockInv /\ BorrowInv
BY DEF Init, BlockInv, BorrowInv
LEMMA BorrowNext ==
  TypeOK /\ ControlInv /\ BlockInv /\ BorrowInv /\ [Next]_vars => BlockInv' /\ BorrowInv'
<1> SUFFICES ASSUME TypeOK, ControlInv, BlockInv, BorrowInv, [Next]_vars PROVE BlockInv' /\ BorrowInv'
  OBVIOUS
<1>1. ASSUME UNCHANGED <<wired, fn>>, NEW d \in Calls,
             \A c \in Calls \ {d} : pc'[c] = pc[c],
             pc'[d] \in {"should_block", "decide"} => "blocking" \in wired,
             \A c \in borrows' : c \in borrows \/ (c = d /\ fn[c] \in BorrowFns),
             pc'[d] = "return" => d \notin borrows',
             pc'[d] = "done" => d \notin borrows' \/ "blocking" \in wired
      PROVE  BlockInv' /\ BorrowInv'
  <2>1. borrows \subseteq Calls
    BY DEF TypeOK
  <2> QED BY <1>1, <2>1 DEF BlockInv, BorrowInv, Supported
<1>2. NextStep("new") = "should_block" => "blocking" \in wired
  BY DEF NextStep, AfterOnCall
<1>3. NextStep("on_call") = "should_block" => "blocking" \in wired
  BY DEF NextStep, AfterOnCall
<1>4. ASSUME NEW d \in Calls, Invoke(d) PROVE BlockInv' /\ BorrowInv'
  <2>1. pc[d] = "new" /\ pc'[d] = NextStep("new") /\ UNCHANGED <<wired, fn>>
        /\ \A c \in Calls \ {d} : pc'[c] = pc[c]
    BY <1>4 DEF Invoke, TypeOK
  <2>2. \A c \in borrows' : c \in borrows \/ (c = d /\ fn[c] \in BorrowFns)
    BY <1>4 DEF Invoke
  <2> QED BY <1>1, <1>2, <2>1, <2>2, NextStepCases
<1>5. ASSUME NEW d \in Calls, CallReturned(d) \/ Resume(d) \/ Proceed(d) PROVE BlockInv' /\ BorrowInv'
  <2>1. /\ pc[d] \in CallSteps \union {"decide"} /\ pc'[d] = NextStep(pc[d])
        /\ UNCHANGED <<wired, fn, borrows>> /\ \A c \in Calls \ {d} : pc'[c] = pc[c]
    BY <1>5 DEF CallReturned, Resume, Proceed, ControlInv, frame, TypeOK
  <2>2. pc'[d] \in {"should_block", "decide"} => "blocking" \in wired
    BY <1>3, <2>1, NextStepCases DEF CallSteps, BlockInv
  <2> QED BY <1>1, <2>1, <2>2, NextStepCases DEF CallSteps
<1>6. ASSUME NEW d \in Calls, EarlyReturn(d) PROVE BlockInv' /\ BorrowInv'
  <2>1. /\ pc[d] = "decide" /\ pc'[d] = "done" /\ "blocking" \in wired
        /\ UNCHANGED <<wired, fn, borrows>> /\ \A c \in Calls \ {d} : pc'[c] = pc[c]
    BY <1>6 DEF EarlyReturn, frame, TypeOK, BlockInv
  <2> QED BY <1>1, <2>1
<1>7. ASSUME NEW d \in Calls, Finish(d) PROVE BlockInv' /\ BorrowInv'
  <2>1. /\ pc'[d] = "return" /\ borrows' = borrows \ {d}
        /\ UNCHANGED <<wired, fn>> /\ \A c \in Calls \ {d} : pc'[c] = pc[c]
    BY <1>7, NextStepCases DEF Finish, frame, TypeOK
  <2> QED BY <1>1, <2>1
<1>8. ASSUME NEW d \in Calls, Return(d) PROVE BlockInv' /\ BorrowInv'
  <2>1. /\ pc[d] = "return" /\ pc'[d] = "done" /\ d \notin borrows
        /\ UNCHANGED <<wired, fn, borrows>> /\ \A c \in Calls \ {d} : pc'[c] = pc[c]
    BY <1>8 DEF Return, frame, TypeOK, BorrowInv
  <2> QED BY <1>1, <2>1
<1>9. ASSUME UNCHANGED <<wired, fn, pc, borrows>> PROVE BlockInv' /\ BorrowInv'
  BY <1>9 DEF BlockInv, BorrowInv, Supported
<1>10. ASSUME NEW d \in Calls,
              CallStarted(d) \/ CallStarting(d) \/ Start(d) \/ Complete(d) \/ ResumeOnStart(d) \/ Trap(d)
       PROVE  BlockInv' /\ BorrowInv'
  BY <1>9, <1>10 DEF CallStarted, CallStarting, Waits, Start, Complete, ResumeOnStart, Trap, wasm, frame
<1> QED BY <1>4, <1>5, <1>6, <1>7, <1>8, <1>9, <1>10 DEF Next, Step, Event, Terminated, vars

(* However many calls are in flight: a call that returned holds no borrow   *)
(* handle, unless the interface mixes the blocking hook with a function     *)
(* that has a borrow parameter and no result, where the early return of     *)
(* emit_blocking_phase skips emit_borrow_drops.                             *)
THEOREM BorrowsAreDropped ==
  ASSUME "blocking" \notin Hooks \/ BorrowFns \subseteq ResultFns
  PROVE  Spec => []BorrowsDropped
<1>1. Init => TypeOK /\ ControlInv /\ BlockInv /\ BorrowInv
  BY TypeInit, BorrowInit
<1>2. TypeOK /\ ControlInv /\ BlockInv /\ BorrowInv /\ [Next]_vars
        => (TypeOK /\ ControlInv /\ BlockInv /\ BorrowInv)'
  BY TypeNext, ControlNext, BorrowNext
<1>3. BlockInv /\ BorrowInv => BorrowsDropped
  BY DEF BlockInv, BorrowInv, Supported, BorrowsDropped
<1> QED BY <1>1, <1>2, <1>3, PTL DEF Spec
=============================================================================
