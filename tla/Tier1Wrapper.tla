---------------------------- MODULE Tier1Wrapper ----------------------------
(***************************************************************************)
(* The core module that splicer generates for a tier-1 middleware          *)
(* (src/src/adapter/tier1/emit.rs): one wrapper function per function of   *)
(* the target interface, all of them sharing one linear memory.            *)
(*                                                                         *)
(* The wasm code between two waits runs without interruption.  `running'   *)
(* is the call that holds the instance; it gives the instance up only in   *)
(* the wait loop of canon_async.rs, and another call may run there.  The   *)
(* middleware, the handler and the canonical ABI are external.  A lowered  *)
(* call returns at once (handle 0), or has started and completes later, or *)
(* is still STARTING because the callee takes no call now: only when it    *)
(* starts are its parameters read, from static memory that other calls may *)
(* have written in the meantime.                                           *)
(***************************************************************************)
EXTENDS Naturals, FiniteSets

CONSTANTS
  Calls,       \* the invocations of one adapter instance
  Fns,         \* the functions of the target interface
  AsyncFns,    \* those lifted async-stackful
  IndirectFns, \* those whose handler takes its parameters as a record
  ResultFns,   \* those that return a value
  DirectFns,   \* those whose sync result is one flat value
  HeapFns,     \* those whose result owns memory (strings, lists)
  ArgFns,      \* those whose arguments own memory
  BorrowFns,   \* those with a top-level borrow<R> parameter
  Hooks,       \* the hooks a middleware may export
  MaxActive,   \* how many calls the runtime admits at the same time
  None

ASSUME FnsAssumption ==
  /\ AsyncFns \subseteq Fns /\ IndirectFns \subseteq AsyncFns /\ ResultFns \subseteq Fns
  /\ DirectFns \subseteq ResultFns \ AsyncFns
  /\ HeapFns \subseteq ResultFns \ DirectFns
  /\ ArgFns \subseteq Fns /\ BorrowFns \subseteq Fns
ASSUME HooksAssumption == Hooks \subseteq {"before", "blocking", "after"}
ASSUME NoneAssumption == None \notin Calls /\ None \notin Nat
ASSUME MaxActiveAssumption == MaxActive \in Nat \ {0}

VARIABLES
  wired,       \* the hooks this adapter was generated for
  trapped,     \* a callee or the engine trapped; the adapter was unwound
  running,     \* the call executing wasm code, or None
  pc,          \* per call: the step it is at
  fn,          \* per call: the function invoked
  await,       \* per call: what became of its subtask (below)
  id,          \* per call: local id_local
  saved,       \* per call: local BumpReset.saved_local
  args,        \* per call: its flat parameters: where their heap data is
  counter,     \* global call_id_counter
  bump,        \* global bump, relative to bump_start
  ram,         \* heap: per address handed out, the call whose data is there
  callIdBuf,   \* static memory: the id in the shared call-id buffer
  paramsRec,   \* static memory: per function, its params record
  blockSlot,   \* static memory: the bool behind block_result_ptr
  retptr,      \* static memory: per function, its result
  borrows,     \* calls that hold an undropped borrow handle
  live,        \* history: data in the heap that its call still needs
  heard,       \* history: what the middleware was told
  served,      \* history: per call, the arguments the handler was given
  answer,      \* history: what should-block answered for each call
  outcome,     \* history: how each call ended, none | blocked | served
  result,      \* history: per call, what the caller was returned
  overlapped   \* history: calls active at the same time as another

wasm  == <<running, pc, await>>
frame == <<wired, fn, id, saved, args, counter>>   \* what only Invoke changes
heap  == <<bump, ram, live>>
mem   == <<heap, callIdBuf, paramsRec, blockSlot, retptr>>
hist  == <<heard, served, answer, outcome, result, overlapped>>
vars  == <<wired, trapped, running, pc, fn, await, id, saved, args, counter, bump, ram, live,
           callIdBuf, paramsRec, blockSlot, retptr, borrows, heard, served, answer, outcome,
           result, overlapped>>

UsesRetptr(f) == f \in ResultFns \ DirectFns
Active == {c \in Calls : pc[c] \notin {"new", "done"}}
CallSteps == {"on_call", "should_block", "handler", "on_return"}

(* A subtask is none; starting, its parameters unread; announced, started,  *)
(* with the event that says so not yet delivered; pending, started, with    *)
(* nothing to deliver; ready, returned.  It is dropped when the wait loop   *)
(* took the first of these events for the second and the engine trapped.    *)
Awaits == {"none", "starting", "announced", "pending", "ready", "dropped"}

(* A datum [of, to]: the call whose values it holds, and the address of the *)
(* heap data they refer to, or None.  What a reader sees of it is its own   *)
(* values and, behind the pointer, those of whoever wrote there last.       *)
Datum == [of : Calls \union {None}, to : DOMAIN ram \union {None}]
View == [of : Calls \union {None}, deep : Calls \union {None}]
Blank == [of |-> None, to |-> None]
Seen(d) == [of |-> d.of, deep |-> IF d.to = None THEN d.of ELSE ram[d.to]]
Unseen == [of |-> None, deep |-> None]
Own(c) == [of |-> c, deep |-> c]

(* Which interface each awaited step calls, and the middleware's answer.    *)
HookOf == [s \in CallSteps \ {"handler"} |->
             CASE s = "on_call"      -> "before"
               [] s = "should_block" -> "blocking"
               [] s = "on_return"    -> "after"]

(* The wrapper body in order; a hook that is not imported has no code.      *)
AfterOnCall == IF "blocking" \in wired THEN "should_block" ELSE "handler"
NextStepResetFirst(s) ==   \* mutant: the bump pointer goes back before on-return
  CASE s = "new"          -> IF "before" \in wired THEN "on_call" ELSE AfterOnCall
    [] s = "on_call"      -> AfterOnCall
    [] s = "should_block" -> "decide"
    [] s = "decide"       -> "handler"
    [] s = "handler"      -> "finish"
    [] s = "finish"       -> IF "after" \in wired THEN "on_return" ELSE "return"
    [] s = "on_return"    -> "return"
NextStep(s) ==
  CASE s = "new"          -> IF "before" \in wired THEN "on_call" ELSE AfterOnCall
    [] s = "on_call"      -> AfterOnCall
    [] s = "should_block" -> "decide"
    [] s = "decide"       -> "handler"
    [] s = "handler"      -> IF "after" \in wired THEN "on_return" ELSE "finish"
    [] s = "on_return"    -> "finish"
    [] s = "finish"       -> "return"

(* require_supported_case: blocking only for an interface of void functions; *)
(* the interface is taken to have the functions f that are called, no more.  *)
Supported(w, f) == "blocking" \in w => \A c \in Calls : f[c] \notin ResultFns

Init ==
  /\ fn \in [Calls -> Fns]
  /\ wired \in {w \in SUBSET Hooks : w # {} /\ Supported(w, fn)}
  /\ trapped = FALSE
  /\ running = None
  /\ pc = [c \in Calls |-> "new"]
  /\ await = [c \in Calls |-> "none"]
  /\ id = [c \in Calls |-> 0]
  /\ saved = [c \in Calls |-> 0]
  /\ args = [c \in Calls |-> None]
  /\ counter = 0
  /\ bump = 0
  /\ ram = [a \in {} |-> None]
  /\ callIdBuf = 0
  /\ paramsRec = [f \in Fns |-> Blank]
  /\ blockSlot = FALSE
  /\ retptr = [f \in Fns |-> Blank]
  /\ borrows = {}
  /\ live = {}
  /\ heard = {}
  /\ served = [c \in Calls |-> Unseen]
  /\ answer = [c \in Calls |-> "none"]
  /\ outcome = [c \in Calls |-> "none"]
  /\ result = [c \in Calls |-> Unseen]
  /\ overlapped = {}

-----------------------------------------------------------------------------
(* cabi_realloc hands out the memory at bump and moves it up; the host puts *)
(* data of call c there.                                                    *)
Allocate(c) ==
  /\ ram' = [a \in DOMAIN ram \union {bump} |-> IF a = bump THEN c ELSE ram[a]]
  /\ bump' = bump + 1
  /\ live' = live \union {[call |-> c, at |-> bump, beside |-> Active \ {c}]}

(* The host lowers the arguments (before the snapshot), the wrapper saves   *)
(* the bump pointer and takes a call id (an adapter wires one hook or more). *)
AllocCallId(c) ==
  /\ counter' = counter + 1
  /\ id' = [id EXCEPT ![c] = counter + 1]

Invoke(c) ==
  /\ ~trapped /\ running = None
  /\ pc[c] = "new"
  /\ Cardinality(Active) < MaxActive
  /\ IF fn[c] \in ArgFns
     THEN Allocate(c) /\ args' = [args EXCEPT ![c] = bump]
     ELSE UNCHANGED <<heap, args>>
  /\ saved' = [saved EXCEPT ![c] = bump']
  /\ AllocCallId(c)
  /\ running' = c
  /\ pc' = [pc EXCEPT ![c] = NextStep("new")]
  /\ borrows' = IF fn[c] \in BorrowFns THEN borrows \union {c} ELSE borrows
  /\ overlapped' = IF Active = {} THEN overlapped ELSE overlapped \union Active \union {c}
  /\ UNCHANGED <<wired, trapped, fn, await, callIdBuf, paramsRec, blockSlot, retptr,
                 heard, served, answer, outcome, result>>

(* The wrapper fills the static memory the callee reads its parameters from: *)
(* the call-id buffer, or the record of a handler with indirect parameters.  *)
CallIdForNewest(c) == counter   \* mutant: reloads the global instead of id_local
CallIdFor(c) == id[c]
Params(c) == [of |-> c, to |-> args[c]]
PopulateOnce(c) ==   \* mutant: a params record that is filled is not filled again
  /\ callIdBuf' = IF pc[c] = "handler" THEN callIdBuf ELSE CallIdFor(c)
  /\ paramsRec' = IF pc[c] = "handler" /\ fn[c] \in IndirectFns /\ paramsRec[fn[c]] = Blank
                  THEN [paramsRec EXCEPT ![fn[c]] = Params(c)] ELSE paramsRec
Populate(c) ==
  /\ callIdBuf' = IF pc[c] = "handler" THEN callIdBuf ELSE CallIdFor(c)
  /\ paramsRec' = IF pc[c] = "handler" /\ fn[c] \in IndirectFns
                  THEN [paramsRec EXCEPT ![fn[c]] = Params(c)] ELSE paramsRec

(* The callee starts: it reads its parameters, at once or, if it was busy,  *)
(* late, when other calls may have been there.                              *)
Begins(c) ==
  IF pc[c] = "handler"
  THEN /\ served' = [served EXCEPT ![c] =
                       Seen(IF fn[c] \in IndirectFns THEN paramsRec'[fn[c]] ELSE Params(c))]
       /\ UNCHANGED heard
  ELSE /\ heard' = heard \union {[hook |-> HookOf[pc[c]], call |-> c, id |-> callIdBuf',
                                  late |-> await[c] = "starting" /\ c \in overlapped]}
       /\ UNCHANGED served

(* What a callee leaves in the adapter's memory when it returns.            *)
CalleeReturns(c) ==
  CASE pc[c] = "should_block" ->
         \E d \in BOOLEAN :
            /\ blockSlot' = d
            /\ answer' = [answer EXCEPT ![c] = IF d THEN "block" ELSE "pass"]
            /\ UNCHANGED <<heap, retptr>>
    [] pc[c] = "handler" ->
         /\ IF fn[c] \in HeapFns THEN Allocate(c) ELSE UNCHANGED heap
         /\ retptr' = IF UsesRetptr(fn[c])
                      THEN [retptr EXCEPT ![fn[c]] =
                              [of |-> c, to |-> IF fn[c] \in HeapFns THEN bump ELSE None]]
                      ELSE retptr
         /\ UNCHANGED <<blockSlot, answer>>
    [] OTHER -> UNCHANGED <<heap, blockSlot, retptr, answer>>

(* emit_hook_call / emit_handler_call / emit_blocking_phase, when the       *)
(* lowered call returns at once: the wait loop is skipped.                  *)
CallReturned(c) ==
  /\ ~trapped /\ running = c
  /\ pc[c] \in CallSteps
  /\ Populate(c)
  /\ Begins(c)
  /\ CalleeReturns(c)
  /\ pc' = [pc EXCEPT ![c] = NextStep(pc[c])]
  /\ UNCHANGED <<frame, trapped, running, await, borrows, outcome, result, overlapped>>

(* ... and when there is a handle: join a waitable set and wait.  The       *)
(* handler of a sync function is a plain call that never waits here.        *)
Waits(c) ==
  /\ ~trapped /\ running = c
  /\ pc[c] \in CallSteps
  /\ pc[c] = "handler" => fn[c] \in AsyncFns
  /\ Populate(c)
  /\ running' = None
  /\ UNCHANGED <<frame, trapped, pc, heap, blockSlot, retptr, borrows, answer, outcome,
                 result, overlapped>>

(* Started: the callee has its parameters.                                  *)
CallStarted(c) ==
  /\ Waits(c)
  /\ Begins(c)
  /\ await' = [await EXCEPT ![c] = "pending"]

(* STARTING: the callee takes no call now.                                  *)
CallStarting(c) ==
  /\ Waits(c)
  /\ await' = [await EXCEPT ![c] = "starting"]
  /\ UNCHANGED <<heard, served>>

(* External: the callee takes the call after all.                           *)
Start(c) ==
  /\ ~trapped /\ running = None
  /\ await[c] = "starting"
  /\ UNCHANGED <<callIdBuf, paramsRec>>
  /\ Begins(c)
  /\ await' = [await EXCEPT ![c] = "announced"]
  /\ UNCHANGED <<frame, trapped, running, pc, heap, blockSlot, retptr, borrows, answer,
                 outcome, result, overlapped>>

(* External: the subtask returns, its results are lowered into the memory.  *)
(* An event that waits to be delivered says so now.                         *)
Complete(c) ==
  /\ ~trapped /\ running = None
  /\ await[c] \in {"pending", "announced"}
  /\ CalleeReturns(c)
  /\ await' = [await EXCEPT ![c] = "ready"]
  /\ UNCHANGED <<frame, trapped, running, pc, callIdBuf, paramsRec, borrows, heard, served,
                 outcome, result, overlapped>>

(* waitable-set.wait delivers the event; the handles are dropped.           *)
ResumeRearmed(c) ==   \* mutant: the loop waits again after its event
  /\ ~trapped /\ running = None
  /\ await[c] = "ready"
  /\ await' = [await EXCEPT ![c] = "pending"]
  /\ UNCHANGED <<frame, trapped, running, pc, mem, borrows, hist>>
Resume(c) ==
  /\ ~trapped /\ running = None
  /\ await[c] = "ready"
  /\ await' = [await EXCEPT ![c] = "none"]
  /\ running' = c
  /\ pc' = [pc EXCEPT ![c] = NextStep(pc[c])]
  /\ UNCHANGED <<frame, trapped, mem, borrows, hist>>

(* emit_wait_loop waits once: if the event is that the subtask started, it  *)
(* drops a subtask that has not returned, and the engine traps.             *)
ResumeOnStart(c) ==
  /\ ~trapped /\ running = None
  /\ await[c] = "announced"
  /\ await' = [await EXCEPT ![c] = "dropped"]
  /\ trapped' = TRUE
  /\ UNCHANGED <<frame, running, pc, mem, borrows, hist>>

(* The bool behind block_result_ptr, loaded after the wait.                 *)
MustBlockNever(c) == FALSE        \* mutant: the answer is dropped
MustBlock(c) == blockSlot

Proceed(c) ==
  /\ ~trapped /\ running = c
  /\ pc[c] = "decide"
  /\ ~MustBlock(c)
  /\ pc' = [pc EXCEPT ![c] = NextStep("decide")]
  /\ UNCHANGED <<frame, trapped, running, await, mem, borrows, hist>>

RestoredBumpToStart(c) == 0             \* mutant: frees the host's arguments too
RestoredBumpFreesOne(c) == saved[c] - 1 \* mutant: snapshot taken too low
RestoredBump(c) == saved[c]
LiveWithout(c) == {x \in live : x.call # c}

(* The early return: task.return if async, bump restore, return.            *)
EarlyReturn(c) ==
  /\ ~trapped /\ running = c
  /\ pc[c] = "decide"
  /\ MustBlock(c)
  /\ bump' = RestoredBump(c)
  /\ live' = LiveWithout(c)
  /\ outcome' = [outcome EXCEPT ![c] = "blocked"]
  /\ pc' = [pc EXCEPT ![c] = "done"]
  /\ running' = None
  /\ UNCHANGED <<frame, trapped, await, ram, callIdBuf, paramsRec, blockSlot, retptr,
                 borrows, heard, served, answer, result, overlapped>>

(* Borrow drops and bump restore.  The result is still in the heap behind   *)
(* the bump pointer.                                                        *)
Finish(c) ==
  /\ ~trapped /\ running = c
  /\ pc[c] = "finish"
  /\ borrows' = borrows \ {c}
  /\ bump' = RestoredBump(c)
  /\ pc' = [pc EXCEPT ![c] = NextStep("finish")]
  /\ UNCHANGED <<frame, trapped, running, await, ram, live, callIdBuf, paramsRec, blockSlot,
                 retptr, hist>>

(* task.return or the wrapper's return: the host lifts the result.          *)
Result(c) == IF UsesRetptr(fn[c]) THEN retptr[fn[c]] ELSE [of |-> c, to |-> None]

Return(c) ==
  /\ ~trapped /\ running = c
  /\ pc[c] = "return"
  /\ result' = [result EXCEPT ![c] = Seen(Result(c))]
  /\ outcome' = [outcome EXCEPT ![c] = "served"]
  /\ live' = LiveWithout(c)
  /\ pc' = [pc EXCEPT ![c] = "done"]
  /\ running' = None
  /\ UNCHANGED <<frame, trapped, await, bump, ram, callIdBuf, paramsRec, blockSlot, retptr,
                 borrows, heard, served, answer, overlapped>>

(* A hook or the handler traps: the trap unwinds the instance.              *)
Trap(c) ==
  /\ ~trapped
  /\ \/ running = c /\ pc[c] \in CallSteps
     \/ running = None /\ await[c] \in {"pending", "announced"}
  /\ trapped' = TRUE
  /\ UNCHANGED <<frame, wasm, mem, borrows, hist>>

(* Nothing is left to do: every call returned, or the instance is dead.     *)
Terminated == (trapped \/ \A c \in Calls : pc[c] = "done") /\ UNCHANGED vars

Step(c) ==
  \/ CallReturned(c) \/ CallStarted(c) \/ CallStarting(c)
  \/ Proceed(c) \/ EarlyReturn(c) \/ Finish(c) \/ Return(c)
Event(c) == Resume(c) \/ ResumeOnStart(c)

Next ==
  \/ \E c \in Calls : Invoke(c) \/ Step(c) \/ Start(c) \/ Complete(c) \/ Event(c) \/ Trap(c)
  \/ Terminated

(* The engine executes wasm code and delivers events; middleware and        *)
(* handler eventually take every call and return.  Nothing obliges a client *)
(* to call.                                                                 *)
Fairness ==
  \A c \in Calls : /\ WF_vars(Step(c)) /\ WF_vars(Event(c))
                   /\ WF_vars(Start(c)) /\ WF_vars(Complete(c))

Spec == Init /\ [][Next]_vars
FairSpec == Spec /\ Fairness

-----------------------------------------------------------------------------
(* Every variable ranges over what the generated code can put in it.        *)
TypeOK ==
  /\ wired \in SUBSET {"before", "blocking", "after"}
  /\ trapped \in BOOLEAN
  /\ running \in Calls \union {None}
  /\ pc \in [Calls -> {"new", "decide", "finish", "return", "done"} \union CallSteps]
  /\ fn \in [Calls -> Fns]
  /\ await \in [Calls -> Awaits]
  /\ id \in [Calls -> Nat] /\ counter \in Nat /\ callIdBuf \in Nat
  /\ saved \in [Calls -> Nat] /\ bump \in Nat
  /\ DOMAIN ram \subseteq Nat /\ ram \in [DOMAIN ram -> Calls]
  /\ args \in [Calls -> DOMAIN ram \union {None}]
  /\ paramsRec \in [Fns -> Datum] /\ retptr \in [Fns -> Datum]
  /\ blockSlot \in BOOLEAN
  /\ borrows \subseteq Calls /\ overlapped \subseteq Calls
  /\ live \subseteq [call : Calls, at : DOMAIN ram, beside : SUBSET Calls]
  /\ heard \subseteq [hook : {"before", "blocking", "after"}, call : Calls, id : Nat, late : BOOLEAN]
  /\ answer \in [Calls -> {"none", "block", "pass"}]
  /\ outcome \in [Calls -> {"none", "blocked", "served"}]
  /\ served \in [Calls -> View] /\ result \in [Calls -> View]

(* The id a middleware correlates on (wit/common/world.wit): two hooks that *)
(* read their call id in time carry the same one exactly when they are      *)
(* about the same call, however many calls share the call-id buffer.  Only  *)
(* a hook that had to wait in a call that overlaps others may read a wrong  *)
(* id, and then the id of a call that overlapped as well.                   *)
CallIdsPair ==
  \A g, h \in heard :
    /\ ~g.late /\ ~h.late => (g.id = h.id <=> g.call = h.call)
    /\ g.call \notin overlapped /\ g.id = h.id => g.call = h.call

(* emit.rs states a single-active-call assumption.  What it buys, call by   *)
(* call: one that never shared the instance has its own arguments given to  *)
(* the handler, is blocked exactly when the middleware said so and returns  *)
(* the result the handler computed for it, strings and lists included, even *)
(* after calls that did overlap left their data in static memory and heap.  *)
SoloCallsFaithful ==
  \A c \in Calls \ overlapped :
     /\ served[c] # Unseen => served[c] = Own(c)
     /\ outcome[c] = "blocked" => answer[c] = "block"
     /\ outcome[c] = "served"  => answer[c] # "block" /\ served[c] = Own(c) /\ result[c] = Own(c)

(* emit_bump_save / emit_bump_restore: with no call active the allocator is *)
(* back where it was, but for the arguments the host lowered before the     *)
(* snapshot, which the doc comment of emit_bump_save says it does not free. *)
BumpBalanced ==
  Active = {} => bump = Cardinality({c \in Calls : pc[c] = "done" /\ fn[c] \in ArgFns})

(* The allocator never hands out memory a call in flight still needs, its   *)
(* arguments or its result, from the call's entry until the host has lifted *)
(* the result, whatever starts and ends in its waits: unless a call that    *)
(* was in flight when the memory was taken returns first, and takes it back *)
(* with its own.                                                            *)
LiveHeapSafe ==
  \A x \in live : (\A d \in x.beside : pc[d] # "done") => ram[x.at] = x.call

(* collect_borrow_drops: "the canonical-ABI runtime checks every borrow     *)
(* lifted on entry is dropped on exit", so a returned call holds none.      *)
BorrowsDropped == \A c \in Calls : pc[c] = "done" => c \notin borrows

(* No call waits for ever: not for an event another call consumed, not for  *)
(* the instance.                                                            *)
EveryCallReturns == \A c \in Calls : pc[c] # "new" ~> (pc[c] = "done" \/ trapped)

(* The wrapper implements the protocol the documentation promises.          *)
Told(c, hook) == \E h \in heard : h.hook = hook /\ h.call = c
Answered(c) ==
  IF answer[c] # "none" THEN IF answer[c] = "block" THEN "denied" ELSE "allowed"
  ELSE IF Told(c, "blocking") THEN "asked"
  ELSE IF Told(c, "before") THEN "observed" ELSE "called"
StageOf(c) ==
  CASE pc[c] = "new"  -> "idle"
    [] pc[c] = "done" -> IF outcome[c] = "blocked" THEN "refused" ELSE "returned"
    [] pc[c] \in {"on_return", "finish", "return"} -> IF Told(c, "after") THEN "reported" ELSE "served"
    [] pc[c] = "handler" /\ await[c] \in {"announced", "pending", "dropped"} -> "forwarded"
    [] pc[c] = "handler" /\ await[c] = "ready"   -> "served"
    [] OTHER -> Answered(c)

Protocol == INSTANCE CallProtocol WITH
  hooks <- wired, stage <- [c \in Calls |-> StageOf(c)], ident <- id,
  told <- {[hook |-> h.hook, call |-> h.call, id |-> h.id] : h \in heard},
  delivered <- [c \in Calls |-> IF result[c].deep = result[c].of THEN result[c].of ELSE None],
  dead <- trapped
ImplementsProtocol == Protocol!PSpec
=============================================================================
