---------------------------- MODULE Tier2Wrapper ----------------------------
(***************************************************************************)
(* Several calls of one tier-2 adapter: the skeleton of the wrapper that   *)
(* src/adapter/tier2/wrapper_body.rs emits, over the memory they share.    *)
(* Tier2Lift has what a tree looks like; here a tree is one slab that      *)
(* shows the values of a call and points at the strings and lists the host *)
(* left in the heap.                                                       *)
(*                                                                         *)
(* Wasm code runs without interruption from one wait to the next: lifting  *)
(* and patching the static records are one step.  The hook reads them in   *)
(* that step too if it starts at once, and later if it is STARTING, as in  *)
(* Tier1Wrapper.                                                           *)
(***************************************************************************)
EXTENDS Naturals, FiniteSets

CONSTANTS
  Calls,       \* the invocations of one adapter instance
  Fns,         \* the functions of the target interface
  AsyncFns,    \* those lifted async-stackful
  IndirectFns, \* those whose handler takes its parameters as a record
  ResultFns,   \* those that return a value
  DirectFns,   \* those whose sync result is one flat value
  HeapFns,     \* those whose result points at strings or lists
  ArgFns,      \* those whose arguments do
  BorrowFns,   \* those with a borrow<R> parameter
  MaxActive,   \* how many calls the runtime admits at the same time
  None

ASSUME FnsAssumption ==
  /\ AsyncFns \subseteq Fns /\ IndirectFns \subseteq AsyncFns /\ ResultFns \subseteq Fns
  /\ DirectFns \subseteq ResultFns \ AsyncFns
  /\ HeapFns \subseteq ResultFns \ DirectFns
  /\ ArgFns \subseteq Fns /\ BorrowFns \subseteq Fns
ASSUME NoneAssumption == None \notin Calls /\ None \notin Nat
ASSUME MaxActiveAssumption == MaxActive \in Nat \ {0}

VARIABLES
  wired,       \* the hooks this adapter was generated for
  trapped,     \* a callee or the engine trapped
  running,     \* the call executing wasm code, or None
  pc,          \* per call: the step it is at
  fn,          \* per call: the function invoked
  await,       \* per call: what became of its subtask, as in Tier1Wrapper
  id,          \* per call: local id_local
  saved,       \* per call: local BumpReset.saved_local
  args,        \* per call: its flat parameters: where their heap data is
  owed,        \* calls that hold a borrow handle lifted on entry
  counter,     \* global call_id_counter
  bump,        \* global bump, relative to bump_start
  ram,         \* heap: what the word at each address shows and points at
  fields,      \* static memory, per function: cells.ptr of its field record
  hookParams,  \* static memory: the id in the on-call parameters, and the
               \* function whose field records they point at
  paramsRec,   \* static memory, per function: its handler's params record
  after,       \* static memory, per function: its on-return parameters
  retptr,      \* static memory, per function: its result
  heard,       \* history: what the hooks were shown
  served,      \* history: per call, the arguments the handler was given
  result,      \* history: per call, what the caller was returned
  overlapped   \* history: calls active at the same time as another

mem   == <<bump, ram, fields, hookParams, paramsRec, after, retptr>>
hist  == <<heard, served, result, overlapped>>
local == <<wired, fn, id, saved, args, counter>>   \* what only Invoke changes
vars  == <<wired, trapped, running, pc, fn, await, id, saved, args, counter, owed,
           bump, ram, fields, hookParams, paramsRec, after, retptr, heard, served, result,
           overlapped>>

CallSteps == {"on_call", "handler", "on_return"}
Awaits == {"none", "starting", "announced", "pending", "ready", "dropped"}
Active == {c \in Calls : pc[c] \notin {"new", "done"}}
UsesRetptr(f) == f \in ResultFns \ DirectFns

(* A datum [of, to]: the call whose values it holds, and the address of the *)
(* heap data they refer to, or None.  Data read where nothing was written   *)
(* is Blank.                                                                *)
Blank == [of |-> None, to |-> None]
Datum == [of : Calls \union {None}, to : Nat \union {None}]
(* The call whose strings and lists d refers to, d's own if it refers to    *)
(* none; in heap h, nobody's when what is found there points on.            *)
DeepIn(h, d) ==
  IF d.to = None THEN d.of
  ELSE IF d.to \in DOMAIN h /\ h[d.to].to = None THEN h[d.to].of ELSE None
Deep(d) == DeepIn(ram, d)

NextStepIfResult(c, s) ==   \* mutant: no on-return for a void function
  CASE s = "new"       -> IF "before" \in wired THEN "on_call" ELSE "handler"
    [] s = "on_call"   -> "handler"
    [] s = "handler"   -> IF "after" \in wired /\ fn[c] \in ResultFns THEN "on_return" ELSE "finish"
    [] s = "on_return" -> "finish"

(* The wrapper body in order; a hook that is not imported has no code.      *)
NextStep(c, s) ==
  CASE s = "new"       -> IF "before" \in wired THEN "on_call" ELSE "handler"
    [] s = "on_call"   -> "handler"
    [] s = "handler"   -> IF "after" \in wired THEN "on_return" ELSE "finish"
    [] s = "on_return" -> "finish"

Init ==
  /\ fn \in [Calls -> Fns]
  /\ wired \in SUBSET {"before", "after"} \ {{}}
  /\ trapped = FALSE
  /\ running = None
  /\ pc = [c \in Calls |-> "new"]
  /\ await = [c \in Calls |-> "none"]
  /\ id = [c \in Calls |-> 0]
  /\ saved = [c \in Calls |-> 0]
  /\ args = [c \in Calls |-> None]
  /\ owed = {}
  /\ counter = 0
  /\ bump = 0
  /\ ram = [a \in {} |-> Blank]
  /\ fields = [f \in Fns |-> None]
  /\ hookParams = [id |-> 0, fn |-> None]
  /\ paramsRec = [f \in Fns |-> Blank]
  /\ after = [f \in Fns |-> [id |-> 0, cells |-> None]]
  /\ retptr = [f \in Fns |-> Blank]
  /\ heard = {}
  /\ served = [c \in Calls |-> Blank]
  /\ result = [c \in Calls |-> Blank]
  /\ overlapped = {}

-----------------------------------------------------------------------------
(* cabi_realloc, for the host's data and for the wrapper's slabs alike.     *)
Store(a, d) == [b \in DOMAIN ram \union {a} |-> IF b = a THEN d ELSE ram[b]]

(* The host lowers the arguments, then the wrapper saves the bump pointer   *)
(* and takes a call id.                                                     *)
Invoke(c) ==
  /\ ~trapped /\ running = None
  /\ pc[c] = "new"
  /\ Cardinality(Active) < MaxActive
  /\ IF fn[c] \in ArgFns
     THEN /\ bump' = bump + 1
          /\ ram' = Store(bump, [of |-> c, to |-> None])
          /\ args' = [args EXCEPT ![c] = bump]
     ELSE UNCHANGED <<bump, ram, args>>
  /\ owed' = IF fn[c] \in BorrowFns THEN owed \union {c} ELSE owed
  /\ saved' = [saved EXCEPT ![c] = bump']
  /\ counter' = counter + 1
  /\ id' = [id EXCEPT ![c] = counter + 1]
  /\ running' = c
  /\ pc' = [pc EXCEPT ![c] = NextStep(c, "new")]
  /\ overlapped' = IF Active = {} THEN overlapped ELSE overlapped \union Active \union {c}
  /\ UNCHANGED <<wired, trapped, fn, await, fields, hookParams, paramsRec, after, retptr,
                 heard, served, result>>

(* The flat parameters and the result as the wrapper reads them: locals of  *)
(* its own, or the static result area.                                      *)
Params(c) == [of |-> c, to |-> args[c]]
Result(c) == IF UsesRetptr(fn[c]) THEN retptr[fn[c]] ELSE [of |-> c, to |-> None]

CallIdFor(c) == id[c]
SlabAtSaved(c) == saved[c]      \* mutant: the heap was already given back
SlabAt(c) == bump
PatchedOnce(f, a) ==            \* mutant: cells.ptr is kept once it is set
  [fields EXCEPT ![f] = IF @ = None THEN a ELSE @]
Patched(f, a) == [fields EXCEPT ![f] = a]

(* Phase 1: a slab for the trees of the parameters, cells.ptr patched, the  *)
(* call id and the argument list written to the hook's parameters.          *)
OnCall(c) ==
  /\ pc[c] = "on_call"
  /\ ram' = Store(SlabAt(c), Params(c))
  /\ bump' = bump + 1
  /\ fields' = Patched(fn[c], SlabAt(c))
  /\ hookParams' = [id |-> CallIdFor(c), fn |-> fn[c]]
  /\ UNCHANGED <<paramsRec, after>>

(* Phase 2: the handler is given the flat parameters, or a record built of  *)
(* them in static memory.                                                   *)
Forward(c) ==
  /\ pc[c] = "handler"
  /\ paramsRec' = IF fn[c] \in IndirectFns THEN [paramsRec EXCEPT ![fn[c]] = Params(c)]
                  ELSE paramsRec
  /\ UNCHANGED <<bump, ram, fields, hookParams, after>>

(* Phase 3: the result is loaded from the static result area, lifted into a *)
(* slab, and the on-return record of the function patched.                  *)
OnReturn(c) ==
  /\ pc[c] = "on_return"
  /\ IF fn[c] \in ResultFns
     THEN /\ ram' = Store(SlabAt(c), Result(c))
          /\ bump' = bump + 1
          /\ after' = [after EXCEPT ![fn[c]] = [id |-> CallIdFor(c), cells |-> SlabAt(c)]]
     ELSE /\ after' = [after EXCEPT ![fn[c]].id = CallIdFor(c)]
          /\ UNCHANGED <<ram, bump>>
  /\ UNCHANGED <<fields, hookParams, paramsRec>>

Issue(c) == OnCall(c) \/ Forward(c) \/ OnReturn(c)

(* The callee starts and reads its parameters, at once or, if it was busy,  *)
(* late, when other calls may have patched them.                            *)
Tell(c, ident, tree) ==
  heard' = heard \union {[hook |-> IF pc[c] = "on_call" THEN "before" ELSE "after", call |-> c,
                          id |-> ident, shows |-> tree.of, deep |-> DeepIn(ram', tree),
                          late |-> await[c] = "starting" /\ c \in overlapped]}
Begins(c) ==
  \/ /\ pc[c] = "on_call"
     /\ Tell(c, hookParams'.id, ram'[fields'[hookParams'.fn]])
     /\ UNCHANGED served
  \/ /\ pc[c] = "handler"
     /\ LET given == IF fn[c] \in IndirectFns THEN paramsRec'[fn[c]] ELSE Params(c)
        IN  served' = [served EXCEPT ![c] = [of |-> given.of, to |-> Deep(given)]]
     /\ UNCHANGED heard
  \/ /\ pc[c] = "on_return"
     /\ Tell(c, after'[fn[c]].id, IF fn[c] \in ResultFns THEN ram'[after'[fn[c]].cells]
                                  ELSE [of |-> c, to |-> None])
     /\ UNCHANGED served

(* What the handler leaves in the adapter's memory when it returns.         *)
HandlerReturns(c) ==
  IF pc[c] = "handler" /\ UsesRetptr(fn[c])
  THEN IF fn[c] \in HeapFns
       THEN /\ ram' = Store(bump, [of |-> c, to |-> None])
            /\ retptr' = [retptr EXCEPT ![fn[c]] = [of |-> c, to |-> bump]]
            /\ bump' = bump + 1
       ELSE /\ retptr' = [retptr EXCEPT ![fn[c]] = [of |-> c, to |-> None]]
            /\ UNCHANGED <<ram, bump>>
  ELSE UNCHANGED <<ram, bump, retptr>>

(* The lowered call gives a handle: a waitable set, and the instance is     *)
(* free.  The handler of a sync function is a plain call that never waits.  *)
Waits(c) ==
  /\ ~trapped /\ running = c
  /\ pc[c] = "handler" => fn[c] \in AsyncFns
  /\ Issue(c)
  /\ running' = None
  /\ UNCHANGED <<local, owed, trapped, pc, retptr, result, overlapped>>

(* Started: the callee has its parameters.                                  *)
CallStarted(c) ==
  /\ Waits(c)
  /\ Begins(c)
  /\ await' = [await EXCEPT ![c] = "pending"]

(* STARTING: the callee takes no call now.                                  *)
CallStarting(c) ==
  /\ Waits(c)
  /\ await' = [await EXCEPT ![c] = "starting"]
  /\ UNCHANGED <<heard, served>>

(* External: the callee takes the call after all.                           *)
Start(c) ==
  /\ ~trapped /\ running = None
  /\ await[c] = "starting"
  /\ UNCHANGED mem
  /\ Begins(c)
  /\ await' = [await EXCEPT ![c] = "announced"]
  /\ UNCHANGED <<local, owed, trapped, running, pc, result, overlapped>>

(* A hook that returns at once leaves nothing in memory.                    *)
HookReturned(c) ==
  /\ ~trapped /\ running = c
  /\ OnCall(c) \/ OnReturn(c)
  /\ Begins(c)
  /\ pc' = [pc EXCEPT ![c] = NextStep(c, pc[c])]
  /\ UNCHANGED <<local, owed, trapped, running, await, retptr, result, overlapped>>

(* The handler's record is built, read and forgotten before it returns.     *)
HandlerReturned(c) ==
  /\ ~trapped /\ running = c
  /\ pc[c] = "handler"
  /\ paramsRec' = IF fn[c] \in IndirectFns THEN [paramsRec EXCEPT ![fn[c]] = Params(c)]
                  ELSE paramsRec
  /\ Begins(c)
  /\ HandlerReturns(c)
  /\ pc' = [pc EXCEPT ![c] = NextStep(c, "handler")]
  /\ UNCHANGED <<local, owed, trapped, running, await, fields, hookParams, after, result, overlapped>>

(* External: the subtask returns while no wasm code runs.                   *)
Complete(c) ==
  /\ ~trapped /\ running = None
  /\ await[c] \in {"pending", "announced"}
  /\ HandlerReturns(c)
  /\ await' = [await EXCEPT ![c] = "ready"]
  /\ UNCHANGED <<local, owed, trapped, running, pc, fields, hookParams, paramsRec, after, hist>>

(* The wait loop gets its event.                                            *)
Resume(c) ==
  /\ ~trapped /\ running = None
  /\ await[c] = "ready"
  /\ await' = [await EXCEPT ![c] = "none"]
  /\ running' = c
  /\ pc' = [pc EXCEPT ![c] = NextStep(c, pc[c])]
  /\ UNCHANGED <<local, owed, trapped, mem, hist>>

(* ... or the event that it started, and drops a subtask that has not       *)
(* returned: the engine traps.                                              *)
ResumeOnStart(c) ==
  /\ ~trapped /\ running = None
  /\ await[c] = "announced"
  /\ await' = [await EXCEPT ![c] = "dropped"]
  /\ trapped' = TRUE
  /\ UNCHANGED <<local, owed, running, pc, mem, hist>>

RestoredBumpToStart(c) == 0             \* mutant: frees the host's arguments too
RestoredBump(c) == saved[c]

(* Phase 4: borrows are dropped and the bump pointer goes back, then        *)
(* task.return loads the result area once more, or the wrapper returns it.  *)
Finish(c) ==
  /\ ~trapped /\ running = c
  /\ pc[c] = "finish"
  /\ owed' = owed \ {c}
  /\ bump' = RestoredBump(c)
  /\ result' = [result EXCEPT ![c] = [of |-> Result(c).of, to |-> Deep(Result(c))]]
  /\ pc' = [pc EXCEPT ![c] = "done"]
  /\ running' = None
  /\ UNCHANGED <<local, trapped, await, ram, fields, hookParams, paramsRec, after, retptr,
                 heard, served, overlapped>>

(* A hook or the handler traps.                                             *)
Trap(c) ==
  /\ ~trapped
  /\ \/ running = c /\ pc[c] \in CallSteps
     \/ running = None /\ await[c] \in {"pending", "announced"}
  /\ trapped' = TRUE
  /\ UNCHANGED <<local, owed, running, pc, await, mem, hist>>

Terminated == (trapped \/ \A c \in Calls : pc[c] = "done") /\ UNCHANGED vars

Next ==
  \/ \E c \in Calls :
       \/ Invoke(c) \/ CallStarted(c) \/ CallStarting(c) \/ HookReturned(c)
       \/ HandlerReturned(c) \/ Start(c) \/ Complete(c) \/ Resume(c) \/ ResumeOnStart(c)
       \/ Finish(c) \/ Trap(c)
  \/ Terminated

Spec == Init /\ [][Next]_vars

-----------------------------------------------------------------------------
(* wrapper_body.rs warns that a second call would see the first mid-update. *)
(* In on-call that takes a hook which had to wait in a call that overlaps   *)
(* others: any other on-call is shown the arguments of its own call, down   *)
(* to the strings and lists they point at, however many calls overlap.      *)
OnCallFaithful ==
  \A h \in heard : h.hook = "before" /\ ~h.late => h.shows = h.call /\ h.deep = h.call

(* What the single-call assumption buys: a call that never shared the       *)
(* instance has its own arguments forwarded, its own result shown to        *)
(* on-return and returned, strings and lists included, whatever calls that  *)
(* did overlap left in the static records and the heap.                     *)
SoloCallsFaithful ==
  \A c \in Calls \ overlapped :
    /\ served[c] # Blank => served[c] = [of |-> c, to |-> c]
    /\ \A h \in heard : h.hook = "after" /\ h.call = c => h.shows = c /\ h.deep = c
    /\ pc[c] = "done" => result[c] = [of |-> c, to |-> c]

(* As long as calls come one at a time, a call gives back every slab and    *)
(* buffer it took, and only the host's arguments stay allocated; a borrow   *)
(* is dropped in any case.                                                  *)
BumpBalanced ==
  /\ overlapped = {} /\ Active = {} =>
       bump = Cardinality({c \in Calls : pc[c] = "done" /\ fn[c] \in ArgFns})
  /\ owed \subseteq Active

(* The protocol a tier-1 adapter without a blocking hook implements is      *)
(* implemented here too: the hooks of every call in order with one fresh id,*)
(* the handler called once, and its own result delivered.  No particular    *)
(* result is promised to a call that overlapped another, nor a particular   *)
(* id to a hook that had to wait in one.                                    *)
Heard(c, hook) == \E h \in heard : h.hook = hook /\ h.call = c
StageOf(c) ==
  CASE pc[c] = "new"  -> "idle"
    [] pc[c] = "done" -> "returned"
    [] pc[c] \in {"on_return", "finish"} -> IF Heard(c, "after") THEN "reported" ELSE "served"
    [] pc[c] = "handler" /\ await[c] \in {"announced", "pending", "dropped"} -> "forwarded"
    [] pc[c] = "handler" /\ await[c] = "ready"   -> "served"
    [] OTHER -> IF Heard(c, "before") THEN "observed" ELSE "called"
Delivered(c) ==
  IF pc[c] # "done" THEN None ELSE IF c \in overlapped THEN c ELSE result[c].of

Protocol == INSTANCE CallProtocol WITH
  hooks <- wired, stage <- [c \in Calls |-> StageOf(c)], ident <- id,
  told <- {[hook |-> h.hook, call |-> h.call, id |-> IF h.late THEN id[h.call] ELSE h.id] :
             h \in heard},
  delivered <- [c \in Calls |-> Delivered(c)], dead <- trapped
ImplementsProtocol == Protocol!PSpec
=============================================================================
