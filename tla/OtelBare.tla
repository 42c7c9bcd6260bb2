------------------------------- MODULE OtelBare -------------------------------
(***************************************************************************)
(* The two builtins that carry state from on-call to on-return             *)
(* (builtins/otel-bare-spans, otel-bare-metrics): a stack of pending       *)
(* entries per function.  A hook runs without interruption from one await  *)
(* to the next, so other calls come in between.  An adapter runs on-call   *)
(* to its end before the handler, and on-return after it (CallProtocol);   *)
(* calls of one instance overlap freely, a recursive call being one that   *)
(* begins while the handler of another runs.                               *)
(***************************************************************************)
EXTENDS Naturals, Sequences, FiniteSets

CONSTANTS Calls, Fns, None

ASSUME CallsAssumption == IsFiniteSet(Calls) /\ None \notin Calls

VARIABLES
  builtin,   \* which of the two is wrapped around the interface
  fn,        \* per call: its function, the key of the map
  pc,        \* per call: the await its hook is at, or the part of the call
  pending,   \* per function: the stack of entries, an entry named for the call that pushed it
  popped,    \* per call: local p, the entry its on-return took
  announced, \* spans the host was told have started
  reported,  \* per call: what its on-return reported, None if nothing yet
  turn,      \* history, per call: its place in the order of pushes, 0 before
  crossed    \* history: calls whose handler overlapped another's without nesting

vars == <<builtin, fn, pc, pending, popped, announced, reported, turn, crossed>>

Init ==
  /\ builtin \in {"spans", "metrics"}
  /\ fn \in [Calls -> Fns]
  /\ pc = [c \in Calls |-> "idle"]
  /\ pending = [f \in Fns |-> <<>>]
  /\ popped = [c \in Calls |-> None]
  /\ announced = {}
  /\ reported = [c \in Calls |-> None]
  /\ turn = [c \in Calls |-> 0]
  /\ crossed = {}

Goto(c, step) == pc' = [pc EXCEPT ![c] = step]

\* The calls of function f between their two hooks.
Serving(f) == {c \in Calls : fn[c] = f /\ pc[c] = "handler"}

-----------------------------------------------------------------------------
(* on_call up to its first await: the outer span context, or the clock.     *)
Enter(c) ==
  /\ pc[c] = "idle"
  /\ Goto(c, IF builtin = "spans" THEN "minting" ELSE "recording")
  /\ UNCHANGED <<builtin, fn, pending, popped, announced, reported, turn, crossed>>

Context(c) == c

(* Ids and start time are there: the host is told that the span starts.     *)
Announce(c) ==
  /\ pc[c] = "minting"
  /\ announced' = announced \union {Context(c)}
  /\ Goto(c, "recording")
  /\ UNCHANGED <<builtin, fn, pending, popped, reported, turn, crossed>>

PushedIfFirst(c) ==                            \* mutant: or_insert(), no stack
  IF pending[fn[c]] = <<>> THEN <<c>> ELSE pending[fn[c]]
PushedBelow(c) == <<c>> \o pending[fn[c]]      \* mutant: a queue, not a stack
Pushed(c) == Append(pending[fn[c]], c)

(* The last await is over: push, and on_call returns to the adapter.        *)
Push(c) ==
  /\ pc[c] = "recording"
  /\ pending' = [pending EXCEPT ![fn[c]] = Pushed(c)]
  /\ turn' = [turn EXCEPT ![c] = 1 + Cardinality({d \in Calls : turn[d] # 0})]
  /\ Goto(c, "handler")
  /\ UNCHANGED <<builtin, fn, popped, announced, reported, crossed>>

RestDrained(stack) == <<>>                     \* mutant: drain() for pop()
RestPeeked(stack) == stack                     \* mutant: last() for pop()
Rest(stack) == SubSeq(stack, 1, Len(stack) - 1)

(* on_return up to its first await: the entry on top is taken; if there is  *)
(* none the hook returns at once and reports nothing.                       *)
Pop(c) ==
  /\ pc[c] = "handler"
  /\ LET f == fn[c]
         later == {d \in Serving(f) : turn[d] > turn[c]}
     IN /\ crossed' = IF later = {} THEN crossed ELSE crossed \union later \union {c}
        /\ IF pending[f] = <<>>
           THEN Goto(c, "returned") /\ UNCHANGED <<pending, popped>>
           ELSE /\ popped' = [popped EXCEPT ![c] = pending[f][Len(pending[f])]]
                /\ pending' = [pending EXCEPT ![f] = Rest(@)]
                /\ Goto(c, "reporting")
  /\ UNCHANGED <<builtin, fn, announced, reported, turn>>

(* The end time is there: on_end, or export.                                *)
Report(c) ==
  /\ pc[c] = "reporting"
  /\ reported' = [reported EXCEPT ![c] = popped[c]]
  /\ Goto(c, "returned")
  /\ UNCHANGED <<builtin, fn, pending, popped, announced, turn, crossed>>

Terminated == (\A c \in Calls : pc[c] = "returned") /\ UNCHANGED vars

Step(c) == Enter(c) \/ Announce(c) \/ Push(c) \/ Pop(c) \/ Report(c)
Next == (\E c \in Calls : Step(c)) \/ Terminated

Spec == Init /\ [][Next]_vars
(* The engine resumes every hook whose await is over, and the handlers      *)
(* return.                                                                  *)
FairSpec == Spec /\ \A c \in Calls : WF_vars(Step(c))

-----------------------------------------------------------------------------
(* Every variable ranges over what the builtin can put in it; an entry is   *)
(* there for every call that has one to come back to.                       *)
TypeOK ==
  /\ builtin \in {"spans", "metrics"}
  /\ fn \in [Calls -> Fns]
  /\ pc \in [Calls -> {"idle", "minting", "recording", "handler", "reporting", "returned"}]
  /\ pending \in [Fns -> Seq(Calls)]
  /\ popped \in [Calls -> Calls \union {None}]
  /\ announced \subseteq Calls
  /\ reported \in [Calls -> Calls \union {None}]
  /\ turn \in [Calls -> Nat]
  /\ crossed \subseteq Calls

(* "The stack just keeps the failure mode bounded instead of unbounded      *)
(* growth": however calls overlap, the entries of a function are as many as *)
(* its calls between their hooks, none of them twice, and an on-return      *)
(* always finds one (the early return that would lose a span never runs).   *)
Bounded ==
  /\ \A f \in Fns : Len(pending[f]) = Cardinality(Serving(f))
  /\ \A c \in Calls : pc[c] \in {"reporting", "returned"} => popped[c] # None

(* Each entry is reported at most once, for a call of its own function, and *)
(* a span is never ended that the host was not told of.                     *)
ReportedOnce ==
  \A c \in Calls : reported[c] # None =>
    /\ fn[reported[c]] = fn[c]
    /\ builtin = "spans" => reported[c] \in announced
    /\ \A d \in Calls \ {c} : reported[d] # reported[c]

(* "So that recursive invocations of the same name don't clobber each       *)
(* other's contexts": a call whose handler nests with all the others of its *)
(* function reports its own entry, even if others around it were mixed up,  *)
(* and although the hooks of nested calls may overlap.                      *)
NestedCallsPaired ==
  \A c \in Calls \ crossed : popped[c] \in {None, c}

(* Swapped or not, every span the host was told of and every start time     *)
(* taken is reported in the end.                                            *)
EveryEntryReported ==
  \A s \in Calls : s \in announced \/ turn[s] # 0 ~> \E c \in Calls : reported[c] = s
=============================================================================
