---------------------------- MODULE CallProtocol ----------------------------
(***************************************************************************)
(* What a tier-1 adapter promises about each call of the interface it      *)
(* wraps (docs/tiers/tier-1.md, "What the generated adapter does"), with   *)
(* no memory, no subtasks and no bump allocator: hooks fire in order, with *)
(* one fresh id per call; a call the middleware refuses never reaches the  *)
(* handler; every other call is forwarded once and returns its own result. *)
(***************************************************************************)
EXTENDS Naturals

CONSTANTS Calls, None

VARIABLES
  hooks,      \* the hooks the middleware exports
  stage,      \* per call: how far it has come
  ident,      \* per call: its call id, 0 before it arrives
  told,       \* what the middleware heard
  delivered,  \* per call: whose result the caller received
  dead        \* the instance was unwound by a trap

pvars == <<hooks, stage, ident, told, delivered, dead>>

PInit ==
  /\ hooks \in SUBSET {"before", "blocking", "after"}
  /\ stage = [c \in Calls |-> "idle"]
  /\ ident = [c \in Calls |-> 0]
  /\ told = {}
  /\ delivered = [c \in Calls |-> None]
  /\ dead = FALSE

Move(c, from, to) == stage[c] \in from /\ stage' = [stage EXCEPT ![c] = to]
Note(c, hook) == told' = told \union {[hook |-> hook, call |-> c, id |-> ident[c]]}

Observed == IF "before" \in hooks THEN {"observed"} ELSE {"called"}
Cleared  == IF "blocking" \in hooks THEN {"allowed"} ELSE Observed
Settled  == IF "after" \in hooks THEN {"reported"} ELSE {"served"}

Arrive(c) ==
  /\ Move(c, {"idle"}, "called")
  /\ \A d \in Calls \ {c} : ident'[c] > ident[d]
  /\ ident' = [ident EXCEPT ![c] = ident'[c]]
  /\ UNCHANGED <<hooks, told, delivered, dead>>

Observe(c) ==
  /\ "before" \in hooks
  /\ Move(c, {"called"}, "observed")
  /\ Note(c, "before")
  /\ UNCHANGED <<hooks, ident, delivered, dead>>

(* The question and its answer are separate: the middleware may take time.  *)
Ask(c, next) ==
  /\ "blocking" \in hooks
  /\ Move(c, Observed, next)
  /\ Note(c, "blocking")
  /\ UNCHANGED <<hooks, ident, delivered, dead>>

Answer(c, next) ==
  /\ Move(c, {"asked"}, next)
  /\ UNCHANGED <<hooks, ident, told, delivered, dead>>

Forward(c, next) ==
  /\ Move(c, Cleared, next)
  /\ UNCHANGED <<hooks, ident, told, delivered, dead>>

Serve(c) ==
  /\ Move(c, {"forwarded"}, "served")
  /\ UNCHANGED <<hooks, ident, told, delivered, dead>>

Report(c) ==
  /\ "after" \in hooks
  /\ Move(c, {"served"}, "reported")
  /\ Note(c, "after")
  /\ UNCHANGED <<hooks, ident, delivered, dead>>

Return(c) ==
  /\ Move(c, Settled, "returned")
  /\ delivered' = [delivered EXCEPT ![c] = c]
  /\ UNCHANGED <<hooks, ident, told, dead>>

Refuse(c) ==
  /\ Move(c, {"denied"}, "refused")
  /\ UNCHANGED <<hooks, ident, told, delivered, dead>>

Die == dead' = TRUE /\ UNCHANGED <<hooks, stage, ident, told, delivered>>

PNext ==
  /\ ~dead
  /\ \/ Die
     \/ \E c \in Calls :
          \/ Arrive(c) \/ Observe(c)
          \/ \E n \in {"asked", "allowed", "denied"} : Ask(c, n)
          \/ \E n \in {"allowed", "denied"} : Answer(c, n)
          \/ \E n \in {"forwarded", "served"} : Forward(c, n)
          \/ Serve(c) \/ Report(c) \/ Return(c) \/ Refuse(c)

PSpec == PInit /\ [][PNext]_pvars
=============================================================================
