--------------------------- MODULE MCTier2Wrapper ---------------------------
(* Three calls of one adapter, two of which may be in flight.               *)
EXTENDS Tier2Wrapper

CONSTANTS c1, c2, c3

(* Calls are interchangeable, so they may as well arrive in order.          *)
InOrder == /\ pc'[c2] # "new" => pc[c1] # "new"
           /\ pc'[c3] # "new" => pc[c2] # "new"

(* The last call finds a callee busy only when the others are done; it may  *)
(* wait for an answer while they are there.                                 *)
LastStarts == await'[c3] = "starting" => \A c \in {c1, c2} : pc[c] = "done"

CallsSpec == Init /\ [][Next /\ InOrder /\ LastStarts]_vars
=============================================================================
