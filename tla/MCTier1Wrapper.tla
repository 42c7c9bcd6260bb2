--------------------------- MODULE MCTier1Wrapper ---------------------------
(* Calls one at a time.  poll and touch return nothing (every hook is       *)
(* possible), fetch and poll are async, read returns through memory, size   *)
(* in a local.                                                              *)
EXTENDS Tier1Wrapper

AllHooks == {"before", "blocking", "after"}
=============================================================================
