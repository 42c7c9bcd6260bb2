----------------------------- MODULE MCOtelBare -----------------------------
(***************************************************************************)
(* Overlapping and recursive calls of two functions behind one builtin.    *)
(***************************************************************************)
EXTENDS OtelBare
=============================================================================
