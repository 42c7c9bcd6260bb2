----------------------------- MODULE MCCompose -----------------------------
(***************************************************************************)
(* Three components: every way to export and import three interfaces of    *)
(* one type each, and small families for the other errors.                 *)
(***************************************************************************)
EXTENDS Compose

Comps3  == 1..3
Ifaces3 == 1..3
Types2  == {"f", "g"}
Names2  == {"a", "b", "c"}

Distinct == [c \in Comps3 |-> IF c = 1 THEN "a" ELSE IF c = 2 THEN "b" ELSE "c"]
Have(sets, t) == [c \in Comps3 |-> [i \in Ifaces3 |-> IF i \in sets[c] THEN t ELSE Absent]]

\* Every dependency pattern.  The interfaces are interchangeable, so their
\* exporters (0: the host) are taken in rising order.
Exporters == {e \in [Ifaces3 -> 0..3] : e[1] <= e[2] /\ e[2] <= e[3]}
Patterns ==
  {[name |-> Distinct,
    exports |-> Have([c \in Comps3 |-> {i \in Ifaces3 : e[i] = c}], "f"),
    imports |-> Have(m, "f")] : e \in Exporters, m \in [Comps3 -> SUBSET Ifaces3]}

\* One interface, every fingerprint on either side, by any exporters.
Prints1 == [Comps3 -> {Absent, Unknown, "f", "g"}]
On1(p) == [c \in Comps3 |-> [i \in Ifaces3 |-> IF i = 1 THEN p[c] ELSE Absent]]
Fingerprints ==
  {[name |-> Distinct, exports |-> On1(p), imports |-> On1(q)] : p \in Prints1, q \in Prints1}

\* Any names, on components that compose.
Named ==
  {[name |-> n, exports |-> On1([c \in Comps3 |-> IF c = 1 THEN "f" ELSE Absent]),
    imports |-> On1([c \in Comps3 |-> IF c = 3 THEN "f" ELSE Absent])] :
     n \in [Comps3 -> Names2]}

Given == Patterns \union Fingerprints \union Named
=============================================================================
