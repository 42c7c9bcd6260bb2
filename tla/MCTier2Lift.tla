---------------------------- MODULE MCTier2Lift ----------------------------
(***************************************************************************)
(* Functions for Tier2Lift: every cell kind alone, in each compound, and   *)
(* as a list element; joins that widen; several plans in one call.         *)
(***************************************************************************)
EXTENDS Tier2Lift

B == Prim("bool")
U == Prim("integer")
I == Prim("signed")
L == Prim("integer64")
F == Prim("f32")
D == Prim("f64")
C == Prim("char")
S == Prim("text")
Y == Prim("bytes")
E == WitType("enum", "color", <<"red", "blue">>, <<>>)
G == WitType("flags", "perm", <<"r", "w">>, <<>>)
H == WitType("handle", "res", <<>>, <<>>)
Sole == WitType("enum", "sole", <<"only">>, <<>>)
Rec(a, b) == WitType("record", "rec", <<"x", "y">>, <<a, b>>)
Tup(a, b) == WitType("tuple", "", <<>>, <<a, b>>)
Opt(a) == WitType("option", "", <<>>, <<a>>)
Res(a, b) == WitType("result", "", <<>>, <<a, b>>)
Var(a, b, c) == WitType("variant", "var", <<"p", "q", "z">>, <<a, b, c>>)
Lst(a) == WitType("list", "", <<>>, <<a>>)

Leaves == {B, U, I, L, F, D, C, S, Y, E, G, H}
Pairs == {Res(U, L), Res(F, U), Res(S, L), Res(C, D), Res(Unit, G), Res(Res(U, L), F), Res(Res(F, U), L),
          Res(Rec(U, H), Tup(L, G)), Var(U, Unit, L), Var(S, Rec(G, C), F), Var(H, Opt(L), D),
          Opt(S), Opt(Opt(U)), Rec(E, U), Tup(C, G), Rec(Rec(U, C), G)}
Elems == Leaves \cup {Opt(U), Res(U, L), Rec(U, C), Tup(G, C), Var(U, Unit, H), Tup(H, H),
                     Rec(G, G), Rec(Rec(U, G), E), Opt(Tup(U, C))}
Lists == {Lst(t) : t \in Elems}
Joined == {Res(Res(L, Lst(U)), Res(Lst(H), S)),
           Res(Lst(U), L), Res(Lst(G), Lst(H)), Res(L, Lst(Tup(C, C))), Opt(Lst(C)),
           Var(Lst(H), Lst(Rec(U, G)), L), Tup(Lst(H), H), Rec(Lst(G), G), Tup(Lst(C), Lst(Rec(U, U)))}

One(t) == [params |-> <<t>>, result |-> <<>>, async |-> FALSE]
Ret(t, a) == [params |-> <<>>, result |-> <<t>>, async |-> a]
Two(s, t, u) == [params |-> <<s, t>>, result |-> <<u>>, async |-> FALSE]

Async(ps, r) == [params |-> ps, result |-> r, async |-> TRUE]

\* More flat parameters than an async import takes: the handler is given a record.
Wide == {Async(<<S, U, Res(L, F), G>>, <<Res(F, L)>>), Async(<<Tup(S, H), Opt(S), E>>, <<Opt(C)>>),
         Async(<<Rec(S, I), Var(U, Unit, L), L>>, <<Tup(S, G)>>),
         Async(<<Lst(U), Opt(Res(L, F)), C>>, <<Var(U, S, L)>>),
         Async(<<Res(S, Rec(L, U)), S, B>>, <<>>),
         Async(<<>>, <<WitType("tuple", "", <<>>, [i \in 1..17 |-> Sole])>>)}

AllFunctions ==
  {One(t) : t \in Leaves \cup Pairs \cup Lists \cup Joined}
    \cup {Ret(t, a) : t \in Leaves, a \in BOOLEAN}
    \cup {Two(G, H, C), Two(Rec(U, H), Lst(G), E), Two(Res(S, L), Res(F, L), Lst(H)),
          Two(C, C, G), Two(Tup(G, C), Opt(H), H)}
    \cup Wide

\* The last parameter is a variant whose arms have more flat slots together than
\* the joined ones.
LastVariant == {Async(<<U, U, Res(S, S)>>, <<>>)}

\* An err arm whose number the ok arm's text cell takes for a pointer.
TextArm == {One(Res(S, L)), One(Res(S, U))}
=============================================================================
