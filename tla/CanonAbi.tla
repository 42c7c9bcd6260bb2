------------------------------ MODULE CanonAbi ------------------------------
(***************************************************************************)
(* WIT types, their flat form, and the two conversions splicer generates   *)
(* code for: memory to flat values and flat values to memory               *)
(* (src/adapter/abi/bindgen.rs, compat.rs).  A type is a record            *)
(* [k, nm, items, sub]: its kind, its WIT name, the names of its fields,   *)
(* cases or flags, and its component types.                                *)
(*                                                                         *)
(* Numbers are bit patterns.  An i32 or f32 holds less than Word, an i64   *)
(* or f64 holds more; Word is small here, so that wrapping shows.  Memory  *)
(* is counted in units: a leaf takes one, a string or list two.            *)
(***************************************************************************)
EXTENDS Integers, Sequences, SequencesExt, FiniteSets, TLC

Word == 256

\* FoldLeft, as a recursive function over the positions of the sequence: TLC then
\* evaluates the constant tables built with it once.
Reduce(op(_, _), start, seq) ==
  LET upto[i \in 0..Len(seq)] == IF i = 0 THEN start ELSE op(upto[i - 1], seq[i])
  IN  upto[Len(seq)]

WitType(k, nm, items, sub) == [k |-> k, nm |-> nm, items |-> items, sub |-> sub]
Prim(k) == WitType(k, "", <<>>, <<>>)
Unit == Prim("unit")              \* the absent payload of a result or a case

Slices == {"text", "bytes", "list"}
Products == {"record", "tuple"}
Sums == {"option", "result", "variant"}

\* The payload types of a sum, by discriminant.
Arms(t) == IF t.k = "option" THEN <<Unit>> \o t.sub ELSE t.sub

-----------------------------------------------------------------------------
(* Flat types.                                                             *)

Join(a, b) ==
  IF a = b THEN a ELSE IF {a, b} = {"i32", "f32"} THEN "i32" ELSE "i64"

JoinAll(a, b) ==
  [i \in 1..(IF Len(a) > Len(b) THEN Len(a) ELSE Len(b)) |->
     IF i > Len(a) THEN b[i] ELSE IF i > Len(b) THEN a[i] ELSE Join(a[i], b[i])]

\* The wasm type of a leaf.
ArmType(k) ==
  CASE k = "integer64" -> "i64" [] k = "f32" -> "f32" [] k = "f64" -> "f64"
    [] OTHER -> "i32"

RECURSIVE FlatTypes(_)
FlatTypes(t) ==
  CASE t.k = "unit" -> <<>>
    [] t.k \in Slices -> <<"i32", "i32">>
    [] t.k \in Products -> FlattenSeq([i \in DOMAIN t.sub |-> FlatTypes(t.sub[i])])
    [] t.k \in Sums ->
         <<"i32">> \o Reduce(LAMBDA acc, s : JoinAll(acc, FlatTypes(s)), <<>>, Arms(t))
    [] OTHER -> <<ArmType(t.k)>>

Width(t) == Len(FlatTypes(t))

\* The instructions a cast becomes: wrap on the way from 64 to 32 bits, extend
\* by zero on the way up, reinterpret otherwise.
Cast(v, from, to) ==
  IF from \in {"i64", "f64"} /\ to \in {"i32", "f32"} THEN v % Word ELSE v

-----------------------------------------------------------------------------
(* The canonical ABI's own view: size in memory, image in memory, lowered  *)
(* flat values.  A value is [d, kids], its strings and lists already       *)
(* placed: d is then their address.                                        *)

RECURSIVE Size(_)
Size(t) ==
  CASE t.k = "unit" -> 0
    [] t.k \in Slices -> 2
    [] t.k \in Products -> Reduce(LAMBDA acc, s : acc + Size(s), 0, t.sub)
    [] t.k \in Sums ->
         1 + Reduce(LAMBDA acc, s : IF Size(s) > acc THEN Size(s) ELSE acc, 0, t.sub)
    [] OTHER -> 1

\* Where the i-th field of a product lies.
FieldOffset(t, i) == Reduce(LAMBDA acc, s : acc + Size(s), 0, SubSeq(t.sub, 1, i - 1))

LenOf(t, v) == IF t.k = "list" THEN Len(v.kids) ELSE 1
Bits(t, v) == IF t.k = "signed" THEN v.d % Word ELSE v.d
\* The payload of a sum's value, a sequence of at most one.
Payload(t, v) == IF Arms(t)[v.d + 1].k = "unit" THEN <<>> ELSE v.kids

RECURSIVE Image(_, _, _)
Image(t, v, a) ==
  CASE t.k = "unit" -> <<>>
    [] t.k \in Slices -> (a :> [w |-> v.d]) @@ ((a + 1) :> [w |-> LenOf(t, v)])
    [] t.k \in Products ->
         Reduce(LAMBDA acc, i : Image(t.sub[i], v.kids[i], a + FieldOffset(t, i)) @@ acc,
                  <<>>, [i \in DOMAIN t.sub |-> i])
    [] t.k \in Sums ->
         (a :> [w |-> v.d]) @@ Reduce(LAMBDA acc, x : Image(Arms(t)[v.d + 1], x, a + 1),
                                        <<>>, Payload(t, v))
    [] OTHER -> a :> [w |-> Bits(t, v)]

RECURSIVE Flat(_, _)
Flat(t, v) ==
  CASE t.k = "unit" -> <<>>
    [] t.k \in Slices -> <<v.d, LenOf(t, v)>>
    [] t.k \in Products -> FlattenSeq([i \in DOMAIN t.sub |-> Flat(t.sub[i], v.kids[i])])
    [] t.k \in Sums ->
         LET pay == Reduce(LAMBDA acc, x : Flat(Arms(t)[v.d + 1], x), <<>>, Payload(t, v))
         IN  [i \in 1..Width(t) |->
                IF i = 1 THEN v.d ELSE IF i - 1 \in DOMAIN pay THEN pay[i - 1] ELSE 0]
    [] OTHER -> <<Bits(t, v)>>

-----------------------------------------------------------------------------
(* Memory to flat values: lift_from_memory driven through the bindgen.     *)

\* The word at an address of memory m; nothing the program put there is Junk.
Junk == 77
WordAt(m, a) == IF a \in DOMAIN m /\ "w" \in DOMAIN m[a] THEN m[a].w ELSE Junk

LiftSumUnpadded(t, disc, arm) ==   \* mutant: the slots behind the arm's are not zeroed
  [i \in 1..Width(t) |->
     IF i = 1 THEN disc ELSE IF i - 1 \in DOMAIN arm THEN arm[i - 1] ELSE Junk]

\* emit_variant_dispatch: the arm the discriminant names, each of its values
\* cast to the joined type, the slots it does not fill zero; a discriminant
\* without an arm traps.
LiftSum(t, disc, arm) ==
  LET joined == FlatTypes(t)
      flat == FlatTypes(Arms(t)[disc + 1])
  IN  [i \in DOMAIN joined |->
         IF i = 1 THEN disc
         ELSE IF i - 1 \in DOMAIN flat THEN Cast(arm[i - 1], flat[i - 1], joined[i]) ELSE 0]

RECURSIVE LoadFlat(_, _, _)
LoadFlat(t, a, m) ==
  CASE t.k = "unit" -> <<>>
    [] t.k \in Slices -> <<WordAt(m, a), WordAt(m, a + 1)>>
    [] t.k \in Products ->
         FlattenSeq([i \in DOMAIN t.sub |-> LoadFlat(t.sub[i], a + FieldOffset(t, i), m)])
    [] t.k \in Sums ->
         LET disc == WordAt(m, a) IN
         IF disc + 1 \in DOMAIN Arms(t)
         THEN LiftSum(t, disc, LoadFlat(Arms(t)[disc + 1], a + 1, m))
         ELSE [i \in 1..Width(t) |-> Junk]
    [] OTHER -> <<WordAt(m, a)>>

-----------------------------------------------------------------------------
(* Flat values to memory: lower_to_memory driven through the bindgen.      *)

ArmLocalsFromDisc(t, disc, slots) ==   \* mutant: reads from the discriminant's slot on
  [m \in DOMAIN FlatTypes(Arms(t)[disc + 1]) |-> slots[m]]

\* The locals an arm reads, loaded from the joined slots and cast back.
ArmLocals(t, disc, slots) ==
  LET flat == FlatTypes(Arms(t)[disc + 1])
  IN  [m \in DOMAIN flat |-> Cast(slots[1 + m], FlatTypes(t)[1 + m], flat[m])]

RECURSIVE Lower(_, _, _)
Lower(t, slots, a) ==
  CASE t.k = "unit" -> <<>>
    [] t.k \in Slices -> (a :> [w |-> slots[1]]) @@ ((a + 1) :> [w |-> slots[2]])
    [] t.k \in Products ->
         Reduce(LAMBDA acc, i :
           LET from == Reduce(LAMBDA n, s : n + Width(s), 0, SubSeq(t.sub, 1, i - 1))
           IN  Lower(t.sub[i], SubSeq(slots, from + 1, from + Width(t.sub[i])),
                     a + FieldOffset(t, i)) @@ acc,
           <<>>, [i \in DOMAIN t.sub |-> i])
    [] t.k \in Sums ->
         (a :> [w |-> slots[1]])
           @@ Lower(Arms(t)[slots[1] + 1], ArmLocals(t, slots[1], slots), a + 1)
    [] OTHER -> a :> [w |-> slots[1]]

\* The cursor over the wrapper's parameters while the stores are generated:
\* [at, far], where it stands and the furthest it was.  An arm starts where
\* the one before it stopped; after the arms it is set behind the joined slots.
Furthest(a, b) == IF a > b THEN a ELSE b

RECURSIVE Capture(_, _)
Capture(t, cur) ==
  CASE t.k \in Products -> Reduce(LAMBDA acc, s : Capture(s, acc), cur, t.sub)
    [] t.k \in Sums ->
         LET arms == Reduce(LAMBDA acc, s : Capture(s, acc), cur, Arms(t))
             end == cur.at + Width(t)
         IN  [at |-> end, far |-> Furthest(arms.far, end)]
    [] OTHER -> LET end == cur.at + Width(t)
                IN  [at |-> end, far |-> Furthest(cur.far, end)]
=============================================================================
