------------------------------ MODULE LiftPlan ------------------------------
(***************************************************************************)
(* Build-time half of the tier-2 lift: how a WIT type becomes a LiftPlan,  *)
(* the flat vector of cells a wrapper will write, and the side data of     *)
(* every cell (src/adapter/tier2/lift/plan.rs, lift/sidetable, the         *)
(* element walk of lift/emit.rs).  Cell positions and flat slots count     *)
(* from 0 as in the code, so cell i is cells[i + 1].                       *)
(***************************************************************************)
EXTENDS CanonAbi

-----------------------------------------------------------------------------
(* The builder.  A step returns the builder and the index of the cell it   *)
(* pushed; None stands for the cell of a payload that is absent.           *)

None == -1

NewBuilder == [cells |-> <<>>, next |-> 0, widen |-> <<>>, lists |-> 0,
               guards |-> <<>>, error |-> FALSE]

BumpFlatSlot(b) ==
  [b EXCEPT !.next = @ + 1,
            !.widen = IF Len(@) < b.next + 1 THEN Append(@, "none") ELSE @]

\* A cell: its kind, the slots it reads, its names, its children.
Cell(c, slot, t, kids) ==
  [c |-> c, slot |-> slot, nm |-> t.nm, items |-> t.items, kids |-> kids]

PushCell(b, cell) == [b |-> [b EXCEPT !.cells = Append(@, cell)], idx |-> Len(b.cells)]

\* The leaves, one slot or (ptr, len).
PushLeaf(b, t) == PushCell(BumpFlatSlot(b), Cell(t.k, b.next, t, <<>>))
PushSlice(b, t) == PushCell(BumpFlatSlot(BumpFlatSlot(b)), Cell(t.k, b.next, t, <<>>))

RecordArmWideningFromDisc(b, arm, base, joined) ==   \* mutant: counts from the discriminant
  LET flat == FlatTypes(arm) IN
  [b EXCEPT !.widen = [i \in DOMAIN @ |->
     LET k == i - base IN IF k \in DOMAIN flat /\ flat[k] # joined[k] THEN joined[k] ELSE @[i]]]

\* record_arm_widening: stamp the joined type where this arm differs from it.
RecordArmWidening(b, arm, base, joined) ==
  LET flat == FlatTypes(arm) IN
  [b EXCEPT !.widen = [i \in DOMAIN @ |->
     LET k == i - base IN
     IF k \in DOMAIN flat /\ flat[k] # joined[1 + k] THEN joined[1 + k] ELSE @[i]]]

Later(a, b) == IF a > b THEN a ELSE b

RECURSIVE Push(_, _)

\* The children of a record or tuple, in order: [b, kids].
PushAll(b, ts) ==
  Reduce(LAMBDA acc, t : LET r == Push(acc.b, t) IN
                           [b |-> r.b, kids |-> Append(acc.kids, r.idx)],
           [b |-> b, kids |-> <<>>], ts)

\* One arm, walked under its guard from the slot the arms share; a unit arm has
\* no cell.
PushArm(b, disc, base, arm, d) ==
  LET guarded == [b EXCEPT !.next = base,
                           !.guards = Append(@, [slot |-> disc, disc |-> d])]
  IN  IF arm.k = "unit" THEN [b |-> guarded, idx |-> None] ELSE Push(guarded, arm)

\* Behind an arm: the slots its siblings widened are stamped, its guard is gone,
\* and the arms end where the longest one does.
AfterArm(acc, base, joined, arm, r) ==
  [b |-> [RecordArmWidening(r.b, arm, base, joined)
            EXCEPT !.guards = acc.b.guards, !.next = Later(acc.b.next, r.b.next)],
   kids |-> Append(acc.kids, r.idx)]

\* The arms in order, each from the arms' base: [b, kids].
PushDiscArms(b, disc, base, joined, arms) ==
  Reduce(LAMBDA acc, i : AfterArm(acc, base, joined, arms[i],
                                  PushArm(acc.b, disc, base, arms[i], i - 1)),
           [b |-> b, kids |-> <<>>], [i \in DOMAIN arms |-> i])

\* A compound cell goes behind its children r.
PushOver(c, slot, t, r) == PushCell(r.b, Cell(c, slot, t, r.kids))

PushRecord(b, t) == PushOver("record", None, t, PushAll(b, t.sub))
PushTuple(b, t) == PushOver("tuple", None, t, PushAll(b, t.sub))

\* No guard: the payload slots of an option are its own.
PushOption(b, t) == PushOver("option", b.next, t, PushAll(BumpFlatSlot(b), t.sub))

PushDisc(b, t) ==
  PushDiscArms(BumpFlatSlot(b), b.next, b.next + 1, FlatTypes(t), t.sub)

\* The cell of a result holds its two arms, that of a variant one per case.
PushResult(b, t) == PushOver("result", b.next, t, PushDisc(b, t))
PushVariant(b, t) == PushOver("variant", b.next, t, PushDisc(b, t))

\* own, borrow, stream, future and error-context: an i32 handle.
PushHandle(b, t) == PushCell(BumpFlatSlot(b), Cell("handle", b.next, t, <<>>))

AllowedInList(cells) == \A i \in DOMAIN cells : cells[i].c # "list"

\* The element plan has a builder of its own; a nested list is refused.
PlanOver(t, e) ==
  [cells |-> e.b.cells, slots |-> e.b.next, widen |-> e.b.widen, root |-> e.idx,
   error |-> e.b.error, ty |-> t]

PushListCell(b, elem) ==
  PushCell([BumpFlatSlot(BumpFlatSlot(b)) EXCEPT
              !.lists = @ + 1, !.error = @ \/ elem.error \/ ~AllowedInList(elem.cells)],
           [c |-> "list", slot |-> b.next, nm |-> "", items |-> <<>>, kids |-> <<>>,
            list |-> b.lists, elem |-> elem, guards |-> b.guards])

PushListOf(b, t) == PushListCell(b, PlanOver(t.sub[1], Push(NewBuilder, t.sub[1])))

Push(b, t) ==
  CASE t.k \in {"text", "bytes"} -> PushSlice(b, t)
    [] t.k = "record" -> PushRecord(b, t)
    [] t.k = "tuple" -> PushTuple(b, t)
    [] t.k = "option" -> PushOption(b, t)
    [] t.k = "result" -> PushResult(b, t)
    [] t.k = "variant" -> PushVariant(b, t)
    [] t.k = "handle" -> PushHandle(b, t)
    [] t.k = "list" -> PushListOf(b, t)
    [] OTHER -> PushLeaf(b, t)

\* LiftPlan::for_type.
PlanFor(t) == PlanOver(t, Push(NewBuilder, t))

-----------------------------------------------------------------------------
(* Side data.  The cells of a kind are numbered, and their scratch laid    *)
(* out, in plan order: the k-th cell starts at the sum of the sizes of     *)
(* those before it.  The outer plan and every element plan count alone.    *)

SumOver(cells, n, Units(_)) == Reduce(LAMBDA acc, c : acc + Units(c), 0, SubSeq(cells, 1, n))

CharUnits(c) == IF c.c = "char" THEN 1 ELSE 0
FlagNames(c) == IF c.c = "flags" THEN Len(c.items) ELSE 0
FieldTuples(c) == IF c.c = "record" THEN Len(c.kids) ELSE 0
TupleSlots(c) == IF c.c = "tuple" THEN Len(c.kids) ELSE 0

Sections == {"char", "flagnames", "fieldtuples", "tupleidx"}
SizeIn(sec, c) ==
  CASE sec = "char" -> CharUnits(c) [] sec = "flagnames" -> FlagNames(c)
    [] sec = "fieldtuples" -> FieldTuples(c) [] sec = "tupleidx" -> TupleSlots(c)

\* Offset of cell i's part of a section, and the section's whole size.
OffsetIn(sec, cells, i) == SumOver(cells, i, LAMBDA c : SizeIn(sec, c))
SectionSize(sec, cells) == OffsetIn(sec, cells, Len(cells))

InfoKinds == {"handle", "flags", "record", "variant"}
\* Entry number of cell i among the cells of its kind, and their count.
EntryIdx(k, cells, i) == SumOver(cells, i, LAMBDA c : IF c.c = k THEN 1 ELSE 0)
InfoCount(k, cells) == EntryIdx(k, cells, Len(cells))

ListCells(plan) == SelectSeq(plan.cells, LAMBDA c : c.c = "list")
HasListElem(k, plan) ==
  \E i \in DOMAIN plan.cells :
     plan.cells[i].c = "list" /\ InfoCount(k, plan.cells[i].elem.cells) > 0

\* visit_enum_cases: the plan's own, and those of its list elements.
RECURSIVE EnumCells(_)
EnumCells(cells) ==
  FlattenSeq([i \in DOMAIN cells |->
    CASE cells[i].c = "enum" -> <<cells[i]>>
      [] cells[i].c = "list" -> EnumCells(cells[i].elem.cells)
      [] OTHER -> <<>>])

\* sole_enum_case: with several enums the last visited one is taken.
SoleEnumCase(cells) == Last(EnumCells(cells))

\* One entry per case, its index the discriminant.
EnumInfos(cells) ==
  IF EnumCells(cells) = <<>> THEN <<>>
  ELSE LET e == SoleEnumCase(cells)
       IN  [i \in DOMAIN e.items |-> [nm |-> e.nm, case |-> e.items[i]]]
=============================================================================
