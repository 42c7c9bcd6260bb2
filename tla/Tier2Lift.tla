------------------------------ MODULE Tier2Lift ------------------------------
(***************************************************************************)
(* Run-time half of the tier-2 lift: one wrapper call, from the lowered    *)
(* arguments to the field-trees the middleware's hooks read                *)
(* (src/adapter/tier2/wrapper_body.rs, lift/emit.rs, cells.rs, layout.rs). *)
(* The wrapper lifts its parameters plan by plan, calls on-call, forwards, *)
(* lifts the result with the same registers, calls on-return.              *)
(*                                                                         *)
(* Memory is one address space in units: a cell, a side-table entry, an    *)
(* index, a name or a text takes one, a value its Size, at an address the  *)
(* static layout or the bump allocator gave it.  A value is a record       *)
(* [d, kids]: its number (content, discriminant or bit set) and its parts. *)
(***************************************************************************)
EXTENDS LiftPlan

CONSTANTS Given,    \* set of [params |-> types, result |-> types (0 or 1), async]
          Numbers,  \* numbers a 64-bit leaf may hold
          MaxLen,   \* longest list in a value
          MemEnd    \* size of the adapter's memory, above all it allocates

VARIABLES sig,      \* the function being wrapped
          vals,     \* values of its parameters, then of its result
          placed,   \* the same, as far as they are in memory
          phase,    \* where the wrapper body is
          p,        \* plan being lifted: a parameter, or the result after them
          cell,     \* next outer cell of that plan
          loop,     \* element loop of the current list: [j, pos, reg, flats]
          locals,   \* flat slots: the parameters', then the result's
          mem, top, \* linear memory, bump pointer
          next,     \* running counts: cells, and entries per kind
          base,     \* cells_base and the *_info_base registers
          lists,    \* per-list locals of the plan
          regs,     \* scratch registers of widened reads
          trees     \* field-tree records the hooks are given

vars == <<sig, vals, placed, phase, p, cell, loop, locals, mem, top, next, base, lists, regs, trees>>

Types == UNION {ToSet(s.params) \cup ToSet(s.result) : s \in Given}
PlanTable == [t \in Types |-> PlanFor(t)]

-----------------------------------------------------------------------------
(* Values, and how the canonical ABI puts them in memory and flat slots.   *)

LeafValues(t) ==
  CASE t.k = "bool" -> {0, 1}
    [] t.k = "enum" -> 0..(Len(t.items) - 1)
    [] t.k = "flags" -> 0..(2^Len(t.items) - 1)
    [] t.k = "signed" -> {1, -1}
    [] t.k = "integer64" -> Numbers
    [] OTHER -> {1, 2}

RECURSIVE Values(_), Tuples(_)
Tuples(ts) ==
  IF ts = <<>> THEN {<<>>}
  ELSE {<<v>> \o r : v \in Values(Head(ts)), r \in Tuples(Tail(ts))}

Values(t) ==
  CASE t.k \in Products -> {[d |-> 0, kids |-> k] : k \in Tuples(t.sub)}
    [] t.k \in Sums ->
         UNION {{[d |-> i - 1, kids |-> k] :
                   k \in IF Arms(t)[i].k = "unit" THEN {<<>>}
                         ELSE {<<v>> : v \in Values(Arms(t)[i])}} : i \in DOMAIN Arms(t)}
    [] t.k = "list" ->
         {[d |-> 0, kids |-> k] :
            k \in UNION {[1..n -> Values(t.sub[1])] : n \in 0..MaxLen}}
    [] OTHER -> {[d |-> d, kids |-> <<>>] : d \in LeafValues(t)}

\* The type of a value's i-th part.
PartType(t, v, i) ==
  CASE t.k = "list" -> t.sub[1] [] t.k \in Sums -> Arms(t)[v.d + 1] [] OTHER -> t.sub[i]

\* Allocate what v points at: texts and list buffers.  The placed value has
\* addresses where v has texts and lists.
RECURSIVE Place(_, _, _)
PlaceAll(types, vs, m) ==
  Reduce(LAMBDA acc, i : LET r == Place(types[i], vs[i], acc.m)
                         IN  [kids |-> Append(acc.kids, r.v), m |-> r.m],
         [kids |-> <<>>, m |-> m], [i \in DOMAIN vs |-> i])

Place(t, v, m) ==
  IF t.k \in {"text", "bytes"}
  THEN [v |-> [d |-> m.top, kids |-> <<>>],
        m |-> [mem |-> (m.top :> [txt |-> v.d]) @@ m.mem, top |-> m.top + 1]]
  ELSE LET each == IF t.k = "list" THEN Size(t.sub[1]) ELSE 0
           all == PlaceAll([i \in DOMAIN v.kids |-> PartType(t, v, i)], v.kids,
                           [m EXCEPT !.top = @ + Len(v.kids) * each])
           buf == Reduce(LAMBDA acc, i :
                    Image(t.sub[1], all.kids[i], m.top + (i - 1) * each) @@ acc,
                    all.m.mem, [i \in DOMAIN v.kids |-> i])
       IN  IF t.k = "list"
           THEN [v |-> [d |-> m.top, kids |-> all.kids], m |-> [all.m EXCEPT !.mem = buf]]
           ELSE [v |-> [d |-> v.d, kids |-> all.kids], m |-> all.m]

-----------------------------------------------------------------------------
(* Static layout: scratch and baked tables of every plan, in this order.   *)

NumPlans == Len(sig.params) + Len(sig.result)
TypeOf(s, q) == (s.params \o s.result)[q]
PlanOf(s, q) == PlanTable[TypeOf(s, q)]

\* An async import takes more than four flat parameters through a record.
MaxFlatAsync == 4
MaxFlat == 16
ParamWidth(s) == Reduce(LAMBDA acc, t : acc + Width(t), 0, s.params)
IndirectParams(s) == s.async /\ ParamWidth(s) > MaxFlatAsync

\* Generating the stores of such a record fails if the cursor over the wrapper's
\* parameters runs past the last of them.
LowerPanics(s) ==
  /\ IndirectParams(s)
  /\ Reduce(LAMBDA cur, t : Capture(t, cur), [at |-> 0, far |-> 0], s.params).far > ParamWidth(s)

\* A result returns in a local if it is sync and one flat value; the whitelisted
\* leaves are lifted from there.  Every other one is at the retptr.
AtRetptr(s) == s.async \/ Width(s.result[1]) > 1

StaticSecs == <<"flagnames", "char", "fieldtuples", "enums", "tupleidx", "retptr", "params">>
StaticSize(s, sec, q) ==
  LET isParam == q <= Len(s.params) IN
  CASE sec = "enums" -> Len(EnumInfos(PlanOf(s, q).cells))
    [] sec = "retptr" -> IF ~isParam /\ AtRetptr(s) THEN Size(TypeOf(s, q)) ELSE 0
    [] sec = "params" -> IF isParam /\ IndirectParams(s) THEN Size(TypeOf(s, q)) ELSE 0
    [] OTHER -> SectionSize(sec, PlanOf(s, q).cells)

\* The parts in layout order, section by section; where each starts is the sum
\* of the sizes before it.
Layout ==
  [s \in Given |->
     LET n == Len(s.params \o s.result)
         size(x) == StaticSize(s, StaticSecs[(x - 1) \div n + 1], ((x - 1) % n) + 1)
         ends == Reduce(LAMBDA acc, x : Append(acc, Last(acc) + size(x)), <<0>>,
                          [x \in 1..(n * Len(StaticSecs)) |-> x])
     IN  [sec \in ToSet(StaticSecs) |->
            [q \in 1..(n + 1) |->
               ends[n * ((CHOOSE i \in DOMAIN StaticSecs : StaticSecs[i] = sec) - 1) + q]]]]

StaticAt(s, sec, q) == Layout[s][sec][q]
StaticEnd(s) == Layout[s]["params"][Len(s.params \o s.result) + 1]

\* The tables baked into the data segments.
Baked(s, q) ==
  LET cells == PlanOf(s, q).cells
      rows(sec, Row(_, _)) ==
        Reduce(LAMBDA acc, i :
          LET at == StaticAt(s, sec, q) + OffsetIn(sec, cells, i - 1)
          IN  [a \in at..(at + SizeIn(sec, cells[i]) - 1) |-> Row(cells[i], a - at + 1)] @@ acc,
          <<>>, [i \in DOMAIN cells |-> i])
      enums == EnumInfos(cells)
      at == StaticAt(s, "enums", q)
  IN  rows("fieldtuples", LAMBDA c, f : [name |-> c.items[f], idx |-> c.kids[f]])
      @@ rows("tupleidx", LAMBDA c, f : [idx |-> c.kids[f]])
      @@ [a \in at..(at + Len(enums) - 1) |-> enums[a - at + 1]]

BakedTable ==
  [s \in Given |-> Reduce(LAMBDA acc, q : Baked(s, q) @@ acc, <<>>,
                          [q \in DOMAIN (s.params \o s.result) |-> q])]

\* The field record of a plan before any call: pointers 0, static lengths.
BlankTree(s, q) ==
  [k \in InfoKinds |-> [ptr |-> 0, len |-> InfoCount(k, PlanOf(s, q).cells)]]
    @@ [cells |-> [ptr |-> 0, len |-> Len(PlanOf(s, q).cells)],
        enums |-> [ptr |-> StaticAt(s, "enums", q), len |-> StaticSize(s, "enums", q)],
        root |-> PlanOf(s, q).root]

IsDirect(s, q) == q > Len(s.params) /\ ~AtRetptr(s)

-----------------------------------------------------------------------------
(* Where the wrapper is: the plan, its flat slots, the element loop.       *)

Plan == PlanOf(sig, p)
\* local_base: parameters follow each other, the result has locals of its own.
LocalBase ==
  IF p > Len(sig.params)
  THEN Len(locals) - Width(TypeOf(sig, p))
  ELSE Reduce(LAMBDA acc, t : acc + PlanTable[t].slots, 0, SubSeq(sig.params, 1, p - 1))
Flats == SubSeq(locals, LocalBase + 1, LocalBase + Plan.slots)
OuterCell == Plan.cells[cell + 1]
ListHere == lists[OuterCell.list]

\* The context a cell is emitted in (PlanCursor and its side data): cell base,
\* entry base per kind, scratch base per section.
OuterCtx ==
  [plan |-> Plan, flats |-> Flats, child |-> 0,
   entry |-> [k \in InfoKinds |-> 0],
   sec |-> [s \in Sections |-> StaticAt(sig, s, p)]]

ElemCtx ==
  LET e == OuterCell.elem IN
  [plan |-> e, flats |-> loop.flats, child |-> ListHere.start + loop.j * Len(e.cells),
   entry |-> [k \in InfoKinds |-> ListHere.slot[k] + loop.j * InfoCount(k, e.cells)],
   sec |-> [s \in Sections |-> ListHere.buf[s] + loop.j * SectionSize(s, e.cells)]]

\* A slot read as arm type: a widened one is cast back from the joined type.
ReadSlot(plan, flats, slot, arm) ==
  LET joined == plan.widen[slot + 1]
  IN  IF joined = "none" THEN flats[slot + 1] ELSE Cast(flats[slot + 1], joined, arm)

\* pin_leaf_flat: the cast value goes through a scratch register.
Register(plan, slot, arm, scratch) ==
  IF plan.widen[slot + 1] \in {"none", arm} THEN "local" ELSE scratch
Scratch(arm) ==
  CASE arm = "i64" -> "ext64" [] arm = "f32" -> "f32" [] arm = "f64" -> "ext_f64"
    [] OTHER -> "i32_a"
Pin(rg, ctx, slot, arm, scratch) ==
  LET r == Register(ctx.plan, slot, arm, scratch)
  IN  IF r = "local" THEN rg
      ELSE [rg EXCEPT ![r] = ReadSlot(ctx.plan, ctx.flats, slot, arm)]

\* Registers after cell c has read its slots (option, result and variant read
\* their discriminant, records and tuples read nothing).
RegsAfter(ctx, c) ==
  CASE c.c \in {"record", "tuple"} -> regs
    [] c.c \in {"text", "bytes"} ->
         Pin(Pin(regs, ctx, c.slot, "i32", "i32_a"), ctx, c.slot + 1, "i32", "i32_b")
    [] OTHER -> Pin(regs, ctx, c.slot, ArmType(c.c), Scratch(ArmType(c.c)))

GuardsHoldInnermost(plan, flats, guards) ==   \* mutant: the enclosing arms are not asked
  \A i \in DOMAIN guards :
    i = Len(guards) => ReadSlot(plan, flats, guards[i].slot, "i32") = guards[i].disc

GuardsHold(plan, flats, guards) ==
  \A i \in DOMAIN guards : ReadSlot(plan, flats, guards[i].slot, "i32") = guards[i].disc

-----------------------------------------------------------------------------
(* What emitting one cell writes (emit_cell_op): the cell, its side-table  *)
(* entry, its scratch.  A cell is [c, v, ptr, len, opt].                   *)

CellVal(c, v) == [c |-> c, v |-> v, ptr |-> 0, len |-> 0, opt |-> <<>>]
CellSlice(c, ptr, len) == [c |-> c, v |-> 0, ptr |-> ptr, len |-> len, opt |-> <<>>]
CellOpt(c, opt) == [c |-> c, v |-> 0, ptr |-> 0, len |-> 0, opt |-> opt]

ChildOptRelative(ctx, kid) ==   \* mutant: the element's first cell is not added
  IF kid = None THEN <<>> ELSE <<kid>>

\* Child indices are plan-relative; an absent payload has none.
ChildOpt(ctx, kid) == IF kid = None THEN <<>> ELSE <<ctx.child + kid>>

\* The last case takes every discriminant the others do not.
CaseOf(c, v) == IF v + 1 \in DOMAIN c.kids THEN v + 1 ELSE Len(c.kids)

\* Bits of v, as the names they set, in order.
SetNames(c, v) == SelectSeq(c.items, LAMBDA nm :
  (v \div 2^((CHOOSE i \in DOMAIN c.items : c.items[i] = nm) - 1)) % 2 = 1)

IndexInPlan(k, ctx, i) == EntryIdx(k, ctx.plan.cells, i)   \* mutant: the list's start is not added
Index(k, ctx, i) == ctx.entry[k] + EntryIdx(k, ctx.plan.cells, i)
PartShared(sec, ctx, i) == ctx.sec[sec]   \* mutant: one scratch for all cells of a kind
Part(sec, ctx, i) == ctx.sec[sec] + OffsetIn(sec, ctx.plan.cells, i)

SlotOf(ctx, i) ==
  LET c == ctx.plan.cells[i + 1] IN ReadSlot(ctx.plan, ctx.flats, c.slot, ArmType(c.c))
InfoAt(k, ctx, i) == base[k] + Index(k, ctx, i)
Only(x) == [cell |-> x, side |-> <<>>]
\* n units from address at, the f-th holding Row(f).
Block(at, n, Row(_)) == [a \in at..(at + n - 1) |-> Row(a - at + 1)]

\* i64_extend_i32_s.
SignExtend(w) == IF w >= Word \div 2 THEN w - Word ELSE w

\* Leaves that need no side data.
LeafWrite(ctx, i, c) ==
  CASE c.c \in {"text", "bytes"} ->
         Only(CellSlice(c.c, SlotOf(ctx, i), ReadSlot(ctx.plan, ctx.flats, c.slot + 1, "i32")))
    [] c.c = "signed" -> Only(CellVal("integer", SignExtend(SlotOf(ctx, i))))
    [] c.c = "bool" -> Only(CellVal("bool", SlotOf(ctx, i)))
    [] c.c \in {"integer", "integer64"} -> Only(CellVal("integer", SlotOf(ctx, i)))
    [] c.c \in {"f32", "f64"} -> Only(CellVal("floating", SlotOf(ctx, i)))
    [] c.c = "enum" -> Only(CellVal("enum-case", SlotOf(ctx, i)))

\* A char becomes a text in its scratch.
CharWrite(ctx, i) ==
  LET at == Part("char", ctx, i)
  IN  [cell |-> CellSlice("text", at, 1), side |-> at :> [txt |-> SlotOf(ctx, i)]]

HandleWrite(ctx, i, c) ==
  [cell |-> CellVal("handle", Index("handle", ctx, i)),
   side |-> InfoAt("handle", ctx, i) :> [nm |-> c.nm, id |-> SlotOf(ctx, i)]]

\* The names of the bits that are set, packed in the cell's scratch.
FlagsWrite(ctx, i, c) ==
  LET names == SetNames(c, SlotOf(ctx, i))
      at == Part("flagnames", ctx, i)
  IN  [cell |-> CellVal("flags-set", Index("flags", ctx, i)),
       side |-> (InfoAt("flags", ctx, i) :> [nm |-> c.nm, ptr |-> at, len |-> Len(names)])
                  @@ Block(at, Len(names), LAMBDA f : [name |-> names[f]])]

OptionWrite(ctx, i, c) ==
  Only(IF SlotOf(ctx, i) = 0 THEN CellVal("option-none", 0)
       ELSE CellVal("option-some", ctx.child + c.kids[1]))

ResultWrite(ctx, i, c) ==
  Only(IF SlotOf(ctx, i) = 0 THEN CellOpt("result-ok", ChildOpt(ctx, c.kids[1]))
       ELSE CellOpt("result-err", ChildOpt(ctx, c.kids[2])))

\* The if-chain over the cases fills the entry with the case taken.
VariantWrite(ctx, i, c) ==
  LET k == CaseOf(c, SlotOf(ctx, i))
  IN  [cell |-> CellVal("variant-case", Index("variant", ctx, i)),
       side |-> InfoAt("variant", ctx, i) :>
                  [nm |-> c.nm, case |-> c.items[k], opt |-> ChildOpt(ctx, c.kids[k])]]

\* The (name, cell) tuples of a record are baked, those of an element written.
RecordWrite(ctx, i, c, isElem) ==
  LET at == Part("fieldtuples", ctx, i)
  IN  [cell |-> CellVal("record-of", Index("record", ctx, i)),
       side |-> (InfoAt("record", ctx, i) :> [nm |-> c.nm, ptr |-> at, len |-> Len(c.kids)])
                  @@ IF ~isElem THEN <<>>
                     ELSE Block(at, Len(c.kids),
                                LAMBDA f : [name |-> c.items[f], idx |-> ctx.child + c.kids[f]])]

\* Likewise the child indices of a tuple.
TupleWrite(ctx, i, c, isElem) ==
  LET at == Part("tupleidx", ctx, i)
  IN  [cell |-> CellSlice("tuple-of", at, Len(c.kids)),
       side |-> IF ~isElem THEN <<>>
                ELSE Block(at, Len(c.kids), LAMBDA f : [idx |-> ctx.child + c.kids[f]])]

CellWrite(ctx, i, isElem) ==
  LET c == ctx.plan.cells[i + 1] IN
  CASE c.c = "char" -> CharWrite(ctx, i)
    [] c.c = "handle" -> HandleWrite(ctx, i, c)
    [] c.c = "flags" -> FlagsWrite(ctx, i, c)
    [] c.c = "option" -> OptionWrite(ctx, i, c)
    [] c.c = "result" -> ResultWrite(ctx, i, c)
    [] c.c = "variant" -> VariantWrite(ctx, i, c)
    [] c.c = "record" -> RecordWrite(ctx, i, c, isElem)
    [] c.c = "tuple" -> TupleWrite(ctx, i, c, isElem)
    [] OTHER -> LeafWrite(ctx, i, c)

WriteCell(ctx, i, isElem) ==
  LET w == CellWrite(ctx, i, isElem) IN
  /\ mem' = ((base.cells + ctx.child + i) :> w.cell) @@ w.side @@ mem
  /\ regs' = RegsAfter(ctx, ctx.plan.cells[i + 1])

-----------------------------------------------------------------------------
(* The wrapper body.                                                       *)

NoList == [start |-> 0, len |-> 0, slot |-> [k \in InfoKinds |-> 0], idxs |-> 0,
           buf |-> [s \in Sections |-> 0]]

StaticCounts(plan) ==
  [k \in InfoKinds |-> InfoCount(k, plan.cells)] @@ [cells |-> Len(plan.cells)]

\* What the program starts with: the baked tables, the arguments in memory.
PlaceArgs(s, vs) ==
  PlaceAll(s.params, SubSeq(vs, 1, Len(s.params)),
           [mem |-> BakedTable[s], top |-> StaticEnd(s)])

Init ==
  /\ sig \in Given
  /\ vals \in Tuples(sig.params \o sig.result)
  /\ \E args \in {PlaceArgs(sig, vals)} :
       /\ placed = args.kids /\ mem = args.m.mem /\ top = args.m.top
       /\ locals = FlattenSeq([q \in DOMAIN sig.params |-> Flat(sig.params[q], args.kids[q])])
  /\ trees = [q \in 1..NumPlans |-> BlankTree(sig, q)]
  /\ base = [k \in InfoKinds \cup {"cells"} |-> 0]
  /\ regs = [r \in {"i32_a", "i32_b", "ext64", "f32", "ext_f64"} |-> 0]
  /\ p = 1 /\ cell = 0 /\ loop = <<>>
  /\ IF sig.params = <<>> \/ LowerPanics(sig)
     THEN /\ phase = IF LowerPanics(sig) THEN "panicked" ELSE "on_call"
          /\ next = <<>> /\ lists = <<>>
     ELSE /\ phase = "prepass"
          /\ next = StaticCounts(PlanOf(sig, 1))
          /\ lists = [i \in 0..Len(ListCells(PlanOf(sig, 1))) |-> NoList]

\* Begin lifting plan q: counters from the static counts, list locals zero.
StartPlan(q) ==
  /\ p' = q /\ cell' = 0 /\ phase' = "prepass"
  /\ next' = StaticCounts(PlanOf(sig, q))
  /\ lists' = [i \in 0..Len(ListCells(PlanOf(sig, q))) |-> NoList]

\* emit_list_pre_pass, one list: its first cell and entries, its length.  A
\* list in an arm that is not the value's is left out.
PrePassList ==
  /\ phase = "prepass" /\ cell < Len(ListCells(Plan))
  /\ LET c == ListCells(Plan)[cell + 1]
         n == ReadSlot(Plan, Flats, c.slot + 1, "i32")
     IN IF GuardsHold(Plan, Flats, c.guards)
        THEN /\ lists' = [lists EXCEPT ![c.list] =
                            [@ EXCEPT !.start = next.cells, !.len = n,
                                      !.slot = [k \in InfoKinds |-> next[k]]]]
             /\ next' = [k \in InfoKinds |-> next[k] + n * InfoCount(k, c.elem.cells)]
                          @@ [cells |-> next.cells + n * Len(c.elem.cells)]
        ELSE UNCHANGED <<lists, next>>
  /\ cell' = cell + 1
  /\ UNCHANGED <<sig, vals, placed, phase, p, loop, locals, mem, top, base, regs, trees>>

\* emit_alloc_info_buffer_for_plan: a buffer sized at run time has both fields
\* of its slice patched, one of static size only the pointer.
AllocInfo(acc, k) ==
  LET runtime == HasListElem(k, Plan)
      n == IF runtime THEN next[k] ELSE InfoCount(k, Plan.cells)
  IN IF n = 0 /\ ~runtime THEN acc
     ELSE [top |-> acc.top + n, base |-> [acc.base EXCEPT ![k] = acc.top],
           tree |-> [acc.tree EXCEPT ![k] =
                       [ptr |-> acc.top, len |-> IF runtime THEN n ELSE @.len]]]

\* The cells slab, then the info buffers.  A direct result's one cell keeps its
\* static length.
AllocBuffers ==
  /\ phase = "prepass" /\ cell = Len(ListCells(Plan))
  /\ LET n == IF IsDirect(sig, p) THEN 1 ELSE next.cells
         slab == [top |-> top + n, base |-> [base EXCEPT !.cells = top],
                  tree |-> [trees[p] EXCEPT !.cells =
                              [ptr |-> top, len |-> IF IsDirect(sig, p) THEN @.len ELSE n]]]
         all == Reduce(AllocInfo, slab, <<"handle", "flags", "record", "variant">>)
     IN /\ top' = all.top /\ base' = all.base
        /\ trees' = [trees EXCEPT ![p] = all.tree]
  /\ phase' = "cell" /\ cell' = 0
  /\ UNCHANGED <<sig, vals, placed, p, loop, locals, mem, next, lists, regs>>

\* emit_lift_plan, one outer cell that is not a list.
EmitCell ==
  /\ phase = "cell" /\ cell < Len(Plan.cells) /\ OuterCell.c # "list"
  /\ WriteCell(OuterCtx, cell, FALSE)
  /\ cell' = cell + 1
  /\ UNCHANGED <<sig, vals, placed, phase, p, loop, locals, top, next, base, lists, trees>>

\* A list in an arm the value does not have: no cell is written.
SkipList ==
  /\ phase = "cell" /\ cell < Len(Plan.cells) /\ OuterCell.c = "list"
  /\ ~GuardsHold(Plan, Flats, OuterCell.guards)
  /\ cell' = cell + 1
  /\ UNCHANGED <<sig, vals, placed, phase, p, loop, locals, mem, top, next, base, lists, regs, trees>>

\* emit_list_of_arm up to its loop: pin the pointer, allocate the index array
\* and the scratch of the elements, write the list-of cell.
EnterList ==
  /\ phase = "cell" /\ cell < Len(Plan.cells) /\ OuterCell.c = "list"
  /\ GuardsHold(Plan, Flats, OuterCell.guards)
  /\ LET n == ListHere.len
         e == OuterCell.elem.cells
         bufs == Reduce(LAMBDA acc, s :
                   [top |-> acc.top + n * SectionSize(s, e), at |-> (s :> acc.top) @@ acc.at],
                   [top |-> top + n, at |-> <<>>],
                   <<"char", "tupleidx", "flagnames", "fieldtuples">>)
         reg == Register(Plan, OuterCell.slot, "i32", "i32_a")
     IN /\ top' = bufs.top
        /\ lists' = [lists EXCEPT ![OuterCell.list].idxs = top, ![OuterCell.list].buf = bufs.at]
        /\ mem' = ((base.cells + cell) :> CellSlice("list-of", top, n)) @@ mem
        /\ loop' = [j |-> 0, pos |-> 0, reg |-> reg, flats |-> <<>>]
        /\ regs' = Pin(regs, OuterCtx, OuterCell.slot, "i32", "i32_a")
  /\ phase' = "elem"
  /\ UNCHANGED <<sig, vals, placed, p, cell, locals, next, base, trees>>

\* The list pointer, from its slot or from the register that holds it now.
ListPtr == IF loop.reg = "local" THEN Flats[OuterCell.slot + 1] ELSE regs[loop.reg]

\* The element's address and its flat values.
LoadElem ==
  /\ phase = "elem" /\ loop.j < ListHere.len
  /\ loop' = [loop EXCEPT !.pos = 0,
                          !.flats = LET t == OuterCell.elem.ty IN
                                    LoadFlat(t, ListPtr + loop.j * Size(t), mem)]
  /\ phase' = "elemcell"
  /\ UNCHANGED <<sig, vals, placed, p, cell, locals, mem, top, next, base, lists, regs, trees>>

EmitElemCell ==
  /\ phase = "elemcell" /\ loop.pos < Len(OuterCell.elem.cells)
  /\ WriteCell(ElemCtx, loop.pos, TRUE)
  /\ loop' = [loop EXCEPT !.pos = @ + 1]
  /\ UNCHANGED <<sig, vals, placed, phase, p, cell, locals, top, next, base, lists, trees>>

\* The element's root goes in the index array.
EndElem ==
  /\ phase = "elemcell" /\ loop.pos = Len(OuterCell.elem.cells)
  /\ mem' = ((ListHere.idxs + loop.j) :> [idx |-> ElemCtx.child + OuterCell.elem.root]) @@ mem
  /\ loop' = [loop EXCEPT !.j = @ + 1]
  /\ phase' = "elem"
  /\ UNCHANGED <<sig, vals, placed, p, cell, locals, top, next, base, lists, regs, trees>>

ExitList ==
  /\ phase = "elem" /\ loop.j = ListHere.len
  /\ loop' = <<>> /\ cell' = cell + 1 /\ phase' = "cell"
  /\ UNCHANGED <<sig, vals, placed, p, locals, mem, top, next, base, lists, regs, trees>>

PlanDone == phase = "cell" /\ cell = Len(Plan.cells)

NextParam ==
  /\ PlanDone /\ p < Len(sig.params) /\ StartPlan(p + 1)
  /\ UNCHANGED <<sig, vals, placed, loop, locals, mem, top, base, regs, trees>>

ToHook ==
  /\ PlanDone /\ p >= Len(sig.params)
  /\ phase' = IF p = Len(sig.params) THEN "on_call" ELSE "on_return"
  /\ UNCHANGED <<sig, vals, placed, p, cell, loop, locals, mem, top, next, base, lists, regs, trees>>

\* The parameters record an async handler is given: every parameter lowered at
\* its offset, from the wrapper's own flat parameters.
ParamsRecord ==
  LET from(q) == Reduce(LAMBDA acc, t : acc + Width(t), 0, SubSeq(sig.params, 1, q - 1))
  IN  Reduce(LAMBDA acc, q :
        LET t == sig.params[q] IN
        Lower(t, SubSeq(locals, from(q) + 1, from(q) + Width(t)), StaticAt(sig, "params", q))
          @@ acc,
        <<>>, [q \in DOMAIN sig.params |-> q])

Has(a, field) == a \in DOMAIN mem /\ field \in DOMAIN mem[a]

\* After on-call the handler runs; its result lands in adapter memory or a local
\* and is lifted with the same registers, or there is nothing to lift.
Forward ==
  /\ phase = "on_call"
  /\ LET given == IF IndirectParams(sig) THEN ParamsRecord @@ mem ELSE mem
         q == Len(sig.params) + 1
     IN IF sig.result = <<>>
        THEN /\ phase' = "on_return" /\ mem' = given
             /\ UNCHANGED <<placed, p, cell, locals, top, next, lists>>
        ELSE LET t == sig.result[1]
                 r == Place(t, vals[q], [mem |-> given, top |-> top])
                 at == StaticAt(sig, "retptr", q)
             IN /\ placed' = Append(placed, r.v) /\ top' = r.m.top
                /\ mem' = IF AtRetptr(sig) THEN Image(t, r.v, at) @@ r.m.mem ELSE r.m.mem
                /\ locals' = locals \o IF AtRetptr(sig)
                                       THEN LoadFlat(t, at, Image(t, r.v, at))
                                       ELSE Flat(t, r.v)
                /\ StartPlan(q)
  /\ UNCHANGED <<sig, vals, loop, base, regs, trees>>

Return ==
  /\ phase = "on_return" /\ phase' = "done"
  /\ UNCHANGED <<sig, vals, placed, p, cell, loop, locals, mem, top, next, base, lists, regs, trees>>

\* The tail: what the caller gets is the local; for an async call the loads at
\* the retptr once more, if task.return takes them flat; else what the retptr
\* points at.  True if that is value v of type t.
Delivers(t, v) ==
  LET at == StaticAt(sig, "retptr", Len(sig.params) + 1)
      image == Image(t, v, at)
  IN  CASE ~AtRetptr(sig) -> Last(locals) = Flat(t, v)[1]
        [] sig.async /\ Width(t) <= MaxFlat -> LoadFlat(t, at, mem) = Flat(t, v)
        [] OTHER -> \A a \in DOMAIN image : Has(a, "w") /\ mem[a] = image[a]

\* The call is over, or the wrapper was never generated.
Done == phase \in {"done", "panicked"} /\ UNCHANGED vars

Next ==
  \/ PrePassList \/ AllocBuffers \/ EmitCell
  \/ SkipList \/ EnterList \/ LoadElem \/ EmitElemCell \/ EndElem \/ ExitList
  \/ NextParam \/ ToHook \/ Forward \/ Return \/ Done

Spec == Init /\ [][Next]_vars

-----------------------------------------------------------------------------
(* What a hook sees: it walks the tree from its root.                      *)

Node(c, v, nm, names, sub) == [c |-> c, v |-> v, nm |-> nm, names |-> names, sub |-> sub]
Broken == Node("broken", 0, "", <<>>, <<>>)

Span(ptr, n) == [i \in 1..n |-> ptr + i - 1]

\* The node at cell i of tree tr; no tree is deeper than it has cells.
RECURSIVE Observe(_, _, _)
Observe(tr, i, fuel) ==
  LET a == tr.cells.ptr + i
      x == mem[a]
      kid(j) == Observe(tr, j, fuel - 1)
      entry(k) == tr[k].ptr + x.v
      known(k, field) == x.v < tr[k].len /\ Has(entry(k), field)
      e(k) == mem[entry(k)]
      opt(o) == IF o = <<>> THEN <<>> ELSE <<kid(o[1])>>
  IN
  IF fuel = 0 \/ i >= tr.cells.len \/ ~Has(a, "c") THEN Broken
  ELSE CASE x.c \in {"bool", "integer", "floating"} -> Node(x.c, x.v, "", <<>>, <<>>)
    [] x.c \in {"text", "bytes"} /\ Has(x.ptr, "txt") ->
         Node(x.c, mem[x.ptr].txt, "", <<>>, <<>>)
    [] x.c = "enum-case" /\ known("enums", "case") ->
         Node(x.c, 0, e("enums").nm, <<e("enums").case>>, <<>>)
    [] x.c = "handle" /\ known("handle", "id") ->
         Node(x.c, e("handle").id, e("handle").nm, <<>>, <<>>)
    [] x.c = "flags-set" /\ known("flags", "nm") ->
         LET at == Span(e("flags").ptr, e("flags").len) IN
         IF \E n \in DOMAIN at : ~Has(at[n], "name") THEN Broken
         ELSE Node(x.c, 0, e("flags").nm, [n \in DOMAIN at |-> mem[at[n]].name], <<>>)
    [] x.c = "option-none" -> Node(x.c, 0, "", <<>>, <<>>)
    [] x.c = "option-some" -> Node(x.c, 0, "", <<>>, <<kid(x.v)>>)
    [] x.c \in {"result-ok", "result-err"} -> Node(x.c, 0, "", <<>>, opt(x.opt))
    [] x.c = "variant-case" /\ known("variant", "case") ->
         Node(x.c, 0, e("variant").nm, <<e("variant").case>>, opt(e("variant").opt))
    [] x.c = "record-of" /\ known("record", "nm") ->
         LET at == Span(e("record").ptr, e("record").len) IN
         IF \E n \in DOMAIN at : ~(Has(at[n], "idx") /\ Has(at[n], "name")) THEN Broken
         ELSE Node(x.c, 0, e("record").nm, [n \in DOMAIN at |-> mem[at[n]].name],
                   [n \in DOMAIN at |-> kid(mem[at[n]].idx)])
    [] x.c \in {"tuple-of", "list-of"} ->
         LET at == Span(x.ptr, x.len) IN
         IF \E n \in DOMAIN at : ~Has(at[n], "idx") THEN Broken
         ELSE Node(x.c, 0, "", <<>>, [n \in DOMAIN at |-> kid(mem[at[n]].idx)])
    [] OTHER -> Broken

Seen(q) == Observe(trees[q], trees[q].root, trees[q].cells.len + 1)

\* What it should see: the value itself.
RECURSIVE Shown(_, _)
Shown(t, v) ==
  LET subs == [i \in DOMAIN v.kids |-> Shown(PartType(t, v, i), v.kids[i])]
  IN CASE t.k = "bool" -> Node("bool", v.d, "", <<>>, <<>>)
       [] t.k \in {"integer", "signed", "integer64"} -> Node("integer", v.d, "", <<>>, <<>>)
       [] t.k \in {"f32", "f64"} -> Node("floating", v.d, "", <<>>, <<>>)
       [] t.k \in {"text", "char"} -> Node("text", v.d, "", <<>>, <<>>)
       [] t.k = "bytes" -> Node("bytes", v.d, "", <<>>, <<>>)
       [] t.k = "enum" -> Node("enum-case", 0, t.nm, <<t.items[v.d + 1]>>, <<>>)
       [] t.k = "handle" -> Node("handle", v.d, t.nm, <<>>, <<>>)
       [] t.k = "flags" -> Node("flags-set", 0, t.nm, SetNames(t, v.d), <<>>)
       [] t.k = "record" -> Node("record-of", 0, t.nm, t.items, subs)
       [] t.k = "tuple" -> Node("tuple-of", 0, "", <<>>, subs)
       [] t.k = "list" -> Node("list-of", 0, "", <<>>, subs)
       [] t.k = "option" -> Node(IF v.d = 0 THEN "option-none" ELSE "option-some",
                                 0, "", <<>>, subs)
       [] t.k = "result" -> Node(IF v.d = 0 THEN "result-ok" ELSE "result-err",
                                 0, "", <<>>, subs)
       [] t.k = "variant" -> Node("variant-case", 0, t.nm, <<t.items[v.d + 1]>>, subs)

\* The trees a hook is given when it is called.
AtHook(q) == \/ phase = "on_call" /\ q <= Len(sig.params)
             \/ phase = "on_return" /\ q > Len(sig.params)

-----------------------------------------------------------------------------
(* Properties.                                                             *)

\* The middleware sees the value that was passed: from the root of the tree,
\* through indices, side tables and pointers, a hook reads back exactly the
\* argument or result of the wrapped call.
RoundTrip == \A q \in 1..NumPlans : AtHook(q) => Seen(q) = Shown(TypeOf(sig, q), vals[q])

\* Within a call nothing the lift wrote, baked or was given is overwritten:
\* slab, info buffers and scratch of different cells never overlap.
WriteOnce == [][\A a \in DOMAIN mem : mem'[a] = mem[a]]_vars

\* Every read has the wasm type of the slot it reads: a widened slot is
\* recorded with the joined type it really has, however deep the joins nest.
Reads(plan) ==
  UNION {LET c == plan.cells[i] IN
         CASE c.slot = None -> {}
           [] c.c \in {"text", "bytes", "list"} -> {<<c.slot, "i32">>, <<c.slot + 1, "i32">>}
           [] OTHER -> {<<c.slot, ArmType(c.c)>>} : i \in DOMAIN plan.cells}
SlotsTyped ==
  \A plan \in {Plan} \cup {Plan.cells[i].elem : i \in {i \in DOMAIN Plan.cells :
                                                       Plan.cells[i].c = "list"}} :
    /\ plan.slots = Len(FlatTypes(plan.ty))
    /\ \A r \in Reads(plan) :
         LET w == plan.widen[r[1] + 1] IN
         FlatTypes(plan.ty)[r[1] + 1] = IF w = "none" THEN r[2] ELSE w

\* The lengths a hook is given cover exactly what the lift wrote: the canonical
\* ABI copies every entry of an infos list, reached from the root or not, so
\* each must have been filled, and none may lie beyond the length.
InfosFilled ==
  \A q \in 1..NumPlans, k \in InfoKinds : AtHook(q) =>
    \A n \in 0..(trees[q][k].len - 1) : Has(trees[q][k].ptr + n, "nm")

\* The slab is sized by the value: one cell per node of the type, and per list
\* element only for the lists the value really has (an inactive arm's bits are
\* never taken for a length).
RECURSIVE CellsOf(_), CellsIn(_, _)
CellsOf(t) ==
  CASE t.k = "unit" -> 0
    [] t.k = "list" -> 1
    [] OTHER -> 1 + Reduce(LAMBDA acc, s : acc + CellsOf(s), 0, t.sub)
CellsIn(t, v) ==
  CASE t.k = "list" -> Len(v.kids) * CellsOf(t.sub[1])
    [] OTHER -> Reduce(LAMBDA acc, i : acc + CellsIn(PartType(t, v, i), v.kids[i]), 0,
                         [i \in DOMAIN v.kids |-> i])
SlabExact ==
  \A q \in 1..NumPlans : AtHook(q) =>
    trees[q].cells.len = CellsOf(TypeOf(sig, q)) + CellsIn(TypeOf(sig, q), vals[q])

\* An async handler with many parameters finds each of them in the record, as
\* the canonical ABI would have stored it, whichever arm a variant has.
ArgsForwarded ==
  IndirectParams(sig) /\ (p > Len(sig.params) \/ phase \in {"on_return", "done"}) =>
    \A q \in DOMAIN sig.params :
      LET image == Image(sig.params[q], placed[q], StaticAt(sig, "params", q))
      IN  \A a \in DOMAIN image : Has(a, "w") /\ mem[a] = image[a]

\* A caller is returned what the handler returned: nothing the lift or the hooks
\* did reached the result area, and every payload is cast to its joined slot.
ResultReturned ==
  phase = "done" /\ sig.result # <<>> => Delivers(sig.result[1], placed[Len(placed)])

\* plan.rs:20-28: the cells of an arm the value does not have are inert.  The
\* hook takes list<cell>, so the canonical ABI copies those cells too: each
\* must have been written, and its text or bytes must lie inside the memory.
CellsInert ==
  \A q \in 1..NumPlans : AtHook(q) =>
    \A i \in 0..(trees[q].cells.len - 1) :
      LET a == trees[q].cells.ptr + i IN
      /\ Has(a, "c")
      /\ mem[a].c \in {"text", "bytes"} => mem[a].ptr + mem[a].len <= MemEnd

\* bindgen.rs:400-405 and tier1/emit.rs:1375-1377: once a variant is stored the
\* cursor stands behind its joined slots, so that every value type is accepted
\* in the parameters of an async function: its wrapper is generated.
WrapperGenerated == phase # "panicked"
=============================================================================
