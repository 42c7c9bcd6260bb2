# Verification of splicer

splicer takes a composed WebAssembly component and a YAML list of rules and
writes a WAC script that rebuilds the composition with middleware spliced into
its interface edges. Middleware that does not export the interface it is
spliced on gets a generated adapter: a core module that calls the middleware's
hooks around every call. This directory holds TLA+ models of that code, TLC
configurations that check them on small instances, and TLAPS proofs.

Run a model with `tlc -config <cfg> <module>` and a proof with `tlapm <module>`.
`PROJECT.json` maps every definition to the source lines it models and lists
the runs, the mutants (each a plausible bug that breaks a property), the
hazards and the theorems.

## Inventory

| part | source | state | operations | properties that make it correct |
|---|---|---|---|---|
| tier-1 adapter runtime | `adapter/tier1/emit.rs`, `adapter/abi/{emit,canon_async}.rs` | one linear memory per instance (call-id buffer, block slot, per-function result buffers), globals `bump` and `call_id_counter`, locals per call | wrapper entry, `on-call`, `should-block`, handler call, `on-return`, wait loop, early return, normal return, `cabi_realloc` | hooks in order with one id per call; blocked calls never reach the handler; each call returns its own result; memory is reclaimed and never handed out while live; borrows dropped; every call returns |
| WAC generation | `wac.rs` | chains with aliases and injection plans, `instance_vars`, `split_to_var`, `outer_instances`, `emitted_mdl_vars`, `mdl_override`, `last`, deferred work | chain building, rule application, pre-instantiation, emission pass, fan-in pass, deferred injects, exports | every name defined once and before its use; every edge and export is back, through the requested middleware in order; one instance per split |
| compose | `compose.rs` | export index, in-degrees, queue | name check, export index, import resolution, Kahn's sort, numbering, exports | accepts exactly the unambiguous acyclic sets; providers are numbered below consumers |
| splitter | `split.rs` | component counter, two stacks, shim map | enter and exit component, visit module | a split per component in pre-order; a shim maps to the component that contains it |
| builtin cache | `builtins.rs` | a cache directory shared by processes, a splits directory | override, cache hit, registry pull, write and rename, materialise | a file in the cache is whole, whoever is killed where |
| config provider | `config_provider.rs` | a patched template per injection | detect the substrate import, build, write | a provider exactly for the injections that need one |
| contract validation | `contract.rs` | discovered exports by middleware name | discover, compare fingerprints, classify tiers | one verdict per injection; never two tiers |
| rule configuration | `parse/config.rs` | none | parse, validate | middleware names unique |
| pipeline | `api.rs`, `main.rs` | splits directory, bundle | splice, compose, finish, failure | a run composes its own files; nothing the plan names is deleted, nothing temporary is left |
| memory layout | `adapter/mem_layout.rs` | cursors, segments | allocate name, record, data, scratch | aligned, disjoint, in order |
| tier-2 adapter runtime | `adapter/tier2/{wrapper_body,lift/emit,cells}.rs` | as tier 1, and trees of cells: static field records that point at slabs in the heap | `on-call` with the lifted parameters, handler, `on-return` with the lifted result | as tier 1; a hook reads back the values that were passed, of its own call; the handler gets the arguments and the caller the result |
| lift plans and layout | `adapter/tier2/lift/`, `layout.rs`, `blob.rs` | cells, flat slots, widenings, guards, side tables | plan a type, lay out static memory | each slot read at the width it has, cells and table entries numbered once |
| builtin middleware | `builtins/*/src` | pending stacks per function name | `on-call`, `on-return` | spans and durations pair with their calls |

How they interact: `api.rs` calls the parser, the splitter, the builtin cache
and config provider, then `generate_wac`, which calls the contract check and the
adapter generators per match, and finally resolves the WAC with wac-graph. The
splitter's shim map and cviz's graph are the inputs of `generate_wac`; the
generated adapter runs later, in an engine, between a middleware and a provider.

Hard behaviours: the adapter runs several calls at once that interleave at every
wait while they share static buffers; callees trap; a blocked call leaves early
and must undo its entry. `generate_wac` creates instances in five passes whose
orders must agree, with state that survives from one chain to the next. The
tier-2 lift computes slab sizes, table indices and slot types at build time that
the value met at run time must agree with. Splice processes share the builtin
cache and, often, a directory for splits, without a lock, and any of them may be
killed.

## Modules

### CallProtocol, Tier1Wrapper, MCTier1Wrapper, MCTier1Overlap, Tier1WrapperProofs, Tier1SerialProofs

`CallProtocol` is what `docs/tiers/tier-1.md` and `wit/tier1/world.wit` promise
about each call: hooks in order with a fresh id, a refused call never forwarded,
every other call forwarded once and returning its own result. It knows no
memory, no subtasks and no allocator.

`Tier1Wrapper` is the generated wrapper. An action is the wasm code between two
waits that changes state at one call site:

| action | code |
|---|---|
| `Invoke` | argument lowering by the host, `emit_bump_save`, `emit_alloc_call_id` |
| `CallReturned`, `CallStarted`, `CallStarting` | a lowered call that returns at once, is started, or is left STARTING: `emit_hook_call`, `emit_handler_call`, the call of `emit_blocking_phase` |
| `Start`, `Complete` (external) | a callee that was busy takes the call and reads its parameters; the subtask returns and writes its results |
| `Resume`, `ResumeOnStart` | `waitable-set.wait` delivers an event, and the wait loop goes on behind it |
| `Proceed`, `EarlyReturn` | the branch on the block slot in `emit_blocking_phase` |
| `Finish` | `emit_borrow_drops`, `emit_bump_restore` |
| `Return` | `task.return` or `emit_wrapper_return`: the host lifts the result |
| `Trap` (external) | a callee traps and the instance is unwound |

`running` is the call that holds the instance: wasm code is not preempted, so
only the wait loop gives it up. Static memory (the call-id buffer, the parameters
records, the block slot, the result buffers), the heap, `bump` and `counter` are
shared by all calls, as in the code; `id`, `saved` and `args` are locals.

Parameters of a hook, and of a handler that takes a record, are read from static
memory when the callee starts. A call that returns at once, or is started, reads
them in the step that fills the memory; one that is STARTING (the callee's
instance takes no call just then) reads them at `Start`, and other calls may have
filled the same memory in between. The wait loop of `canon_async.rs:125` is entered
for both. It waits once, so if the engine delivers the `Started` event by itself
the loop drops a subtask that has not returned, and the instance traps
(`ResumeOnStart`); if the subtask returns first, one event says so (`Resume`).

Data are `[of, to]`: the call whose values they are and the heap address they
refer to. `ram` says whose data the heap holds at each address, so a result, or
arguments, of another call show, and so does heap that was handed out again. The
host lifts the result in `Return`, behind the restore of the bump pointer in
`Finish`; until then the result lies above `bump`. The variables from `live` on
are histories.

The refinement maps a call's pc, its subtask and what the middleware was told
to a stage of `CallProtocol`; `ImplementsProtocol` is the abstract specification
under that mapping. It is checked and proved for calls one at a time, which the
source states as an assumption (`tier1/emit.rs:215`).

### WacPlan, WacPlanInputs, MCWac, MCWacFindings, WacPlanProofs, WacSpliceProofs

`WacPlan` is `generate_wac` as a state machine, `pc` being the pass it is in and
`at` the loop indices. `Init` picks an input; every other action is one
iteration of one loop:

| pass | actions | code |
|---|---|---|
| chains | `SkipImport`, `StartChain`, `GrowChain`, `CloseChain`, `Standalone` | `wac.rs:113-194` |
| rules | `ApplyRule`, `RulesApplied` | `wac.rs:199-289`, `apply_rule_*`, `add_to_inject_plan` |
| pre-instantiation | `PreInstantiate`, `StartWalk` | `wac.rs:309-385` |
| emission | `DeferInject`, `Place`, `ReachFanIn`, `InjectNext`, `LeaveFanIn`, `Leave` | `wac.rs:397-493` |
| fan-in | `InstantiateFanIn` (any order: a hash map) | `wac.rs:495-533` |
| deferred injects | `StartDrain`, `InjectNext`, `FinishDrain` | `wac.rs:535-581` |
| exports | `StartExports`, `EmitExport`, `Finish` | `wac.rs:583-646` |

A WAC line is the variable it defines and the (interface, variable) pairs it
wires. `wac.last` and `wac.over` are the variables `last` and `mdl_override`,
which the code does not reset between chains. Left out: aliases (they rename a
variable), the text of diagnostics, the dependency map, the factored-types wiring
of resource-bearing imports, and whether two labels sanitise to one name. Which
middleware is adapted and which has a config provider is a constant here.

The output is judged by what its lines wire. `Requested` is what the rules ask for
on an edge, in declaration order (read off `docs/splice-config.md`, not off the
plan). `Spliced` says that a variable stands for the outermost of that middleware,
that each is wired to the next (`Wired`) and the innermost to the provider's
instance. `EdgesSpliced` asks this of every edge of the graph and `ExportsSpliced`
of every export. With no rule they say that the composition comes back unchanged.

They hold on *ordinary* compositions (`Ordinary`): the consumers of an interface
stand in one line, and the provider at its start imports from the host only
(`Lined`); a node that consumes several interfaces is imported by nobody
(`FanInsEnd`); on consumed interfaces rules name their providers (`ProvidersNamed`),
but not such a node on an interface it consumes (`FanInsUnnamed`); no node is a shim.
Exports are ordinary (`OrdinaryExports`) when an interface that is imported as well
is exported by the end of its line, and a node exports one interface. What goes
wrong outside is under *Findings* or a hazard of `PROJECT.json`; each conjunct of the
two hypotheses is used in the proof.

`WacPlanInputs` builds families of inputs, among them the *regular* graphs, which
are ordinary. `MCWac` checks every property on every input, `RegularEdgesSpliced`
and `RegularExportsSpliced` where their hypotheses hold. `LetsUnique` needs less:
`ProvidersNamed` and `FanInsEnd` leave out the two ways to define a name twice that
are under *Findings*, and it is proved that there is no third.

### Compose, MCCompose, ComposeProofs

`Compose` is `build_graph_from_components`: what turns N separate components into
the graph `generate_wac` starts from. `pc` is its phase and `at` the loop index;
an action is one iteration of one loop.

| phase | actions | code |
|---|---|---|
| names, export index | `CheckNames`, `IndexExports` | `compose.rs:25-85` |
| imports | `StartResolve`, `ResolveImport`, `NextComponent` | `compose.rs:95-151` |
| Kahn's sort | `CountProviders`, `Seed`, `Pop`, `Relax`, `FinishSort` | `compose.rs:153-185` |
| nodes, exports | `BuildNode`, `SetExports` | `compose.rs:187-266` |

A component is its name and, per interface, the fingerprint of its export and
import, `Unknown` where cviz has none. `Verdict` compares the outcome with the
conditions themselves, stated on the components and not on the index or the
order: `Acyclic` says that every nonempty set of components has one that needs
none of the set. `GraphFaithful` says that the graph carries what the components
import and export and nothing else. `ProvidersFirst` is what `WacPlan` assumes of
its input graphs. Imports of one component are resolved in any order; which of
several errors is reported may depend on it, the verdict does not.

### CanonAbi, LiftPlan, Tier2Lift, MCTier2Lift

One call of a tier-2 wrapper, at the level of cells. `CanonAbi` has WIT types,
their flat form with the joins of variant arms, and the two conversions splicer
generates code for: memory to flat values (the result of an async function) and
flat values to memory (the parameters record). `LiftPlan` is the build-time half:
how a type becomes a vector of cells with flat slots, widenings, arm guards and
side-table entries. `Tier2Lift` is the run-time half, a state machine whose steps
are the cells and list elements the emitted code writes:

| phase | actions | code |
|---|---|---|
| `prepass` | `PrePassList`, `AllocBuffers`: counts from the values (`AllocInfo`), then the slabs | `lift/emit.rs:1100-1210`, `wrapper_body.rs:70-119`, `186-259` |
| `cell` | `EmitCell`, `SkipList` (an arm the value does not have), `EnterList` | `lift/emit.rs:940-1482` |
| `elem` | `LoadElem`, `ExitList` | `lift/emit.rs:1483-1674` |
| `elemcell` | `EmitElemCell`, `EndElem` | `lift/emit.rs:1483-1674` |
| `cell`, at the end of a plan | `NextParam` (`StartPlan` of the next parameter, back to `prepass`), `ToHook` | `wrapper_body.rs:334-353`, `387-427` |
| `on_call` | `Forward`: hook and handler, then the plan of the result | `wrapper_body.rs:428-560` |
| `on_return` | `Return`; then `done` | `wrapper_body.rs:604-623` |

A function whose parameters record cannot be generated starts, and ends, in
`panicked`.

`Init` picks a function and values and lowers them as the canonical ABI does. The
hook is `Observe`: it walks the tree from the root as the WIT says, and
`RoundTrip` compares what it sees with the value itself (`Shown`). Memory counts units instead of bytes: a cell, a table entry, a name or
a leaf is one unit; integers keep their width where a cast can lose bits (`Word`
is 256, so a 64-bit number does not fit an i32). Left out: overflow traps of
huge lists, the layout budget, and nested lists, which the code refuses.

### Tier2Wrapper, MCTier2Wrapper, Tier2WrapperProofs

Several calls of one tier-2 adapter over the memory they share. A tree is one slab
that shows the values of a call (`of`) and points at the host's strings and lists
(`to`), so that a hook or caller shown another call's data, or heap that was given
away, shows. The actions are those of `Tier1Wrapper` without the block slot, with
`OnCall`, `Forward` and `OnReturn` as the three phases of
`wrapper_body.rs:334-610`; building a slab, patching the static record and the
call that reads it run between two waits and are one step. A callee that is
STARTING reads it later, as in `Tier1Wrapper`: a hook that waits to start in a call
that overlaps others (`late`) may be shown another call, and is the only one that
may. The refinement leaves its id open. It refines the same `CallProtocol`, in
which a hook that does not exist is never told.

### Pipeline, MCPipeline, PipelineProofs

Several `splicer splice` processes on one machine, each with one injection:

| step | actions | code |
|---|---|---|
| directory | `Start` (`SplitsLocation::resolve`), `Dropped`, `Preserve` (`persist`) | `main.rs:166-399` |
| splitting | `Split` | `split.rs:13-116` |
| loading | `LoadOverride`, `LoadCached`, `Miss`, `Pull`, `Store`, `Rename` | `builtins.rs:130-279` |
| materialising, provider | `Materialize`, `Inspect`, `Provider` | `builtins.rs:141-162`, `config_provider.rs:33-195` |
| `generate_wac` | `Contract`, `Adapter` | `contract.rs:41-140`, `adapter/mod.rs:123-152` |
| end | `Plan`, `Compose`, `Output`, `Preserve`, `Fail`, `Kill` (external) | `main.rs:230-342` |

`std::fs::write` is two steps, truncate and write; what is killed or fails between
them leaves the file `Torn`. Every step may fail (the network, the disk, the
input). Live processes have different pids; the pid of a process that is gone may
come again. The WAC text and the output file have one writer and no reader here,
so only that writing them can fail is modelled. Two runs that use one directory
*at the same time* get no promise: each can read the other's torn files, and the
source does not say otherwise. `shared` marks them; `OutputFaithful` and
`KeptUsable` are about the others, which may still find what earlier runs,
finished or killed, left in the directory.

### OtelBare, MCOtelBare, OtelBareProofs

`otel-bare-spans` and `otel-bare-metrics` keep a stack of entries per function from
`on-call` to `on-return`; their source says that calls which overlap without nesting
take each other's entries, and that this is bounded. The module states what is left
of the pairing: `Bounded`, `ReportedOnce`, `EveryEntryReported` hold for all calls,
`NestedCallsPaired` for a call whose handler nests with the others of its function
(`crossed` collects those it does not nest with; the hooks of nested calls may still
interleave). An entry is named for the call that pushed it. `Enter`, `Announce` and
`Push` are `on_call` cut at its awaits, `Pop` and `Report` are `on_return`; metrics
announce nothing. `turn` numbers the pushes, for the properties.

## Runs and bounds

| run | checks | bounds and why they suffice |
|---|---|---|
| `tier1_serial` | `TypeOK`, `BumpBalanced`, `ImplementsProtocol` | three calls one at a time over five functions (async and sync, void, direct, through memory), every choice of hooks; a leak or a stale slot of one call meets the next two |
| `tier1_overlap` | `CallIdsPair`, `SoloCallsFaithful`, `LiveHeapSafe`, `EveryCallReturns` | two in flight, three in all, of a void function with a parameters record and one with a result in the heap: the third runs alone in memory two overlapping calls have written, and two compete for the instance, the heap and their events. Calls are interchangeable, so they arrive in order (`InOrder`). To keep the state space small the blocking hook comes alone (`BlockingApart`; with the others it is in `tier1_serial`) and the last call finds a callee busy only when the others are done (`LastStarts`): a late reader next to another call is covered by the first two, one in memory that an overlap left behind by the last |
| `tier1_borrow` | `BorrowsDropped` | violated, see Findings |
| `wac` | `DefinedBeforeUse`, `OneInstancePerSplit`, `NoInternalError`, `LetsUnique`, `RegularEdgesSpliced`, `RegularExportsSpliced` | every graph of three nodes that wires two interfaces and exports one of three, with six shim maps, and rules with and without a provider; all regular graphs of up to four nodes that wire two interfaces and may export a third, with at most one rule of two middleware, those of three nodes with two rules; four nodes hold two lines that end in one fan-in consumer, a line of four, and a consumer's export behind both |
| `compose` | `TypeOK`, `CountsExact`, `ProvidersFirst`, `Verdict`, `GraphFaithful` | three components: every set of imports of three interfaces, each exported by any of them or by the host (two providers of one component, one provider of two interfaces, cycles of two and three); every pair of fingerprints on one interface, with several exporters; every naming |
| `tier2_lift` | `RoundTrip`, `SlotsTyped`, `InfosFilled`, `SlabExact`, `ArgsForwarded`, `ResultReturned`, `WriteOnce` | every cell kind alone, as an arm, as a list element, next to another of its kind; joins of 32 and 64 bits and of integers and floats, nested, among them an inner join that widens a slot the outer one widens differently; two parameters and a result in one call, so that the running counts start above zero; lists of up to two elements in arms the value has and has not; parameters records and results through memory; numbers below and above `Word` |
| `tier2_calls` | `OnCallFaithful`, `SoloCallsFaithful`, `BumpBalanced`, `ImplementsProtocol` | three calls, two in flight, of five functions (async and sync, with and without data in the heap, a record of parameters, results direct and through memory), either hook or both; `InOrder` and `LastStarts` as in `tier1_overlap` |
| `pipeline` | `TypeOK`, `CacheWhole`, `OutputFaithful`, `KeptUsable`, `TempsExact` | three runs and two pids: two at a time, and a third that finds what they left and may have a dead one's pid; a temporary, a default and a named directory, the last two the same; builtins with and without configuration, with the override and without. Runs are interchangeable in every property, hence the symmetry |
| `otel_bare` | `Bounded`, `ReportedOnce`, `NestedCallsPaired`, `EveryEntryReported` | four calls of two functions, in every assignment, spans or metrics: three overlapping calls of one function, two of them crossed and one nested inside, outside or beside them, and a call of another function |
| `wac_three_tier`, `lift_inert`, `lift_unbuilt` | one property each | violated, see Findings |

`BumpBalanced` allows for the arguments the host lowers before the snapshot,
which the comment of `emit_bump_save` says are not freed. In `Tier2Wrapper` it
also says that borrows are dropped, and that ids pair is part of
`ImplementsProtocol`. No run turns deadlock
checking off: a system that is done stutters in `Terminated`.

Fairness (`Tier1Wrapper!Fairness`): weak fairness of the wrapper's own steps
(`Step`: the engine executes wasm code), of `Resume` or `ResumeOnStart` (`Event`:
the engine delivers an event to a waiting task), of `Start` (a callee that was
busy takes the call at some time) and of `Complete` (middleware and handlers
return). Nothing obliges a client to call, so `Invoke` has none, and a trap may end
everything. The bounds of `tier1_overlap` never stop an action that has fairness:
`InOrder` is about arrivals, and a last call that cannot be left STARTING can be
started. `OtelBare` assumes that the engine resumes every hook and that handlers
return. `Tier2Wrapper` waits exactly as `Tier1Wrapper` does, `Pipeline` has no
loop, and `Compose` is one function without a wait: no liveness is asked of them.

## Proofs

`Tier1WrapperProofs` proves for any number of calls, functions and hooks, and any
`MaxActive`:

- `TypeCorrect`: `TypeOK`. One case per action; it needs the range of `saved`,
  hence `RestoredBump`, and that a subtask is pending only at a call step.
- `CallIdsAlwaysPair`: what the middleware heard in time carries the id of its call.
  Inductive (`IdInv`) with: an arrived call's id is at most the counter and differs
  from every other's; a hook that waits to start (`StartingHook`) in a call that runs
  alone still finds that call's id in the buffer, because no other call is there to
  fill it; in a call that overlaps it finds the id of one that overlapped.
- `LiveHeapIsSafe`: however many calls overlap. What a call in flight needs (`live`)
  stays its own as long as the calls it came beside are in flight (`Sheltered`); it
  lies below `bump`, or above it only while the call that moved `bump` down is at
  its own `Return`, where nothing can be allocated; and a call that came later has
  its snapshot above it (`Safe`). So a restore reaches below only what came before
  the call that restores, and the window between restore and return is harmless.
- `SoloCallsAreFaithful`: a call that never shared the instance gives the handler its
  own arguments, is blocked exactly on its own answer and returns its own result,
  heap included. Inductive with: two active calls are both marked overlapped; a solo
  call that waits for a busy handler still has its own record, at `decide` finds its
  own answer in the slot, and past the handler its own result in its function's
  buffer, because every other call that could write is inactive (`SoloSlots`); what
  its data point at is its own by `LiveHeapIsSafe`.

`Tier1SerialProofs` proves, for any number of calls and functions and any hooks, what
the single-active-call assumption of `tier1/emit.rs:215` buys. Its first two theorems
are stated under `MaxActive = 1`: with overlapping calls a call that restores `bump`
to its own snapshot gives away what another one allocated since, and may be told the
other one's answer or result.

- `BumpIsBalanced`: the snapshot of the call in flight stands right behind its own
  arguments, and those on top of the arguments of the calls that returned
  (`BumpInv`). It needs that no other call is in flight, by counting: an arrival
  finds fewer than one active (`SerialInv`, `NobodyElse`).
- `ProtocolIsImplemented`: the refinement of `CallProtocol`. The invariant (`CallsInv`)
  ties what the middleware has heard about a call, and the answer it gave, to the
  step the call is at; then the stage a call maps to can be read off that step
  (`StageAt`), and each action is one step of the protocol or a stutter. The result
  that is delivered is the call's own by the invariant of `SoloCallsAreFaithful`.
- `BorrowsAreDropped`: for any `MaxActive`, provided that the interface does not mix
  the blocking hook with a function that takes a borrow and returns nothing. That is
  the exact gap `tier1_borrow` shows: a call that can be blocked has no result, so
  where all borrowing functions have one, none of them leaves early (`BlockInv`).

`Tier2WrapperProofs` proves for any number of calls and functions, any choice of
hooks and any `MaxActive`:

- `OnCallIsFaithful`: nothing runs between the lowering of a call's arguments and
  the issue of its on-call hook (`EntryInv`), and a slab taken at the bump pointer
  leaves what is below it alone (`HoldsAfter`), so a hook that starts at once finds
  the call in static memory (`Found`). One that starts late in a call alone still
  does (`SoloUnread`); one in a call that overlaps is left out of the property.
- `SoloCallsAreFaithful`: while a call that never overlapped is active no other is
  (`AloneInv`), so its arguments stay below its snapshot, what a callee that is
  STARTING has still to read stays in place (`SoloUnread`), the result area holds its
  own result once the handler returned, and all of it is untouched until it ends
  (`Solo`). One frame lemma (`CallStepInv`) covers every step in between; arrival and
  return are looked at on their own.
- `BumpIsBalanced`: the snapshot of the one call in flight stands right behind its
  own arguments, on top of those of the calls that returned (`BumpInv`).

- `ProtocolIsImplemented`, the refinement of `CallProtocol`: a hook has been heard
  about a call exactly when the call is past issuing it (`HeardInv`), and ids only
  grow. Overlapping calls keep the order of hooks, their ids and what is forwarded;
  their results (`Delivered`), and the ids of hooks that start late in them, are left
  open by the refinement mapping, as the source leaves them.

`WacPlanProofs` proves for every graph, every list of rules that passes validation,
every shim map and every choice of adapted and configured middleware:

- `DefinedBeforeUseHolds`: a line wires only what the lines above it define
  (`LinesInOrder`), and every variable the passes keep for later (`inst`, `split`,
  `emitted`, `last`, `over`, `fanVars`, `outer`, overrides, exports) is one of a line
  that stands already (`Remembered`, `RoutesInv`). Lemmas on the builder
  (`GetOrCreateBuilds`, `LatestBuilds`, ...) say once what each helper keeps. At
  `InjectNext` it needs that `last` was set by the position that is being injected
  (`LastInv`), in `InstantiateFanIn` that a source which is not made is not wired.
- `NoInternalErrorHolds`: each inner position of a chain the walk has passed is made,
  or has waited for the fan-in pass since (`WalkInv`), so a consumer whose injection
  is put off is made when the pass is over.
- `OneInstancePerSplitHolds`: a node other than a fan-in consumer that is made holds
  the instance of its split (`SplitInv`).
- `LetsAreUnique`: a second inductive invariant on top of the first, under the two
  conditions of `LetsUnique`. A chain rises through the graph, each node right behind
  its provider, and there is one chain per interface (`ChainsInv`), so a named
  provider stands at one place of one chain and each injection is planned once
  (`PlanInv`). The middleware of places ahead of the walk, under way and put off is
  disjoint and not yet in the script (`FreshInv`: `AheadInv`, `TodoInv`, `PutOffInv`).
  A node with a line is known to be made, a shared middleware with a line known to be
  emitted (`Known`), and only their own pass makes fan-in consumers (`MadeInv`), so
  no helper defines a name again (`Distinct`).

`WacSpliceProofs` proves what the script is for, on graphs of any size and under any
number of rules:

- `PlansAreRequested`: after the rule pass the plan of every chain position is what
  the rules ask for there, without any hypothesis on graph or rules. The invariant
  (`PlansInv`) speaks of the rules before the cursor; a before-rule and a between-rule
  match a position exactly when they ask for something on the edge behind it, because
  a node stands in a chain right behind its provider (`MatchesAsks`).
- `RegularEdgesSplicedHolds`: on ordinary compositions. When the chain pass is over,
  every consumer stands in the chain of the interface, which starts at a provider that
  imports from the host and ends at a node nobody imports from (`ShapeInv`,
  `Placement`: the last consumer that does not stand would be imported by one that
  does). During the walk, what is in hand at the cursor is wired from `last` inwards
  (`HandInv`, with `InHand` for the middleware already put in), and `over` is what the
  next node is created with; what a fan-in consumer is to be wired to is kept per
  interface (`FanVarsInv`); every node that is made is wired on each of its imports to
  what is asked for (`WiredInv`). Since a node the walk makes is no fan-in consumer it
  imports one interface, the one the override is for. No line is ever changed
  (`WiresKept`), so a splice that stands keeps standing (`SplicedKept`).
- `RegularExportsSplicedHolds`: on ordinary compositions with ordinary exports. The end
  of a line is remembered in `outer` behind what is asked for in front of its export
  (`OuterInv`; two lines that end in one node end in a fan-in consumer, or the export's
  own chain is walked last: `EndsAlone`); what is asked for in front of a fan-in
  consumer's export is put off, or an override, or nothing (`OverrideInv`); so each
  export line finds the right variable and none is skipped (`ExportFound`).

`ComposeProofs` proves for any number of components, interfaces, names and
fingerprints:

- `TypeCorrect`, `CountsAreExact`, `ProvidersComeFirst`, `VerdictIsRight`,
  `GraphIsFaithful`: the properties of the run. The invariant of
  the sort (`SortInv`) is that no component is queued or placed twice, that
  exactly the components with in-degree 0 are queued or placed, that in-degrees
  count the providers not yet taken off, and that the providers of a placed
  component stand before it. A full order has no cycle, because the first place
  of any set needs none of the set (`PlacedAcyclic`); when the queue runs dry
  early, each component left needs another one left (`StuckCyclic`). `IndexInv`
  and `ResolveInv` tie the index and the resolved imports to the components, so
  that the verdict speaks of what was given (`DepsAreNeeds`). For the graph: the
  nodes behind `at` have the edges of their components (`EdgesInv`) and the exports
  behind it are those no component consumes (`OutsInv`); that an export has one
  provider comes from the export index.

`PipelineProofs` proves all five properties of the run for any number of
processes, pids, builtins, directories and command lines:

- `TypeCorrect`, `TempsAreExact`: together inductive. A run writes only where
  its directory exists, because a temporary one lives as long as its run works.
- `CacheStaysWhole`: live processes have different pids, so the temporary file
  that is about to be renamed is the process's own (`TmpWhole`) and holds what it
  pulled (`HeldWhole`). What other processes, dead ones included, left under other
  names does not matter, and what a dead one left under this name is overwritten
  before the rename.
- `OutputIsFaithful`, `KeptIsUsable`: a run that is not shared is the only one at
  work in its directory (`Alone`); it depends on exactly the files the steps
  behind it wrote (`DepsDue`), each holds what it wrote (`DepsHold`), and what it
  is about to write is right (`InHand`, with `CacheWhole` for what it loads). A
  frame lemma (`StepFrame`) says what a step of one run leaves alone of the
  others, so each action is looked at once.

`OtelBareProofs` proves the three invariants of `OtelBare`, and its type invariant,
for any number of calls and functions. That stacks are bounded is a count (`CountInv`: entries and served
calls come and go together); that nothing is reported twice, that an entry is in
one place (`EntryInv`). For nested calls the invariant says where an entry lies: the
entry of a call that has crossed no other stands as high in the stack as there are
served calls that pushed no later (`PlaceInv`). It needs neither order nor ownership
of the other entries, which is why it survives swaps among them: a pop by a later
call takes the top, and this one is not above the place.

The proofs rest on the named assumptions of `Tier1Wrapper`, `Tier2Wrapper`,
`WacPlan`, `Compose`, `Pipeline` and `OtelBare` and on the hypotheses above only; that
the error names and the variables of a script differ from `None`, the names of builtins
from the words used for other bytes, and interface names from `config` and `hooks`, are
among them. `WacPlan` takes from the code that providers have lower
ids than their consumers (proved of `Compose` as `ProvidersComeFirst`), that imports
are kept in a map, and that injection names are unique (`NamesUnique`,
`parse/config.rs:307-436`).

Model-checked only:

- what `CanonAbi`, `LiftPlan` and `Tier2Lift` compute, the action property `WriteOnce`
  included: they are defined by recursion over types, which the installed provers
  cannot do induction on, and a module with RECURSIVE operators cannot be proved
  about;
- liveness (`EveryCallReturns`, `EveryEntryReported`), which is out of
  the prover's reach.

Elsewhere induction over data is avoided: the sort of `Compose` and the passes of
`generate_wac` are loops of actions, and where a definition recurses (`Requested` over
the rules) or an argument descends (`Placement`), the proof takes the least
counterexample, which the well-foundedness of the naturals gives (`FirstOf`).

## Findings

- `tier1_borrow`: the early return of a blocked call skips `emit_borrow_drops`,
  which its comment wants before any return.
- `wac_three_tier`: with no rule, the first node of a chain that itself consumes
  another interface is created without that import wired.
- `lift_inert`: the cells of an arm the value does not have are written from the
  sibling's bits. For `result<string, u64>` with an err value, the string cell gets
  the number as its pointer; `on-call` takes `list<cell>`, so the engine reads that
  string and traps when it lies outside the memory. The comment of `Cell`
  (`lift/plan.rs:20-28`) calls those bytes inert.
- `lift_unbuilt`: for an async function whose parameters go through a record and
  end in a variant with several non-empty arms, generating the record's stores
  panics: the cursor over the flat parameters is not set back between arms
  (`abi/bindgen.rs:385`). The comment at `bindgen.rs:400-405` says where it lands.

Met while modelling, without a run:

- `wac.rs:154`: a second consumer of an interface is on no chain and loses its
  wiring, with no rule at all.
- `wac.rs:860`: a `before` rule without a provider matches at each position of a
  chain and defines the same middleware each time; the duplicate `let` is not
  valid WAC.
- `wac.rs:490`: `outer_instances` is keyed by node, so of a node with two exports
  the second chain decides where the first is exported from, and its middleware is
  bypassed.
- A fan-in consumer at an inner position of a chain is defined twice; middleware in
  front of a fan-in consumer that re-exports what it consumes lands below it; the
  fan-in pass gives a node that shares its split with another an instance of its
  own (`OneInstancePerSplit` is stated for the other nodes).
- `wac.rs:1158`: a provider's variable is `<injection>-config`. Validation
  (`parse/config.rs:298`) keeps injection names apart because each names a WAC
  instance, but not from these. Adapter files (`adapter/mod.rs:142`) and WAC
  identifiers (`wac.rs:1399`) built from sanitised names can collide likewise.
- `lift/emit.rs:1286`: inside an arm whose slots are widened, a list's pointer is
  read into the register its elements' widened reads use too, and is lost after the
  first such element.
- `lift/sidetable/enum_info.rs`: one table of case names per parameter, for one
  enum; of two different enums in a parameter, one gets the other's names.
- A type whose joins nest so that an inner one has widened a slot the outer one
  widens differently meets a `debug_assert` in `set_widening`; release builds have
  the outer type, which `SlotsTyped` checks on a result inside a result.
- `wrapper_body.rs:3-8` rests on a runtime that lets one call at a time into an
  instance. `tier2_calls` shows what holds without it: an on-call that starts at once
  is shown its own call, with its own id, in every interleaving. Only one that is
  STARTING while another call comes in is shown that one's record, as the comment
  warns; and results do not survive an overlap.
- `canon_async.rs:125`: the wait loop waits once and takes the event for the subtask's
  return ("await its completion", `canon_async.rs:98`). A call that was STARTING has
  two events to tell; if `Started` is delivered by itself, the loop goes on and drops
  a subtask that has not returned, which traps. `ResumeOnStart` models it, and
  `EveryCallReturns` allows for the trap.
- `builtins.rs:198`: threads of one process that uses splicer as a library, and
  processes of two pid namespaces over one cache, share a temporary name; the
  theorem needs different pids.

## Not modelled

- `parse/config.rs`: parsing and validation of YAML, a function without state. The
  inputs of `WacPlan` and `Pipeline` respect what it accepts.
- The splitter's visitor: it runs once over a parsed component; the shim map it
  returns is an input of `WacPlan`, which is checked for six of them.
- The section encoders (`indices.rs`, `section_emit.rs`, `tier1/emit.rs` outside the
  function bodies): they have no behaviour at run time, and an engine rejects a
  module in which an index or a type is wrong.
- `mem_layout.rs` and the relocation of `blob.rs`: byte offsets. `Tier2Lift` gives
  each static slot its own units.
- The comparison of fingerprints and the tier classification of `contract.rs`, and
  the WIT handling of `resolve.rs`: functions of wit metadata. Their verdicts are
  constants of `WacPlan`.
- Aliases, diagnostics, the dependency map and the factored-types wiring of
  `wac.rs`; where the WAC text and the output file go.
- Of the builtin middlewares, what a span, a metric or a log record contains, and
  `otel-bare-logs`, `hello-tier1` and `config-provider`, which keep no state.
- `build.rs`, the examples and the demo.

## Further theorems

Worth proving next: the splices on graphs with shims, where nodes of one split share
an instance and `Ordinary` would have to ask that the shared one was made with the
imports of each; and, were `LiftPlan` rewritten without RECURSIVE operators for a fixed
set of types, `SlabExact`.
