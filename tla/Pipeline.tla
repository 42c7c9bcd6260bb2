------------------------------ MODULE Pipeline ------------------------------
(***************************************************************************)
(* Several `splicer splice` processes on one machine, each splicing one    *)
(* builtin: src/main.rs and src/api.rs, with the builtin cache of          *)
(* src/builtins.rs and the provider of src/config_provider.rs.  They share *)
(* the user's cache directory and, when they are given one or default to   *)
(* ./splits, the directory for splits; any of them may be killed.          *)
(*                                                                         *)
(* std::fs::write truncates, then writes: between the two steps, and after *)
(* a failure or a kill between them, the file is Torn.  The WAC text and   *)
(* the composed output are written by one process and read by none; only   *)
(* that writing them can fail is modelled.                                 *)
(***************************************************************************)
CONSTANTS
  Runs,        \* the processes, each with one request
  Pids,        \* process ids
  Builtins,    \* the user-facing builtins of this version
  Consumers,   \* those that import splicer:builtin-config
  Template,    \* the internal builtin config-provider
  Dirs,        \* directories for splits a user can name
  DefaultDir,  \* ./splits
  Requests,    \* what the runs may be asked to do
  None

Names == Builtins \union {Template}
Request == [builtin : Builtins, config : BOOLEAN, override : BOOLEAN,
            dir : Dirs \union {None}, emit : BOOLEAN, plan : BOOLEAN]

ASSUME BuiltinsAssumption == Consumers \subseteq Builtins /\ Template \notin Builtins
ASSUME DirsAssumption == DefaultDir \in Dirs /\ Dirs \intersect Runs = {} /\ None \notin Dirs
ASSUME RequestsAssumption == Requests \subseteq Request
ASSUME NoneAssumption == None \notin Runs \union Names
(* The names of the builtins are not the words used here for other bytes.   *)
ASSUME NamesAssumption ==
  Names \intersect {"torn", "split", "provider", "adapter", "no file"} = {}

(* Bytes: a shipped builtin, or a file made by a run; a Torn file is none.  *)
Bytes == [what : {"torn", "split", "provider", "adapter"} \union Names, by : Runs \union {None}]
Torn == [what |-> "torn", by |-> None]
Shipped(n) == [what |-> n, by |-> None]
Made(kind, r) == [what |-> kind, by |-> r]
NoFile == [what |-> "no file", by |-> None]

(* The files of a directory for splits.                                     *)
Files == {"split", "provider", "adapter"} \X {None} \union {"builtin"} \X Builtins
Places == Dirs \union Runs    \* a run's temporary directory bears its name

VARIABLES
  req,     \* per run: its command line and rules
  pid,     \* per run: its process id
  pc,      \* per run: the step it is at
  name,    \* per run: the builtin it loads
  held,    \* per run: the bytes it has in memory
  open,    \* per run: it has truncated the file it is writing
  deps,    \* per run: the files its WAC refers to
  cache,   \* the cache directory: <name>@<version>.wasm
  tmp,     \* the cache directory: <name>@<version>.wasm.<pid>.tmp
  disk,    \* the directories for splits
  temps,   \* the temporary directories that exist
  made,    \* history: what a run composed
  shared   \* history: runs whose directory another run used since they began

rules == <<req, pid>>
hist  == <<made, shared>>
store == <<cache, tmp>>
vars  == <<req, pid, pc, name, held, open, deps, cache, tmp, disk, temps, made, shared>>

Working == {"split", "load", "pull", "store", "rename", "materialize", "inspect",
            "provider", "contract", "adapter", "finish", "preserve", "output"}
Over == {"planned", "composed", "preserved", "failed", "killed"}
Live == {r \in Runs : pc[r] \in Working}

(* SplitsLocation::resolve: the user's directory, ./splits when something   *)
(* must outlive the process, or a temporary directory.                      *)
Place(r) ==
  LET q == req[r] IN
  IF q.dir # None THEN q.dir ELSE IF q.plan \/ q.emit THEN DefaultDir ELSE r
IsTemp(r) == Place(r) = r

Init ==
  /\ req \in [Runs -> Requests]
  /\ pid \in [Runs -> Pids]
  /\ pc = [r \in Runs |-> "new"]
  /\ name = [r \in Runs |-> Template]
  /\ held = [r \in Runs |-> NoFile]
  /\ open = [r \in Runs |-> FALSE]
  /\ deps = [r \in Runs |-> {}]
  /\ cache = [n \in Names |-> NoFile]
  /\ tmp = [n \in Names |-> [p \in Pids |-> NoFile]]
  /\ disk = [d \in Places |-> [f \in Files |-> NoFile]]
  /\ temps = {}
  /\ made = [r \in Runs |-> {}]
  /\ shared = {}

-----------------------------------------------------------------------------
Goto(r, step) == pc' = [pc EXCEPT ![r] = step]
File(r, f) == disk[Place(r)][f]
OnDisk(r, f, b) == [disk EXCEPT ![Place(r)][f] = b]
BuiltinFile(r) == <<"builtin", req[r].builtin>>

(* std::fs::write of b to file f of r's directory, in two steps.            *)
Truncate(r, f) ==
  /\ ~open[r]
  /\ open' = [open EXCEPT ![r] = TRUE]
  /\ disk' = OnDisk(r, f, Torn)
  /\ UNCHANGED <<pc, name, deps>>
Complete(r, f, b, next) ==
  /\ open[r]
  /\ open' = [open EXCEPT ![r] = FALSE]
  /\ disk' = OnDisk(r, f, b)
  /\ deps' = [deps EXCEPT ![r] = @ \union {f}]
  /\ Goto(r, next)
WriteIfAbsent(r, f, b, next) ==   \* mutant: a file that is there already is taken as it is
  /\ IF ~open[r] /\ File(r, f) # NoFile
     THEN /\ deps' = [deps EXCEPT ![r] = @ \union {f}]
          /\ Goto(r, next)
          /\ UNCHANGED <<name, open, disk>>
     ELSE Truncate(r, f) \/ (Complete(r, f, b, next) /\ UNCHANGED name)
  /\ UNCHANGED <<rules, held, store, temps, hist>>
Write(r, f, b, next) ==
  /\ Truncate(r, f) \/ (Complete(r, f, b, next) /\ UNCHANGED name)
  /\ UNCHANGED <<rules, held, store, temps, hist>>

(* Processes that live at the same time have different ids; the id of one   *)
(* that is gone may be given out again.                                     *)
Start(r) ==
  /\ pc[r] = "new"
  /\ \A q \in Live : pid[q] # pid[r]
  /\ temps' = IF IsTemp(r) THEN temps \union {r} ELSE temps
  /\ LET others == {q \in Runs \ {r} : pc[q] # "new" /\ Place(q) = Place(r)} IN
       shared' = shared \union others
                   \union (IF others \intersect Live = {} THEN {} ELSE {r})
  /\ Goto(r, "split")
  /\ UNCHANGED <<rules, name, held, open, deps, store, disk, made>>

(* split_out_composition.                                                   *)
Split(r) ==
  /\ pc[r] = "split"
  /\ \/ Truncate(r, <<"split", None>>)
     \/ /\ Complete(r, <<"split", None>>, Made("split", r), "load")
        /\ name' = [name EXCEPT ![r] = req[r].builtin]
  /\ UNCHANGED <<rules, held, store, temps, hist>>

-----------------------------------------------------------------------------
(* load_resolved_bytes: override, cache, registry.                          *)
Loaded(r, b) ==
  /\ held' = [held EXCEPT ![r] = b]
  /\ Goto(r, IF name[r] = Template THEN "provider" ELSE "materialize")
  /\ UNCHANGED <<rules, name, deps, disk, temps, hist>>

LoadOverride(r) ==
  /\ pc[r] = "load"
  /\ req[r].override
  /\ Loaded(r, Shipped(name[r]))
  /\ UNCHANGED <<open, store>>

LoadUnchecked(r) ==   \* mutant: reads the cache without looking whether the file exists
  /\ pc[r] = "load"
  /\ ~req[r].override
  /\ Loaded(r, cache[name[r]])
  /\ UNCHANGED <<open, store>>

LoadCached(r) ==
  /\ pc[r] = "load"
  /\ ~req[r].override
  /\ cache[name[r]] # NoFile
  /\ Loaded(r, cache[name[r]])
  /\ UNCHANGED <<open, store>>

Miss(r) ==
  /\ pc[r] = "load"
  /\ ~req[r].override
  /\ cache[name[r]] = NoFile
  /\ Goto(r, "pull")
  /\ UNCHANGED <<rules, name, held, open, deps, store, disk, temps, hist>>

Pull(r) ==
  /\ pc[r] = "pull"
  /\ held' = [held EXCEPT ![r] = Shipped(name[r])]
  /\ Goto(r, "store")
  /\ UNCHANGED <<rules, name, open, deps, store, disk, temps, hist>>

TmpPidAnyone(r) == CHOOSE p \in Pids : TRUE   \* mutant: one temporary name for all
TmpPid(r) == pid[r]

(* write_cache_atomically: a temporary file of this process, renamed.       *)
Store(r) ==
  /\ pc[r] = "store"
  /\ tmp' = [tmp EXCEPT ![name[r]][TmpPid(r)] = IF open[r] THEN held[r] ELSE Torn]
  /\ open' = [open EXCEPT ![r] = ~@]
  /\ Goto(r, IF open[r] THEN "rename" ELSE "store")
  /\ UNCHANGED <<rules, name, held, deps, cache, disk, temps, hist>>

Rename(r) ==
  /\ pc[r] = "rename"
  /\ cache' = [cache EXCEPT ![name[r]] = tmp[name[r]][TmpPid(r)]]
  /\ tmp' = [tmp EXCEPT ![name[r]][TmpPid(r)] = NoFile]
  /\ Loaded(r, held[r])
  /\ UNCHANGED open

-----------------------------------------------------------------------------
(* materialize_into, in place.                                              *)
Materialize(r) ==
  /\ pc[r] = "materialize"
  /\ Write(r, BuiltinFile(r), held[r], "inspect")

(* ensure_provider_for reads the file back.  What does not decode is taken  *)
(* for a builtin without the import; values for such a builtin are an error.*)
ImportsSubstrate(b) == b.what \in Consumers
Inspect(r) ==
  /\ pc[r] = "inspect"
  /\ IF ImportsSubstrate(File(r, BuiltinFile(r)))
     THEN name' = [name EXCEPT ![r] = Template] /\ Goto(r, "load")
     ELSE ~req[r].config /\ Goto(r, "contract") /\ UNCHANGED name
  /\ UNCHANGED <<rules, held, open, deps, store, disk, temps, hist>>

(* build_provider patches the values into the template, if it finds where.  *)
Provider(r) ==
  /\ pc[r] = "provider"
  /\ held[r] = Shipped(Template)
  /\ Write(r, <<"provider", None>>, Made("provider", r), "contract")

(* generate_wac: a middleware that cannot be read gets a warning and no     *)
(* adapter; the adapter is generated from a split read at that time.        *)
Contract(r) ==
  /\ pc[r] = "contract"
  /\ IF File(r, BuiltinFile(r)) \in {Torn, NoFile}
     THEN Goto(r, "finish") /\ UNCHANGED held
     ELSE /\ File(r, <<"split", None>>) \notin {Torn, NoFile}
          /\ held' = [held EXCEPT ![r] = Made("adapter", File(r, <<"split", None>>).by)]
          /\ Goto(r, "adapter")
  /\ UNCHANGED <<rules, name, open, deps, store, disk, temps, hist>>

Adapter(r) ==
  /\ pc[r] = "adapter"
  /\ Write(r, <<"adapter", None>>, held[r], "finish")

-----------------------------------------------------------------------------
DroppedNever(r) ==   \* mutant: the guard is leaked on every path
  UNCHANGED <<temps, disk>>
(* SplitsLocation goes out of scope without persist().                      *)
Dropped(r) ==
  /\ temps' = temps \ {r}
  /\ disk' = IF IsTemp(r) THEN [disk EXCEPT ![r] = [f \in Files |-> NoFile]] ELSE disk

(* The end of a process, and of what it had in memory.                      *)
Exit(r, how) ==
  /\ Goto(r, how)
  /\ held' = [held EXCEPT ![r] = NoFile]
  /\ name' = [name EXCEPT ![r] = Template]
  /\ open' = [open EXCEPT ![r] = FALSE]
  /\ UNCHANGED <<rules, store, hist>>

(* finish: with --plan the WAC is written and the command printed.          *)
Plan(r) ==
  /\ pc[r] = "finish"
  /\ req[r].plan
  /\ Exit(r, "planned")
  /\ UNCHANGED <<deps, disk, temps>>

(* Bundle::to_wasm reads every dependency.                                  *)
Compose(r) ==
  /\ pc[r] = "finish"
  /\ ~req[r].plan
  /\ LET inputs == {File(r, f) : f \in deps[r]} IN
     \/ /\ inputs \intersect {Torn, NoFile} = {}
        /\ made' = [made EXCEPT ![r] = inputs]
        /\ Goto(r, "output")
     \/ Goto(r, "preserve") /\ UNCHANGED made
  /\ UNCHANGED <<rules, name, held, open, deps, store, disk, temps, shared>>

Output(r) ==
  /\ pc[r] = "output"
  /\ Exit(r, "composed")
  /\ Dropped(r)
  /\ UNCHANGED deps

PreserveWacOnly(r) ==   \* mutant: persist() is forgotten when composing fails
  /\ pc[r] = "preserve"
  /\ Exit(r, "preserved")
  /\ Dropped(r)
  /\ UNCHANGED deps
(* handle_compose_failure.                                                  *)
Preserve(r) ==
  /\ pc[r] = "preserve"
  /\ Exit(r, "preserved")
  /\ UNCHANGED <<deps, disk, temps>>

(* Any step may return an error (the network, the disk, malformed inputs);  *)
(* the file being written stays as it is.                                   *)
Fail(r) ==
  /\ pc[r] \in Working
  /\ Exit(r, "failed")
  /\ Dropped(r)
  /\ deps' = [deps EXCEPT ![r] = {}]

(* External: the process is killed.                                         *)
Kill(r) ==
  /\ pc[r] \in Working
  /\ Exit(r, "killed")
  /\ deps' = [deps EXCEPT ![r] = {}]
  /\ UNCHANGED <<disk, temps>>

Terminated == (\A r \in Runs : pc[r] \in Over) /\ UNCHANGED vars

Step(r) ==
  \/ Start(r) \/ Split(r)
  \/ LoadOverride(r) \/ LoadCached(r) \/ Miss(r) \/ Pull(r) \/ Store(r) \/ Rename(r)
  \/ Materialize(r) \/ Inspect(r) \/ Provider(r) \/ Contract(r) \/ Adapter(r)
  \/ Plan(r) \/ Compose(r) \/ Output(r) \/ Preserve(r)
Next == (\E r \in Runs : Step(r) \/ Fail(r) \/ Kill(r)) \/ Terminated

Spec == Init /\ [][Next]_vars

-----------------------------------------------------------------------------
(* Every variable ranges over what the code can put in it; bytes are in     *)
(* memory before they are written anywhere, and files appear only where the *)
(* directory exists.                                                        *)
TypeOK ==
  /\ req \in [Runs -> Requests] /\ pid \in [Runs -> Pids]
  /\ pc \in [Runs -> {"new"} \union Working \union Over]
  /\ name \in [Runs -> Names]
  /\ held \in [Runs -> Bytes \union {NoFile}]
  /\ open \in [Runs -> BOOLEAN]
  /\ deps \in [Runs -> SUBSET Files]
  /\ cache \in [Names -> Bytes \union {NoFile}]
  /\ tmp \in [Names -> [Pids -> Bytes \union {NoFile}]]
  /\ disk \in [Places -> [Files -> Bytes \union {NoFile}]]
  /\ temps \subseteq Runs
  /\ made \in [Runs -> SUBSET Bytes]
  /\ shared \subseteq Runs
  /\ \A r \in Runs : pc[r] \in {"store", "rename", "materialize", "provider", "adapter"}
                      => held[r] # NoFile
  /\ \A r \in Runs \ temps : \A f \in Files : disk[r][f] = NoFile

(* What builtins.rs promises to two processes that miss the cache together: *)
(* whatever they do, and wherever one of them is killed or fails, a file in *)
(* the cache is the whole builtin it is named after.                        *)
CacheWhole == \A n \in Names : cache[n] \in {NoFile, Shipped(n)}

(* What a run composes, or leaves for `wac compose`.                        *)
Expected(r) ==
  {Made("split", r), Shipped(req[r].builtin), Made("adapter", r)}
    \union (IF req[r].builtin \in Consumers THEN {Made("provider", r)} ELSE {})

(* A run that has its directory to itself composes its own splits with the  *)
(* whole builtin, its own adapter and, if the builtin takes values, its own *)
(* provider, whatever an earlier run, complete or killed, left there.       *)
OutputFaithful ==
  \A r \in Runs \ shared : pc[r] \in {"output", "composed"} => made[r] = Expected(r)

(* After --plan, and after composing failed, the printed command works: all *)
(* it names is there and whole, until another run uses the directory.       *)
KeptUsable ==
  \A r \in Runs \ shared :
    pc[r] \in {"planned", "preserved"} => {File(r, f) : f \in deps[r]} = Expected(r)

(* A temporary directory lives as long as its run, longer only if composing *)
(* failed or the process was killed; an error anywhere else removes it.     *)
TempsExact ==
  temps = {r \in Runs : IsTemp(r) /\ pc[r] \in Working \union {"preserved", "killed"}}
=============================================================================
