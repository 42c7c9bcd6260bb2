--------------------------- MODULE PipelineProofs ---------------------------
(***************************************************************************)
(* Proofs about Pipeline, for any number of processes, process ids,        *)
(* builtins, directories and command lines.                                *)
(***************************************************************************)
EXTENDS Pipeline, TLAPS

(* The processes see one another only through the directories: what a step  *)
(* of r leaves alone, of other runs and of other places.                    *)
Framed(r) ==
  /\ req' = req /\ pid' = pid
  /\ \A q \in Runs \ {r} : /\ pc'[q] = pc[q] /\ name'[q] = name[q]
                            /\ held'[q] = held[q] /\ open'[q] = open[q]
                            /\ deps'[q] = deps[q] /\ made'[q] = made[q]
  /\ \A d \in Places \ {Place(r)} : disk'[d] = disk[d]
  /\ shared \subseteq shared'

(* A run writes in its own directory, which is one named by a user or the   *)
(* temporary one that bears its name.                                       *)
LEMMA PlaceType ==
  ASSUME TypeOK, NEW r \in Runs
  PROVE  /\ Place(r) \in Places
         /\ Place(r) \in Dirs \union {r}
         /\ req[r].builtin \in Builtins /\ req[r].dir \in Dirs \union {None}
         /\ BuiltinFile(r) \in Files
<1>1. req[r] \in Request
  BY RequestsAssumption DEF TypeOK
<1>2. req[r].builtin \in Builtins /\ req[r].dir \in Dirs \union {None}
  BY <1>1 DEF Request
<1> QED BY <1>2, DirsAssumption DEF Place, Places, BuiltinFile, Files

(* The two kinds of file of a directory for splits.                         *)
LEMMA FilesType ==
  /\ <<"split", None>> \in Files
  /\ <<"provider", None>> \in Files
  /\ <<"adapter", None>> \in Files
BY DEF Files

(* What can be written, and that none of it is the absence of a file.       *)
LEMMA BytesType ==
  /\ Torn \in Bytes /\ Torn # NoFile
  /\ \A n \in Names : /\ Shipped(n) \in Bytes
                       /\ Shipped(n) # NoFile /\ Shipped(n) # Torn
  /\ \A k \in {"split", "provider", "adapter"}, q \in Runs \union {None} :
       Made(k, q) \in Bytes /\ Made(k, q) # NoFile /\ Made(k, q) # Torn
BY NoneAssumption, NamesAssumption DEF Bytes, Torn, NoFile, Shipped, Made, Names

-----------------------------------------------------------------------------
(* Types, and the life of the temporary directories.                        *)
Inv1 == TypeOK /\ TempsExact

LEMMA Init1 == Init => Inv1
<1> SUFFICES ASSUME Init PROVE TypeOK /\ TempsExact BY DEF Inv1
<1>1. Template \in Names BY DEF Names
<1>2. TypeOK BY <1>1 DEF Init, TypeOK, Places
<1>3. TempsExact BY DEF Init, TempsExact, Working
<1> QED BY <1>2, <1>3

(* A file written in two steps, in memory that holds what is written.       *)
LEMMA Write1 ==
  ASSUME Inv1, NEW r \in Runs, pc[r] \in Working,
         NEW f \in Files, NEW b \in Bytes, NEW next \in Working,
         next \in {"store", "rename", "materialize", "provider", "adapter"} => held[r] # NoFile,
         Truncate(r, f) \/ Complete(r, f, b, next),
         name' \in [Runs -> Names],
         UNCHANGED <<rules, held, store, temps, hist>>
  PROVE  Inv1'
<1> USE DEF Inv1
<1>1. Place(r) \in Places /\ Place(r) \in Dirs \union {r} BY PlaceType
<1>2. disk' \in [Places -> [Files -> Bytes \union {NoFile}]]
  <2> DEFINE Content == Bytes \union {NoFile}
  <2>1. disk \in [Places -> [Files -> Content]] BY DEF TypeOK
  <2>2. PICK x \in Content : disk' = OnDisk(r, f, x)
    BY BytesType DEF Truncate, Complete
  <2> HIDE DEF Content
  <2>3. disk' \in [Places -> [Files -> Content]]
    BY <1>1, <2>1, <2>2 DEF OnDisk
  <2> QED BY <2>3 DEF Content
<1>3. \A q \in Runs : Place(q)' = Place(q) BY DEF rules, Place
<1>4. \A d \in Places \ {Place(r)} : disk'[d] = disk[d]
  BY <1>1 DEF Truncate, Complete, OnDisk, TypeOK
<1>5. r \in temps \/ Place(r) \in Dirs
  BY <1>1 DEF TempsExact, IsTemp
<1>6. \A q \in Runs \ temps' : \A g \in Files : disk'[q][g] = NoFile
  BY <1>4, <1>5, <1>1, DirsAssumption DEF TypeOK, Places
<1>7. /\ pc' \in [Runs -> {"new"} \union Working \union Over]
      /\ pc'[r] \in {pc[r], next}
      /\ \A q \in Runs \ {r} : pc'[q] = pc[q]
  <2>1. CASE Truncate(r, f) BY <2>1 DEF Truncate, TypeOK
  <2>2. CASE Complete(r, f, b, next) BY <2>2 DEF Complete, Goto, TypeOK
  <2> QED BY <2>1, <2>2
<1>8. deps' \in [Runs -> SUBSET Files] /\ open' \in [Runs -> BOOLEAN]
  <2>1. deps \in [Runs -> SUBSET Files] /\ open \in [Runs -> BOOLEAN] BY DEF TypeOK
  <2>2. CASE Truncate(r, f) BY <2>1, <2>2 DEF Truncate
  <2>3. CASE Complete(r, f, b, next) BY <2>1, <2>3 DEF Complete
  <2> QED BY <2>2, <2>3
<1>9. TypeOK'
  BY <1>2, <1>6, <1>7, <1>8 DEF TypeOK, Truncate, Complete, rules, hist, store
<1>10. TempsExact'
  BY <1>3, <1>7 DEF TempsExact, IsTemp, TypeOK
<1> QED BY <1>9, <1>10

LEMMA Exit1 ==
  ASSUME Inv1, NEW r \in Runs, pc[r] \in Working, NEW how \in Over,
         Exit(r, how), deps' \in [Runs -> SUBSET Files],
         \/ Dropped(r) /\ how \notin {"preserved", "killed"}
         \/ UNCHANGED <<disk, temps>> /\ (how \in {"preserved", "killed"} \/ ~IsTemp(r))
  PROVE  Inv1'
<1> USE DEF Inv1
<1>1. Place(r) \in Dirs \union {r} BY PlaceType
<1>2. \A q \in Runs : IsTemp(q)' = IsTemp(q) BY DEF Exit, rules, Place, IsTemp
<1>3. /\ pc' \in [Runs -> {"new"} \union Working \union Over]
      /\ pc'[r] = how
      /\ \A q \in Runs \ {r} : pc'[q] = pc[q]
  BY DEF TypeOK, Exit, Goto
<1>4. TempsExact'
  BY <1>2, <1>3 DEF TempsExact, TypeOK, Dropped, Working, Over
<1>5. /\ name' \in [Runs -> Names] /\ held' \in [Runs -> Bytes \union {NoFile}]
      /\ open' \in [Runs -> BOOLEAN]
      /\ \A q \in Runs \ {r} : held'[q] = held[q]
  BY DEF Exit, TypeOK, Names
<1>6. disk' \in [Places -> [Files -> Bytes \union {NoFile}]] /\ temps' \subseteq Runs
  <2>1. disk \in [Places -> [Files -> Bytes \union {NoFile}]] /\ temps \subseteq Runs
    BY DEF TypeOK
  <2>2. [f \in Files |-> NoFile] \in [Files -> Bytes \union {NoFile}] OBVIOUS
  <2> QED BY <2>1, <2>2 DEF Dropped
<1>7. \A q \in Runs \ temps' : \A g \in Files : disk'[q][g] = NoFile
  <2>1. CASE Dropped(r) /\ IsTemp(r)
    BY <2>1 DEF Dropped, TypeOK, Places
  <2>2. CASE ~IsTemp(r)
    BY <2>2 DEF Dropped, TypeOK, TempsExact
  <2>3. CASE UNCHANGED <<disk, temps>>
    BY <2>3 DEF TypeOK
  <2> QED BY <2>1, <2>2, <2>3
<1>8. TypeOK'
  BY <1>3, <1>5, <1>6, <1>7 DEF TypeOK, Exit, rules, store, hist, Over
<1> QED BY <1>4, <1>8

(* A step that writes nothing in a directory for splits.                    *)
LEMMA Memory1 ==
  ASSUME Inv1, NEW r \in Runs, pc[r] \in Working,
         NEW step \in Working, Goto(r, step),
         UNCHANGED <<rules, disk, temps, shared>>,
         name' \in [Runs -> Names], open' \in [Runs -> BOOLEAN],
         held' \in [Runs -> Bytes \union {NoFile}],
         deps' \in [Runs -> SUBSET Files], made' \in [Runs -> SUBSET Bytes],
         cache' \in [Names -> Bytes \union {NoFile}],
         tmp' \in [Names -> [Pids -> Bytes \union {NoFile}]],
         \A q \in Runs \ {r} : held'[q] = held[q],
         step \in {"store", "rename", "materialize", "provider", "adapter"} => held'[r] # NoFile
  PROVE  Inv1'
<1> USE DEF Inv1
<1>1. \A q \in Runs : IsTemp(q)' = IsTemp(q) BY DEF rules, Place, IsTemp
<1>2. /\ pc' \in [Runs -> {"new"} \union Working \union Over]
      /\ pc'[r] = step
      /\ \A q \in Runs \ {r} : pc'[q] = pc[q]
  BY DEF TypeOK, Goto
<1>3. TempsExact' BY <1>1, <1>2 DEF TempsExact
<1>4. TypeOK' BY <1>2 DEF TypeOK, rules
<1> QED BY <1>3, <1>4

(* Every step of a run, of the ones that go on: types and directories.      *)
LEMMA Step1 ==
  ASSUME Inv1, NEW r \in Runs, Step(r)
  PROVE  Inv1'
<1> USE DEF Inv1
<1>0. /\ Place(r) \in Dirs \union {r} /\ BuiltinFile(r) \in Files
      /\ req[r].builtin \in Builtins
  BY PlaceType
<1> DEFINE Loud == {"store", "rename", "materialize", "provider", "adapter"}
<1>t. /\ name \in [Runs -> Names] /\ open \in [Runs -> BOOLEAN]
      /\ held \in [Runs -> Bytes \union {NoFile}]
      /\ deps \in [Runs -> SUBSET Files] /\ made \in [Runs -> SUBSET Bytes]
      /\ cache \in [Names -> Bytes \union {NoFile}]
      /\ tmp \in [Names -> [Pids -> Bytes \union {NoFile}]]
      /\ \A q \in Runs : pc[q] \in Loud => held[q] # NoFile
  BY DEF TypeOK
<1>1. CASE Start(r)
  <2>1. \A q \in Runs : IsTemp(q)' = IsTemp(q) BY <1>1 DEF Start, rules, Place, IsTemp
  <2>2. /\ pc' \in [Runs -> {"new"} \union Working \union Over]
        /\ pc'[r] = "split" /\ \A q \in Runs \ {r} : pc'[q] = pc[q]
    BY <1>1 DEF TypeOK, Start, Goto, Working
  <2>3. TempsExact'
    BY <1>1, <2>1, <2>2 DEF TempsExact, Start, Working
  <2>4. temps \subseteq temps' /\ temps' \subseteq Runs /\ shared' \subseteq Runs
    BY <1>1 DEF Start, TypeOK
  <2>5. TypeOK' BY <1>1, <2>2, <2>4 DEF Start, TypeOK, rules, store
  <2> QED BY <2>3, <2>5
<1>2. CASE Split(r)
  <2>1. name' \in [Runs -> Names]
    BY <1>0, <1>2, <1>t DEF Split, Truncate, Complete, Names
  <2>2. Made("split", r) \in Bytes BY BytesType
  <2>3. \/ Truncate(r, <<"split", None>>)
        \/ Complete(r, <<"split", None>>, Made("split", r), "load")
    BY <1>2 DEF Split
  <2> QED BY <1>2, <2>1, <2>2, <2>3, Write1, FilesType DEF Split, Working
<1>3. CASE LoadOverride(r) \/ LoadCached(r)
  <2>1. PICK b \in Bytes : Loaded(r, b) /\ b # NoFile
    BY <1>3, <1>t, BytesType DEF LoadOverride, LoadCached
  <2>2. PICK step \in {"provider", "materialize"} : Goto(r, step)
    BY <2>1 DEF Loaded
  <2> QED BY <1>3, <1>t, <2>1, <2>2, Memory1
          DEF Loaded, LoadOverride, LoadCached, hist, store, Working
<1>4. CASE Miss(r)
  BY <1>4, <1>t, Memory1 DEF Miss, hist, store, Working
<1>5. CASE Pull(r)
  <2>1. Shipped(name[r]) \in Bytes /\ Shipped(name[r]) # NoFile BY <1>t, BytesType
  <2> QED BY <1>5, <1>t, <2>1, Memory1 DEF Pull, hist, store, Working
<1>6. CASE Store(r)
  <2>1. PICK x \in Bytes \union {NoFile} : tmp' = [tmp EXCEPT ![name[r]][pid[r]] = x]
    BY <1>6, <1>t, BytesType DEF Store, TmpPid
  <2>2. tmp' \in [Names -> [Pids -> Bytes \union {NoFile}]] BY <1>t, <2>1
  <2>3. PICK step \in {"rename", "store"} : Goto(r, step) BY <1>6 DEF Store
  <2>4. open' \in [Runs -> BOOLEAN] BY <1>6, <1>t DEF Store
  <2>5. held'[r] # NoFile BY <1>6, <1>t DEF Store
  <2> QED BY <1>6, <1>t, <2>2, <2>3, <2>4, <2>5, Memory1 DEF Store, hist, Working
<1>7. CASE Rename(r)
  <2>1. /\ cache' \in [Names -> Bytes \union {NoFile}]
        /\ tmp' \in [Names -> [Pids -> Bytes \union {NoFile}]]
    <3>1. pid[r] \in Pids /\ name[r] \in Names BY DEF TypeOK
    <3> QED BY <1>7, <1>t, <3>1 DEF Rename, TmpPid
  <2>2. PICK step \in {"provider", "materialize"} : Goto(r, step)
    BY <1>7 DEF Rename, Loaded
  <2>3. held' = held /\ held[r] # NoFile BY <1>7, <1>t DEF Rename, Loaded
  <2> QED BY <1>7, <1>t, <2>1, <2>2, <2>3, Memory1 DEF Rename, Loaded, hist, Working
<1>8. CASE Materialize(r)
  <2>1. held[r] \in Bytes BY <1>8, <1>t DEF Materialize
  <2> QED BY <1>0, <1>8, <1>t, <2>1, Write1 DEF Materialize, Write, Complete, Truncate, Working
<1>9. CASE Inspect(r)
  <2>1. name' \in [Runs -> Names] BY <1>9, <1>t DEF Inspect, Names
  <2>2. PICK step \in {"load", "contract"} : Goto(r, step) BY <1>9 DEF Inspect
  <2> QED BY <1>9, <1>t, <2>1, <2>2, Memory1 DEF Inspect, hist, store, Working
<1>10. CASE Provider(r)
  <2>1. Made("provider", r) \in Bytes BY BytesType
  <2> QED BY <1>10, <1>t, <2>1, FilesType, Write1
          DEF Provider, Write, Complete, Truncate, Working
<1>11. CASE Contract(r)
  <2>1. CASE held' = held /\ Goto(r, "finish")
    BY <1>11, <1>t, <2>1, Memory1 DEF Contract, hist, store, Working
  <2>2. CASE /\ File(r, <<"split", None>>) \notin {Torn, NoFile}
             /\ held' = [held EXCEPT ![r] = Made("adapter", File(r, <<"split", None>>).by)]
             /\ Goto(r, "adapter")
    <3>1. File(r, <<"split", None>>).by \in Runs \union {None}
      BY <1>0, <2>2, FilesType, PlaceType DEF File, TypeOK, Bytes
    <3>2. PICK x \in Bytes : x # NoFile /\ held' = [held EXCEPT ![r] = x]
      BY <2>2, <3>1, BytesType
    <3> QED BY <1>11, <1>t, <2>2, <3>2, Memory1 DEF Contract, hist, store, Working
  <2> QED BY <1>11, <2>1, <2>2 DEF Contract
<1>12. CASE Adapter(r)
  <2>1. held[r] \in Bytes BY <1>12, <1>t DEF Adapter
  <2> QED BY <1>12, <1>t, <2>1, FilesType, Write1
          DEF Adapter, Write, Complete, Truncate, Working
<1>13. CASE Plan(r)
  <2>1. ~IsTemp(r)
    BY <1>13, PlaceType, DirsAssumption DEF Plan, IsTemp, Place
  <2> QED BY <1>13, <1>t, <2>1, Exit1 DEF Plan, Over, Working
<1>14. CASE Compose(r)
  <2>1. made' \in [Runs -> SUBSET Bytes]
    <3>1. \A f \in deps[r] : File(r, f) \in Bytes \union {NoFile}
      BY <1>t, PlaceType DEF File, TypeOK
    <3> DEFINE inputs == {File(r, f) : f \in deps[r]}
    <3>2. inputs \subseteq Bytes \union {NoFile} BY <3>1
    <3>3. made' = made \/ (NoFile \notin inputs /\ made' = [made EXCEPT ![r] = inputs])
      BY <1>14 DEF Compose
    <3>4. NoFile \notin inputs => inputs \in SUBSET Bytes BY <3>2
    <3> QED BY <1>t, <3>3, <3>4
  <2>2. PICK step \in {"output", "preserve"} : Goto(r, step) BY <1>14 DEF Compose
  <2> QED BY <1>14, <1>t, <2>1, <2>2, Memory1 DEF Compose, store, Working
<1>15. CASE Output(r)
  BY <1>15, <1>t, Exit1 DEF Output, Over, Working
<1>16. CASE Preserve(r)
  BY <1>16, <1>t, Exit1 DEF Preserve, Over, Working
<1> QED
  BY <1>1, <1>2, <1>3, <1>4, <1>5, <1>6, <1>7, <1>8, <1>9, <1>10, <1>11, <1>12,
     <1>13, <1>14, <1>15, <1>16 DEF Step

LEMMA Next1 == Inv1 /\ [Next]_vars => Inv1'
<1> SUFFICES ASSUME Inv1, [Next]_vars PROVE Inv1' OBVIOUS
<1>1. CASE \E r \in Runs : Step(r) BY <1>1, Step1
<1>2. ASSUME NEW r \in Runs, Fail(r) \/ Kill(r) PROVE Inv1'
  <2>1. deps' \in [Runs -> SUBSET Files] BY <1>2 DEF Inv1, TypeOK, Fail, Kill
  <2> QED BY <1>2, <2>1, Exit1 DEF Fail, Kill, Over
<1>3. CASE UNCHANGED vars
  BY <1>3 DEF Inv1, TypeOK, TempsExact, IsTemp, Place, vars
<1> QED BY <1>1, <1>2, <1>3 DEF Next, Terminated

(* Every variable keeps its type, and what is about to be written anywhere  *)
(* is in memory.                                                            *)
THEOREM TypeCorrect == Spec => []TypeOK
<1>1. Inv1 => TypeOK BY DEF Inv1
<1> QED BY Init1, Next1, <1>1, PTL DEF Spec

(* Only the temporary directories that must still be there are there.       *)
THEOREM TempsAreExact == Spec => []TempsExact
<1>1. Inv1 => TempsExact BY DEF Inv1
<1> QED BY Init1, Next1, <1>1, PTL DEF Spec

-----------------------------------------------------------------------------
(* The frame of a step.                                                     *)
LEMMA WriteFrame ==
  ASSUME TypeOK, NEW r \in Runs, NEW f, NEW b, NEW next, Write(r, f, b, next)
  PROVE  Framed(r)
<1>1. Place(r) \in Places BY PlaceType
<1>2. CASE Truncate(r, f)
  BY <1>1, <1>2 DEF Framed, Write, Truncate, OnDisk, TypeOK, rules, hist
<1>3. CASE Complete(r, f, b, next) /\ UNCHANGED name
  BY <1>1, <1>3 DEF Framed, Write, Complete, Goto, OnDisk, TypeOK, rules, hist
<1> QED BY <1>2, <1>3 DEF Write

LEMMA StepFrame ==
  ASSUME TypeOK, NEW r \in Runs, Step(r) \/ Fail(r) \/ Kill(r)
  PROVE  Framed(r)
<1>0. Place(r) \in Places BY PlaceType
<1>1. CASE Start(r)
  BY <1>1 DEF Framed, Start, Goto, TypeOK, rules, store
<1>2. CASE Split(r)
  <2>1. CASE Truncate(r, <<"split", None>>)
    BY <1>0, <1>2, <2>1 DEF Framed, Split, Truncate, OnDisk, TypeOK, rules, hist
  <2>2. CASE /\ Complete(r, <<"split", None>>, Made("split", r), "load")
             /\ name' = [name EXCEPT ![r] = req[r].builtin]
    BY <1>0, <1>2, <2>2 DEF Framed, Split, Complete, Goto, OnDisk, TypeOK, rules, hist
  <2> QED BY <1>2, <2>1, <2>2 DEF Split
<1>3. CASE LoadOverride(r) \/ LoadCached(r)
  BY <1>3 DEF Framed, LoadOverride, LoadCached, Loaded, Goto, TypeOK, rules, hist
<1>4. CASE Miss(r) \/ Pull(r)
  BY <1>4 DEF Framed, Miss, Pull, Goto, TypeOK, rules, hist
<1>5. CASE Store(r)
  BY <1>5 DEF Framed, Store, Goto, TypeOK, rules, hist
<1>6. CASE Rename(r)
  BY <1>6 DEF Framed, Rename, Loaded, Goto, TypeOK, rules, hist
<1>7. CASE Materialize(r) \/ Provider(r) \/ Adapter(r)
  BY <1>7, WriteFrame DEF Materialize, Provider, Adapter
<1>8. CASE Inspect(r)
  BY <1>8 DEF Framed, Inspect, Goto, TypeOK, rules, hist
<1>9. CASE Contract(r)
  BY <1>9 DEF Framed, Contract, Goto, TypeOK, rules, hist
<1>10. CASE Compose(r)
  BY <1>10 DEF Framed, Compose, Goto, TypeOK, rules
<1>11. CASE Plan(r) \/ Preserve(r)
  BY <1>11 DEF Framed, Plan, Preserve, Exit, Goto, TypeOK, rules, hist
<1>12. CASE Output(r) \/ Fail(r) \/ Kill(r)
  <2>1. IsTemp(r) => Place(r) = r BY DEF IsTemp
  <2>2. \A d \in Places \ {Place(r)} : disk'[d] = disk[d]
    BY <1>12, <2>1 DEF Output, Fail, Kill, Dropped, TypeOK
  <2>3. PICK how \in Over : Exit(r, how)
    BY <1>12 DEF Output, Fail, Kill, Over
  <2>4. \A q \in Runs \ {r} : deps'[q] = deps[q]
    BY <1>12 DEF Output, Fail, Kill, TypeOK
  <2> QED BY <2>2, <2>3, <2>4 DEF Framed, Exit, Goto, TypeOK, rules, hist
<1> QED
  BY <1>1, <1>2, <1>3, <1>4, <1>5, <1>6, <1>7, <1>8, <1>9, <1>10, <1>11, <1>12 DEF Step

-----------------------------------------------------------------------------
(* The cache.  A temporary file is named after a process that lives, so no  *)
(* other one touches it between the write and the rename; whatever is       *)
(* written there came out of the registry in the same process.              *)
PidsApart == \A q, r \in Live : q # r => pid[q] # pid[r]
HeldWhole == \A r \in Runs : pc[r] \in {"store", "rename"} => held[r] = Shipped(name[r])
TmpWhole  == \A r \in Runs : pc[r] = "rename" => tmp[name[r]][pid[r]] = Shipped(name[r])
Inv2 == PidsApart /\ HeldWhole /\ TmpWhole /\ CacheWhole

LEMMA Init2 == Init => Inv2
BY DEF Init, Inv2, PidsApart, HeldWhole, TmpWhole, CacheWhole, Live, Working

(* A step after which r is not about to store or rename.                    *)
LEMMA Quiet2 ==
  ASSUME TypeOK, Inv2, NEW r \in Runs, Framed(r), UNCHANGED <<cache, tmp>>,
         pc'[r] \notin {"store", "rename"},
         pc[r] \in Working \/ \A q \in Live : pid[q] # pid[r]
  PROVE  Inv2'
<1>1. \A q \in Runs \ {r} : pc'[q] = pc[q] /\ pid'[q] = pid[q]
  BY DEF Framed
<1>2. PidsApart'
  BY <1>1 DEF Inv2, PidsApart, Live, Framed
<1>3. HeldWhole' BY DEF Inv2, HeldWhole, Framed
<1>4. TmpWhole' BY DEF Inv2, TmpWhole, Framed
<1> QED BY <1>2, <1>3, <1>4 DEF Inv2, CacheWhole

LEMMA Next2 == Inv1 /\ Inv2 /\ [Next]_vars => Inv2'
<1> SUFFICES ASSUME TypeOK, Inv2, [Next]_vars PROVE Inv2' BY DEF Inv1
<1>1. ASSUME NEW r \in Runs, Step(r) \/ Fail(r) \/ Kill(r) PROVE Inv2'
  <2>0. Framed(r) BY <1>1, StepFrame
  <2>t. pc \in [Runs -> {"new"} \union Working \union Over] BY DEF TypeOK
  <2>1. CASE Start(r)
    BY <2>0, <2>1, <2>t, Quiet2 DEF Start, store, Goto
  <2>2. CASE Pull(r)
    <3>1. PidsApart'
      BY <2>0, <2>2, <2>t DEF Pull, Goto, Framed, Inv2, PidsApart, Live, Working
    <3>2. HeldWhole'
      BY <2>0, <2>2, <2>t DEF Pull, Goto, Framed, Inv2, HeldWhole, TypeOK
    <3>3. TmpWhole'
      BY <2>0, <2>2, <2>t DEF Pull, Goto, Framed, Inv2, TmpWhole, store
    <3> QED BY <2>2, <3>1, <3>2, <3>3 DEF Inv2, CacheWhole, Pull, store
  <2>3. CASE Store(r)
    <3>1. PidsApart'
      BY <2>0, <2>3, <2>t DEF Store, Goto, Framed, Inv2, PidsApart, Live, Working
    <3>2. HeldWhole'
      BY <2>0, <2>3, <2>t DEF Store, Goto, Framed, Inv2, HeldWhole
    <3>3. TmpWhole'
      <4> SUFFICES ASSUME NEW q \in Runs, pc'[q] = "rename"
                   PROVE  tmp'[name[q]][pid[q]] = Shipped(name[q])
        BY <2>0, <2>3 DEF TmpWhole, Store, rules
      <4>1. name[q] \in Names /\ pid[q] \in Pids /\ tmp \in [Names -> [Pids -> Bytes \union {NoFile}]]
        BY DEF TypeOK
      <4>2. CASE q = r
        BY <2>3, <2>t, <4>1, <4>2 DEF Store, TmpPid, Goto, Inv2, HeldWhole
      <4>3. CASE q # r
        <5>1. pc[q] = "rename" /\ pid[q] # pid[r]
          BY <2>0, <2>3, <4>3 DEF Framed, Inv2, PidsApart, Live, Store, Working
        <5> QED BY <2>3, <4>1, <5>1 DEF Store, TmpPid, Inv2, TmpWhole
      <4> QED BY <4>2, <4>3
    <3> QED BY <2>3, <3>1, <3>2, <3>3 DEF Inv2, CacheWhole, Store
  <2>4. CASE Rename(r)
    <3>1. PidsApart'
      BY <2>0, <2>4, <2>t DEF Rename, Loaded, Goto, Framed, Inv2, PidsApart, Live, Working
    <3>2. HeldWhole'
      BY <2>0, <2>4, <2>t DEF Rename, Loaded, Goto, Framed, Inv2, HeldWhole
    <3>3. TmpWhole'
      <4> SUFFICES ASSUME NEW q \in Runs, pc'[q] = "rename"
                   PROVE  tmp'[name[q]][pid[q]] = Shipped(name[q])
        BY <2>0, <2>4 DEF TmpWhole, Rename, Loaded, rules
      <4>1. name[q] \in Names /\ pid[q] \in Pids /\ tmp \in [Names -> [Pids -> Bytes \union {NoFile}]]
        BY DEF TypeOK
      <4>2. q # r BY <2>4, <2>t DEF Rename, Loaded, Goto
      <4>3. pc[q] = "rename" /\ pid[q] # pid[r]
        BY <2>0, <2>4, <4>2 DEF Framed, Inv2, PidsApart, Live, Rename, Working
      <4> QED BY <2>4, <4>1, <4>3 DEF Rename, TmpPid, Inv2, TmpWhole
    <3>4. CacheWhole'
      <4>1. tmp[name[r]][pid[r]] = Shipped(name[r]) /\ name[r] \in Names
        BY <2>4 DEF Inv2, TmpWhole, Rename, TypeOK
      <4>2. cache' = [cache EXCEPT ![name[r]] = Shipped(name[r])]
        BY <2>4, <4>1 DEF Rename, TmpPid
      <4> QED BY <4>1, <4>2 DEF Inv2, CacheWhole, TypeOK
    <3> QED BY <3>1, <3>2, <3>3, <3>4 DEF Inv2
  <2>5. CASE Split(r)
    BY <2>0, <2>5, <2>t, Quiet2 DEF Split, Truncate, Complete, Goto, store, Working
  <2>6. CASE LoadOverride(r) \/ LoadCached(r) \/ Miss(r)
    BY <2>0, <2>6, <2>t, Quiet2
       DEF LoadOverride, LoadCached, Miss, Loaded, Goto, store, Working
  <2>7. CASE Materialize(r) \/ Provider(r) \/ Adapter(r)
    BY <2>0, <2>7, <2>t, Quiet2
       DEF Materialize, Provider, Adapter, Write, Truncate, Complete, Goto, store, Working
  <2>8. CASE Inspect(r) \/ Contract(r) \/ Compose(r)
    BY <2>0, <2>8, <2>t, Quiet2 DEF Inspect, Contract, Compose, Goto, store, Working
  <2>9. CASE Plan(r) \/ Preserve(r) \/ Output(r) \/ Fail(r) \/ Kill(r)
    BY <2>0, <2>9, <2>t, Quiet2
       DEF Plan, Preserve, Output, Fail, Kill, Exit, Goto, store, Working
  <2> QED BY <1>1, <2>1, <2>2, <2>3, <2>4, <2>5, <2>6, <2>7, <2>8, <2>9 DEF Step
<1>2. CASE UNCHANGED vars
  BY <1>2 DEF Inv2, PidsApart, HeldWhole, TmpWhole, CacheWhole, Live, vars
<1> QED BY <1>1, <1>2 DEF Next, Terminated

(* Whatever the processes do and wherever they are killed, a file in the    *)
(* cache is the whole builtin it is named after.                            *)
THEOREM CacheStaysWhole == Spec => []CacheWhole
<1>1. Inv2 => CacheWhole BY DEF Inv2
<1> QED BY Init1, Init2, Next1, Next2, <1>1, PTL DEF Spec

-----------------------------------------------------------------------------
(* What a run composes.  A run that is not shared is the only one that      *)
(* writes in its directory, from its start until another run starts there   *)
(* after it has ended; so each file it depends on holds what it wrote, and  *)
(* it depends on exactly the files that the steps behind it wrote.          *)
Kept == {"planned", "preserved"}
Loading == {"load", "pull", "store", "rename"}
Built == {"contract", "adapter", "finish", "preserve", "output"} \union Kept

Fresh == \A r \in Runs : pc[r] = "new" => deps[r] = {}

Alone ==
  \A r \in Runs \ shared, q \in Runs :
    r # q /\ pc[r] \in Working \union Kept /\ pc[q] \in Working => Place(q) # Place(r)

Due(r, f) ==
  \/ f = <<"split", None>> /\ pc[r] # "split"
  \/ /\ f = BuiltinFile(r)
     /\ pc[r] \in {"inspect", "provider"} \union Built \/ (pc[r] \in Loading /\ name[r] = Template)
  \/ f = <<"provider", None>> /\ req[r].builtin \in Consumers /\ pc[r] \in Built
  \/ f = <<"adapter", None>> /\ pc[r] \in {"finish", "preserve", "output"} \union Kept
DepsDue(r) == \A f \in Files : f \in deps[r] <=> Due(r, f)

Want(r, f) ==
  IF f[1] = "builtin" THEN Shipped(req[r].builtin) ELSE Made(f[1], r)
DepsHold(r) == \A f \in deps[r] : File(r, f) = Want(r, f)

InHand(r) ==
  /\ pc[r] \in Loading => name[r] \in {req[r].builtin, Template}
  /\ pc[r] \in Loading \union {"provider"} /\ name[r] = Template => req[r].builtin \in Consumers
  /\ pc[r] = "provider" => name[r] = Template
  /\ pc[r] \in {"materialize", "inspect"} => name[r] = req[r].builtin
  /\ pc[r] = "materialize" => held[r] = Shipped(req[r].builtin)
  /\ pc[r] = "adapter" => held[r] = Made("adapter", r)

Progress(r) == DepsDue(r) /\ DepsHold(r) /\ InHand(r)
Inv3 ==
  /\ Fresh /\ Alone
  /\ \A r \in Runs \ shared : pc[r] \in Working \union Kept => Progress(r)
  /\ OutputFaithful

LEMMA Init3 == Init => Inv3
BY DEF Init, Inv3, Fresh, Alone, OutputFaithful, Working, Kept

(* The content of the files a run has to itself, by name.                   *)
LEMMA Whole ==
  ASSUME TypeOK, NEW r \in Runs, DepsDue(r), DepsHold(r),
         pc[r] \in {"finish", "preserve", "output"} \union Kept
  PROVE  {File(r, f) : f \in deps[r]} = Expected(r)
<1>0. deps[r] \subseteq Files BY DEF TypeOK
<1>1. \A f \in deps[r] : File(r, f) \in Expected(r)
  <2> SUFFICES ASSUME NEW f \in deps[r] PROVE Want(r, f) \in Expected(r)
    BY DEF DepsHold
  <2>1. Due(r, f) BY <1>0 DEF DepsDue
  <2> QED BY <2>1 DEF Due, Want, Expected, BuiltinFile
<1>2. \A x \in Expected(r) : \E f \in deps[r] : File(r, f) = x
  <2>1. BuiltinFile(r) \in deps[r] /\ <<"split", None>> \in deps[r] /\ <<"adapter", None>> \in deps[r]
    BY FilesType, PlaceType DEF DepsDue, Due, Built, Kept
  <2>2. req[r].builtin \in Consumers => <<"provider", None>> \in deps[r]
    BY FilesType DEF DepsDue, Due, Built, Kept
  <2>3. /\ File(r, BuiltinFile(r)) = Shipped(req[r].builtin)
        /\ File(r, <<"split", None>>) = Made("split", r)
        /\ File(r, <<"adapter", None>>) = Made("adapter", r)
    BY <2>1 DEF DepsHold, Want, BuiltinFile
  <2>4. req[r].builtin \in Consumers => File(r, <<"provider", None>>) = Made("provider", r)
    BY <2>2 DEF DepsHold, Want
  <2> QED BY <2>1, <2>2, <2>3, <2>4 DEF Expected
<1> QED BY <1>1, <1>2

(* Writing a file that is not due yet, then the file that is due next.      *)
LEMMA Write3 ==
  ASSUME TypeOK, TypeOK', NEW r \in Runs, DepsDue(r), DepsHold(r), req' = req,
         NEW f \in Files, ~Due(r, f), NEW next,
         \/ Truncate(r, f) /\ name' = name
         \/ /\ Complete(r, f, Want(r, f), next)
            /\ \A g \in Files : Due(r, g)' <=> (Due(r, g) \/ g = f)
  PROVE  DepsDue(r)' /\ DepsHold(r)'
<1>0. /\ Place(r) \in Places /\ Place(r)' = Place(r)
      /\ \A g : Want(r, g)' = Want(r, g)
      /\ \A g : File(r, g)' = disk'[Place(r)][g]
  BY PlaceType DEF Place, Want, File
<1>1. f \notin deps[r] BY DEF DepsDue
<1>2. CASE Truncate(r, f) /\ name' = name
  <2>1. deps' = deps /\ pc' = pc BY <1>2 DEF Truncate
  <2>2. \A g \in Files : Due(r, g)' <=> Due(r, g) BY <1>2, <2>1 DEF Due, BuiltinFile
  <2>3. \A g \in Files \ {f} : disk'[Place(r)][g] = disk[Place(r)][g]
    BY <1>0, <1>2 DEF Truncate, OnDisk, TypeOK
  <2>4. deps[r] \subseteq Files BY DEF TypeOK
  <2>5. DepsDue(r)' BY <2>1, <2>2 DEF DepsDue
  <2>6. DepsHold(r)' BY <1>0, <1>1, <2>1, <2>3, <2>4 DEF DepsHold, File
  <2> QED BY <2>5, <2>6
<1>3. CASE /\ Complete(r, f, Want(r, f), next)
           /\ \A g \in Files : Due(r, g)' <=> (Due(r, g) \/ g = f)
  <2>1. deps'[r] = deps[r] \union {f} BY <1>3 DEF Complete, TypeOK
  <2>2. /\ disk'[Place(r)][f] = Want(r, f)
        /\ \A g \in Files \ {f} : disk'[Place(r)][g] = disk[Place(r)][g]
    BY <1>0, <1>3 DEF Complete, OnDisk, TypeOK
  <2>3. deps[r] \subseteq Files BY DEF TypeOK
  <2>4. DepsDue(r)' BY <1>3, <2>1 DEF DepsDue
  <2>5. DepsHold(r)' BY <1>0, <2>1, <2>2, <2>3 DEF DepsHold, File
  <2> QED BY <2>4, <2>5
<1> QED BY <1>2, <1>3

(* A step that writes nothing and after which no other file is due.         *)
LEMMA Same3 ==
  ASSUME TypeOK, NEW r \in Runs, DepsDue(r), DepsHold(r), req' = req,
         deps' = deps, disk' = disk, \A g \in Files : Due(r, g)' <=> Due(r, g)
  PROVE  DepsDue(r)' /\ DepsHold(r)'
<1>1. Place(r)' = Place(r) /\ \A g : Want(r, g)' = Want(r, g)
  BY DEF Place, Want
<1> QED BY <1>1 DEF DepsDue, DepsHold, File

(* A run that has its directory to itself makes progress.                   *)
LEMMA Own3 ==
  ASSUME Inv1, Inv1', Inv2, NEW r \in Runs, Progress(r), pc[r] \in Working,
         Step(r), pc'[r] \in Working \union Kept
  PROVE  Progress(r)'
<1> USE DEF Inv1
<1>0. /\ req[r].builtin \in Builtins /\ BuiltinFile(r) \in Files
      /\ Template \notin Builtins
  BY PlaceType, BuiltinsAssumption
<1>t. /\ pc \in [Runs -> {"new"} \union Working \union Over] /\ name \in [Runs -> Names]
      /\ held \in [Runs -> Bytes \union {NoFile}]
  BY DEF TypeOK
<1>p. DepsDue(r) /\ DepsHold(r) /\ InHand(r) BY DEF Progress
<1>f. req' = req BY StepFrame DEF Framed
<1> USE DEF Loading, Built, Kept
<1>1. CASE Split(r)
  <2>1. ~Due(r, <<"split", None>>) BY <1>1 DEF Due, Split, BuiltinFile
  <2>2. Want(r, <<"split", None>>) = Made("split", r) BY DEF Want
  <2>3. CASE Truncate(r, <<"split", None>>)
    <3>1. name' = name /\ pc' = pc /\ pc[r] = "split" BY <1>1, <2>3 DEF Truncate, Split
    <3>2. InHand(r)' BY <3>1 DEF InHand
    <3> QED BY <1>f, <1>p, <2>1, <2>3, <3>1, <3>2, FilesType, Write3 DEF Progress
  <2>4. CASE /\ Complete(r, <<"split", None>>, Made("split", r), "load")
             /\ name' = [name EXCEPT ![r] = req[r].builtin]
    <3>1. pc[r] = "split" /\ pc'[r] = "load" /\ name'[r] = req[r].builtin
      BY <1>1, <1>t, <2>4 DEF Split, Complete, Goto
    <3>2. \A g \in Files : Due(r, g)' <=> (Due(r, g) \/ g = <<"split", None>>)
      BY <1>0, <1>f, <3>1 DEF Due, BuiltinFile
    <3>3. InHand(r)' BY <1>0, <1>f, <3>1 DEF InHand
    <3> QED BY <1>f, <1>p, <2>1, <2>2, <2>4, <3>2, <3>3, FilesType, Write3 DEF Progress
  <2> QED BY <1>1, <2>3, <2>4 DEF Split
<1>2. CASE LoadOverride(r) \/ LoadCached(r) \/ Rename(r)
  <2>1. Loaded(r, Shipped(name[r])) /\ pc[r] \in Loading
    BY <1>2, <1>t DEF LoadOverride, LoadCached, Rename, Inv2, CacheWhole, HeldWhole
  <2>2. /\ pc'[r] = IF name[r] = Template THEN "provider" ELSE "materialize"
        /\ name' = name /\ held'[r] = Shipped(name[r])
    BY <1>t, <2>1 DEF Loaded, Goto
  <2>3. InHand(r)' BY <1>f, <1>p, <2>1, <2>2 DEF InHand
  <2>4. \A g \in Files : Due(r, g)' <=> Due(r, g)
    BY <1>f, <2>1, <2>2 DEF Due, BuiltinFile
  <2> QED BY <1>f, <1>p, <2>1, <2>3, <2>4, Same3 DEF Progress, Loaded
<1>3. CASE Miss(r) \/ Pull(r) \/ Store(r)
  <2>1. pc[r] \in Loading /\ pc'[r] \in Loading /\ name' = name
    BY <1>3, <1>t DEF Miss, Pull, Store, Goto
  <2>2. InHand(r)' BY <1>f, <1>p, <2>1 DEF InHand
  <2>3. \A g \in Files : Due(r, g)' <=> Due(r, g) BY <1>f, <2>1 DEF Due, BuiltinFile
  <2> QED BY <1>3, <1>f, <1>p, <2>2, <2>3, Same3 DEF Progress, Miss, Pull, Store
<1>4. CASE Materialize(r)
  <2>1. held[r] = Want(r, BuiltinFile(r)) /\ name[r] # Template
    BY <1>0, <1>4, <1>p DEF Materialize, InHand, Want, BuiltinFile
  <2>2. ~Due(r, BuiltinFile(r)) BY <1>4 DEF Due, Materialize, BuiltinFile
  <2>3. CASE Truncate(r, BuiltinFile(r))
    <3>1. name' = name /\ pc' = pc /\ held' = held
      BY <1>4, <2>3 DEF Truncate, Materialize, Write
    <3>2. InHand(r)' BY <1>f, <1>p, <3>1 DEF InHand
    <3> QED BY <1>0, <1>f, <1>p, <2>2, <2>3, <3>1, <3>2, Write3 DEF Progress
  <2>4. CASE Complete(r, BuiltinFile(r), held[r], "inspect") /\ UNCHANGED name
    <3>1. pc[r] = "materialize" /\ pc'[r] = "inspect"
      BY <1>4, <1>t, <2>4 DEF Materialize, Complete, Goto
    <3>2. \A g \in Files : Due(r, g)' <=> (Due(r, g) \/ g = BuiltinFile(r))
      BY <1>f, <3>1 DEF Due, BuiltinFile
    <3>3. InHand(r)' BY <1>f, <1>p, <2>4, <3>1 DEF InHand
    <3> QED BY <1>0, <1>f, <1>p, <2>1, <2>2, <2>4, <3>2, <3>3, Write3 DEF Progress
  <2> QED BY <1>4, <2>3, <2>4 DEF Materialize, Write
<1>5. CASE Inspect(r)
  <2>1. File(r, BuiltinFile(r)) = Shipped(req[r].builtin)
    BY <1>0, <1>5, <1>p DEF Inspect, DepsDue, DepsHold, Due, Want, BuiltinFile
  <2>2. ImportsSubstrate(File(r, BuiltinFile(r))) <=> req[r].builtin \in Consumers
    BY <2>1 DEF ImportsSubstrate, Shipped
  <2>3. /\ pc[r] = "inspect" /\ held' = held /\ deps' = deps /\ disk' = disk
        /\ IF req[r].builtin \in Consumers
           THEN pc'[r] = "load" /\ name'[r] = Template
           ELSE pc'[r] = "contract" /\ name' = name
    BY <1>5, <1>t, <2>2 DEF Inspect, Goto, store
  <2>4. InHand(r)' BY <1>f, <2>3 DEF InHand
  <2>5. \A g \in Files : Due(r, g)' <=> Due(r, g)
    BY <1>f, <2>3 DEF Due, BuiltinFile
  <2> QED BY <1>f, <1>p, <2>3, <2>4, <2>5, Same3 DEF Progress
<1>6. CASE Provider(r)
  <2>1. /\ ~Due(r, <<"provider", None>>) /\ req[r].builtin \in Consumers
        /\ Want(r, <<"provider", None>>) = Made("provider", r)
    BY <1>6, <1>p DEF Due, Provider, BuiltinFile, Want, InHand
  <2>2. CASE Truncate(r, <<"provider", None>>)
    <3>1. name' = name /\ pc' = pc /\ held' = held
      BY <1>6, <2>2 DEF Truncate, Provider, Write
    <3>2. InHand(r)' BY <1>f, <1>p, <3>1 DEF InHand
    <3> QED BY <1>f, <1>p, <2>1, <2>2, <3>1, <3>2, FilesType, Write3 DEF Progress
  <2>3. CASE Complete(r, <<"provider", None>>, Made("provider", r), "contract") /\ UNCHANGED name
    <3>1. pc[r] = "provider" /\ pc'[r] = "contract"
      BY <1>6, <1>t, <2>3 DEF Provider, Complete, Goto
    <3>2. \A g \in Files : Due(r, g)' <=> (Due(r, g) \/ g = <<"provider", None>>)
      BY <1>f, <2>1, <3>1 DEF Due, BuiltinFile
    <3>3. InHand(r)' BY <1>f, <3>1 DEF InHand
    <3> QED BY <1>f, <1>p, <2>1, <2>3, <3>2, <3>3, FilesType, Write3 DEF Progress
  <2> QED BY <1>6, <2>2, <2>3 DEF Provider, Write
<1>7. CASE Contract(r)
  <2>1. /\ File(r, BuiltinFile(r)) = Shipped(req[r].builtin)
        /\ File(r, <<"split", None>>) = Made("split", r)
    BY <1>0, <1>7, <1>p, FilesType DEF Contract, DepsDue, DepsHold, Due, Want, BuiltinFile
  <2>2. File(r, BuiltinFile(r)) \notin {Torn, NoFile}
    BY <1>0, <2>1, BytesType DEF Names
  <2>3. /\ pc[r] = "contract" /\ pc'[r] = "adapter" /\ held'[r] = Made("adapter", r)
        /\ deps' = deps /\ disk' = disk
    BY <1>7, <1>t, <2>1, <2>2 DEF Contract, Goto, Made
  <2>4. InHand(r)' BY <2>3 DEF InHand
  <2>5. \A g \in Files : Due(r, g)' <=> Due(r, g)
    BY <1>f, <2>3 DEF Due, BuiltinFile
  <2> QED BY <1>f, <1>p, <2>3, <2>4, <2>5, Same3 DEF Progress
<1>8. CASE Adapter(r)
  <2>1. /\ ~Due(r, <<"adapter", None>>) /\ held[r] = Want(r, <<"adapter", None>>)
    BY <1>8, <1>p DEF Due, Adapter, BuiltinFile, Want, InHand
  <2>2. CASE Truncate(r, <<"adapter", None>>)
    <3>1. name' = name /\ pc' = pc /\ held' = held
      BY <1>8, <2>2 DEF Truncate, Adapter, Write
    <3>2. InHand(r)' BY <1>f, <1>p, <3>1 DEF InHand
    <3> QED BY <1>f, <1>p, <2>1, <2>2, <3>1, <3>2, FilesType, Write3 DEF Progress
  <2>3. CASE Complete(r, <<"adapter", None>>, held[r], "finish") /\ UNCHANGED name
    <3>1. pc[r] = "adapter" /\ pc'[r] = "finish"
      BY <1>8, <1>t, <2>3 DEF Adapter, Complete, Goto
    <3>2. \A g \in Files : Due(r, g)' <=> (Due(r, g) \/ g = <<"adapter", None>>)
      BY <1>f, <3>1 DEF Due, BuiltinFile
    <3>3. InHand(r)' BY <1>f, <3>1 DEF InHand
    <3> QED BY <1>f, <1>p, <2>1, <2>3, <3>2, <3>3, FilesType, Write3 DEF Progress
  <2> QED BY <1>8, <2>2, <2>3 DEF Adapter, Write
<1>9. CASE Plan(r) \/ Compose(r) \/ Preserve(r)
  <2>1. /\ pc[r] \in {"finish", "preserve"} /\ pc'[r] \in {"output", "preserve"} \union Kept
        /\ deps' = deps /\ disk' = disk
    BY <1>9, <1>t DEF Plan, Compose, Preserve, Exit, Goto
  <2>2. InHand(r)' BY <2>1 DEF InHand
  <2>3. \A g \in Files : Due(r, g)' <=> Due(r, g) BY <1>f, <2>1 DEF Due, BuiltinFile
  <2> QED BY <1>f, <1>p, <2>1, <2>2, <2>3, Same3 DEF Progress
<1>10. CASE Start(r) \/ Output(r)
  BY <1>10, <1>t DEF Start, Output, Exit, Goto, Working
<1> QED
  BY <1>1, <1>2, <1>3, <1>4, <1>5, <1>6, <1>7, <1>8, <1>9, <1>10 DEF Step

(* A run that starts finds others in its directory, or is found there.      *)
LEMMA NextAlone ==
  ASSUME TypeOK, Alone, NEW r \in Runs, Step(r) \/ Fail(r) \/ Kill(r)
  PROVE  Alone'
<1>0. Framed(r) BY StepFrame
<1>1. /\ \A q \in Runs : Place(q)' = Place(q)
      /\ shared \subseteq shared'
      /\ \A q \in Runs \ {r} : pc'[q] = pc[q]
  BY <1>0 DEF Framed, Place
<1>2. CASE Start(r)
  <2>1. pc[r] = "new" /\ pc'[r] = "split" BY <1>2 DEF Start, Goto, TypeOK
  <2>2. \A q \in Runs \ {r} : Place(q) = Place(r) =>
          /\ pc[q] # "new" => q \in shared'
          /\ pc[q] \in Working => r \in shared'
    BY <1>2 DEF Start, Live, Working
  <2> QED BY <1>1, <2>1, <2>2 DEF Alone, Working, Kept
<1>3. CASE pc[r] \in Working
  BY <1>1, <1>3 DEF Alone
<1>4. Start(r) \/ pc[r] \in Working
  BY DEF Step, Split, LoadOverride, LoadCached, Miss, Pull, Store, Rename, Materialize,
         Inspect, Provider, Contract, Adapter, Plan, Compose, Output, Preserve,
         Fail, Kill, Working
<1> QED BY <1>2, <1>3, <1>4

(* What a run composed stays what it should be, whoever moves.              *)
LEMMA NextOutput ==
  ASSUME Inv1, Inv1', Inv3, NEW r \in Runs, Step(r) \/ Fail(r) \/ Kill(r)
  PROVE  OutputFaithful'
<1>0. Framed(r) BY StepFrame DEF Inv1
<1>1. pc \in [Runs -> {"new"} \union Working \union Over] BY DEF Inv1, TypeOK
<1> SUFFICES ASSUME NEW q \in Runs, q \notin shared', pc'[q] \in {"output", "composed"}
             PROVE  made'[q] = Expected(q)
  BY <1>0 DEF OutputFaithful, Expected, Framed
<1>2. q \notin shared BY <1>0 DEF Framed
<1>3. CASE q # r BY <1>0, <1>2, <1>3 DEF Framed, Inv3, OutputFaithful
<1>4. CASE q = r
  <2>1. CASE Output(r)
    BY <1>2, <1>4, <2>1 DEF Output, Exit, hist, Inv3, OutputFaithful
  <2>2. CASE Compose(r)
    <3>0. pc'[r] = "output" BY <1>1, <1>4, <2>2 DEF Compose, Goto
    <3>1. pc[r] = "finish" /\ made' = [made EXCEPT ![r] = {File(r, f) : f \in deps[r]}]
      BY <1>1, <2>2, <3>0 DEF Compose, Goto
    <3>2. Progress(r) BY <1>2, <1>4, <3>1 DEF Inv3, Working
    <3>3. {File(r, f) : f \in deps[r]} = Expected(r)
      BY <3>1, <3>2, Whole DEF Progress, Inv1
    <3>4. made'[r] = Expected(r) BY <3>1, <3>3 DEF Inv1, TypeOK
    <3> QED BY <1>4, <3>4
  <2>3. CASE Start(r) \/ Split(r) \/ LoadOverride(r) \/ LoadCached(r) \/ Miss(r) \/ Pull(r)
    BY <1>1, <1>4, <2>3
       DEF Start, Split, Truncate, Complete, LoadOverride, LoadCached, Loaded, Miss, Pull, Goto
  <2>4. CASE Store(r) \/ Rename(r) \/ Materialize(r) \/ Inspect(r) \/ Provider(r)
    BY <1>1, <1>4, <2>4
       DEF Store, Rename, Loaded, Materialize, Inspect, Provider, Write, Truncate, Complete, Goto
  <2>5. CASE Contract(r) \/ Adapter(r)
    BY <1>1, <1>4, <2>5 DEF Contract, Adapter, Write, Truncate, Complete, Goto
  <2>6. CASE Plan(r) \/ Preserve(r) \/ Fail(r) \/ Kill(r)
    BY <1>1, <1>4, <2>6 DEF Plan, Preserve, Fail, Kill, Exit, Goto
  <2> QED BY <1>4, <2>1, <2>2, <2>3, <2>4, <2>5, <2>6 DEF Step
<1> QED BY <1>3, <1>4

LEMMA Next3 == Inv1 /\ Inv1' /\ Inv2 /\ Inv3 /\ [Next]_vars => Inv3'
<1> SUFFICES ASSUME Inv1, Inv1', Inv2, Inv3, [Next]_vars PROVE Inv3' OBVIOUS
<1>1. ASSUME NEW r \in Runs, Step(r) \/ Fail(r) \/ Kill(r) PROVE Inv3'
  <2>0. Framed(r) BY <1>1, StepFrame DEF Inv1
  <2>1. Alone' BY <1>1, NextAlone DEF Inv1, Inv3
  <2>2. OutputFaithful' BY <1>1, NextOutput
  <2>3. pc'[r] # "new"
    BY <1>1 DEF Inv1, TypeOK, Step, Start, Split, LoadOverride, LoadCached, Loaded, Miss, Pull,
       Store, Rename, Materialize, Inspect, Provider, Contract, Adapter, Plan, Compose, Output,
       Preserve, Fail, Kill, Exit, Write, Truncate, Complete, Goto, Working
  <2>4. Fresh' BY <2>0, <2>3 DEF Inv3, Fresh, Framed
  <2>5. ASSUME NEW q \in Runs, q \notin shared', pc'[q] \in Working \union Kept
        PROVE  Progress(q)'
    <3>0. q \notin shared BY <2>0, <2>5 DEF Framed
    <3>1. CASE q # r
      <4>1. Progress(q) BY <2>0, <2>5, <3>0, <3>1 DEF Framed, Inv3
      <4>2. disk'[Place(q)] = disk[Place(q)]
        <5>1. CASE Start(r) BY <5>1 DEF Start
        <5>2. CASE pc[r] \in Working
          BY <2>0, <2>5, <3>0, <3>1, <5>2, PlaceType DEF Framed, Inv1, Inv3, Alone
        <5>3. Start(r) \/ pc[r] \in Working
          BY <1>1 DEF Step, Split, LoadOverride, LoadCached, Miss, Pull, Store, Rename,
             Materialize, Inspect, Provider, Contract, Adapter, Plan, Compose, Output,
             Preserve, Fail, Kill, Working
        <5> QED BY <5>1, <5>2, <5>3
      <4>3. /\ req' = req /\ pc'[q] = pc[q] /\ name'[q] = name[q] /\ held'[q] = held[q]
            /\ deps'[q] = deps[q] /\ Place(q)' = Place(q)
        BY <2>0, <3>1 DEF Framed, Place
      <4> QED BY <4>1, <4>2, <4>3
              DEF Progress, DepsDue, DepsHold, InHand, Due, Want, File, BuiltinFile
    <3>2. CASE q = r
      <4>1. CASE Start(r)
        <5>1. pc'[r] = "split" /\ deps'[r] = {}
          BY <4>1 DEF Start, Goto, Inv1, TypeOK, Inv3, Fresh
        <5>2. DepsDue(r)' BY <5>1 DEF DepsDue, Due, Built, Kept, Loading
        <5>3. DepsHold(r)' BY <5>1 DEF DepsHold
        <5>4. InHand(r)' BY <5>1 DEF InHand, Loading
        <5> QED BY <3>2, <5>2, <5>3, <5>4 DEF Progress
      <4>2. CASE Fail(r) \/ Kill(r)
        BY <2>5, <3>2, <4>2 DEF Fail, Kill, Exit, Goto, Inv1, TypeOK, Working, Kept
      <4>3. CASE Step(r) /\ pc[r] \in Working
        BY <2>5, <3>0, <3>2, <4>3, Own3 DEF Inv3
      <4>4. Start(r) \/ Fail(r) \/ Kill(r) \/ (Step(r) /\ pc[r] \in Working)
        BY <1>1 DEF Step, Split, LoadOverride, LoadCached, Miss, Pull, Store, Rename,
           Materialize, Inspect, Provider, Contract, Adapter, Plan, Compose, Output,
           Preserve, Working
      <4> QED BY <4>1, <4>2, <4>3, <4>4
    <3> QED BY <3>1, <3>2
  <2> QED BY <2>1, <2>2, <2>4, <2>5 DEF Inv3
<1>2. CASE UNCHANGED vars
  <2>1. \A r \in Runs : Place(r)' = Place(r) BY <1>2 DEF Place, vars
  <2>2. \A r \in Runs : Progress(r) => Progress(r)'
    BY <1>2, <2>1 DEF Progress, DepsDue, DepsHold, InHand, Due, Want, File, BuiltinFile, vars
  <2> QED BY <1>2, <2>1, <2>2 DEF Inv3, Fresh, Alone, OutputFaithful, Expected, vars
<1> QED BY <1>1, <1>2 DEF Next, Terminated

(* A run that has its directory to itself composes its own splits with the  *)
(* whole builtin, its adapter and the provider the builtin needs, whatever  *)
(* lay there before.                                                        *)
THEOREM OutputIsFaithful == Spec => []OutputFaithful
<1>1. Inv3 => OutputFaithful BY DEF Inv3
<1> QED BY Init1, Init2, Init3, Next1, Next2, Next3, <1>1, PTL DEF Spec

(* What --plan or a failed composition leaves for `wac compose` is whole,   *)
(* until another run uses the directory.                                    *)
THEOREM KeptIsUsable == Spec => []KeptUsable
<1>1. Inv1 /\ Inv3 => KeptUsable
  <2> SUFFICES ASSUME Inv1, Inv3, NEW r \in Runs \ shared, pc[r] \in Kept
               PROVE  {File(r, f) : f \in deps[r]} = Expected(r)
    BY DEF KeptUsable, Kept
  <2> QED BY Whole DEF Inv1, Inv3, Progress
<1> QED BY Init1, Init2, Init3, Next1, Next2, Next3, <1>1, PTL DEF Spec
=============================================================================
