-------------------------- MODULE ValueStoreTypes ---------------------------
(***************************************************************************)
(* ValueStore keeps its types.                                             *)
(***************************************************************************)
EXTENDS ValueStoreSteps

(* The type of one call's state. *)
Typed(t) ==
    /\ pc[t] # "idle" => req[t] \in Requests /\ Accepted(req[t])
    /\ IsLocal(local[t])
    /\ pc[t] \in {"overwrite", "alias"} => local[t].existing.content \in Ids
    /\ IsWrite(write[t])
    /\ CallOK(t)

TablesTyped ==
    /\ \A r \in pathRows : IsPathRow(r)
    /\ \A c \in contents : IsContentRow(c)
    /\ nextId \in Ids

(* The types of one call, and of the tables, out of the invariant. *)
LEMMA TypedCall ==
    ASSUME TypeInv, NEW t \in Txs
    PROVE  Typed(t) /\ TablesTyped
BY DEF TypeInv, TypeOK, CallsOK, Typed, TablesTyped

(* A step that keeps its own call typed keeps the types. *)
LEMMA TypeStep ==
    ASSUME TypeInv, NEW t \in Txs, Frame(t), TablesTyped', Typed(t)'
    PROVE  TypeInv'
<1>1. \A u \in Txs : Typed(u)'
  <2>1. ASSUME NEW u \in Txs \ {t} PROVE Typed(u)'
    <3>1. pc'[u] = pc[u] /\ req'[u] = req[u] /\ local'[u] = local[u] /\ write'[u] = write[u]
      BY DEF Frame
    <3>2. Typed(u)
      BY TypedCall
    <3>3. QED
      BY <3>1, <3>2 DEF Typed, CallOK
  <2>2. QED
    BY <2>1
<1>2. QED
  BY <1>1 DEF TypeInv, TypeOK, CallsOK, Typed, TablesTyped, Frame

(* A call starts with nothing found and nothing written. *)
LEMMA TypedEmpty == IsLocal(NoLocal) /\ IsWrite(NoWrite)
<1>1. /\ NoLocal.plan = {} /\ NoLocal.fresh = {} /\ NoLocal.shared = {} /\ NoLocal.prune = {}
      /\ NoWrite.del = {} /\ NoWrite.ins = {} /\ NoWrite.upd = {} /\ NoWrite.gone = {}
  BY DEF NoLocal, NoWrite
<1>2. QED
  BY <1>1 DEF IsLocal, IsWrite

(* The initial states are typed. *)
LEMMA TypedInit ==
    ASSUME Init
    PROVE  TypeInv
<1>1. \A t \in Txs : pc[t] = "idle" /\ local[t] = NoLocal /\ write[t] = NoWrite
  BY DEF Init
<1>2. TablesTyped
  BY StoresAssumption DEF Init, IsStore, TablesTyped
<1>3. \A t \in Txs : Typed(t)
  BY <1>1, TypedEmpty DEF Typed, CallOK
<1>4. /\ pc \in [Txs -> Phases] /\ DOMAIN req = Txs /\ DOMAIN todo = Txs /\ DOMAIN held = Txs
      /\ latched \in [Txs -> SUBSET Ids]
      /\ rowLocks \in [Txs -> SUBSET [id : Ids, mode : {"share", "update", "exclusive"}]]
      /\ DOMAIN local = Txs /\ DOMAIN write = Txs
  BY DEF Init, Phases
<1>5. QED
  BY <1>2, <1>3, <1>4 DEF TypeInv, TypeOK, CallsOK, Typed, TablesTyped

(* The end of a call is typed, and so is a step that changes no table. *)
LEMMA TypedEnd ==
    ASSUME NEW t \in Txs, Ended(t)
    PROVE  Typed(t)'
BY TypedEmpty DEF Typed, Ended, CallOK

(* A step that commits nothing leaves the tables typed. *)
LEMMA TypedTables ==
    ASSUME TypeInv, SameTables, nextId' \in {nextId, nextId + 1}
    PROVE  TablesTyped'
BY DEF TypeInv, TypeOK, TablesTyped, SameTables, Ids

(* What a statement sees and what a mutation stores have the types of rows. *)
LEMMA ViewTyped ==
    ASSUME TypeInv, NEW t \in Txs
    PROVE  /\ \A r \in View(t) : IsPathRow(r) /\ r.content \in Ids
           /\ \A c \in ContentView(t) : IsContentRow(c)
BY DEF TypeInv, TypeOK, IsWrite, View, ContentView, IsPathRow

(* stored_representation gives a content row. *)
LEMMA StoredTyped ==
    ASSUME NEW id \in Ids, NEW class \in {Plain, Secret}, NEW value \in Texts
    PROVE  IsContentRow([id |-> id, class |-> class,
                         stored |-> stored_representation(id, class, value)])
<1>1. stored_representation(id, class, value) \in [sealed : Ids \cup {0}, text : Texts]
  BY DEF stored_representation, Sealed
<1>2. QED
  BY <1>1 DEF IsContentRow

(* A path that parses gives a path row. *)
LEMMA InsertTyped ==
    ASSUME NEW p \in Bytes, parse_operation(p), NEW id \in Ids
    PROVE  IsPathRow([path |-> p, content |-> id])
BY DEF IsPathRow

(* What the requests are made of. *)
LEMMA RequestTyped ==
    ASSUME TypeInv, NEW t \in Txs, pc[t] # "idle"
    PROVE  /\ req[t].path \in Bytes
           /\ req[t].op = "put" => /\ req[t].class \in {Plain, Secret} /\ req[t].value \in Texts
                                   /\ parse_operation(req[t].path)
           /\ req[t].op = "add" => req[t].new \in Bytes /\ parse_operation(req[t].new)
           /\ req[t].op = "replace" =>
                 /\ req[t].entries \subseteq [path : Bytes, value : Texts \cup {Preserve}]
                 /\ normalize(req[t].path, req[t].entries)
<1>1. req[t] \in Requests /\ Accepted(req[t])
  BY TypedCall DEF Typed
<1>2. IsRequest(req[t])
  BY <1>1, RequestsAssumption
<1>3. /\ req[t].op = "put" => parse_operation(req[t].path)
      /\ req[t].op = "add" => parse_operation(req[t].new)
      /\ req[t].op = "replace" => normalize(req[t].path, req[t].entries)
  BY <1>1, <1>2 DEF Accepted, IsRequest
<1>4. QED
  BY <1>2, <1>3 DEF IsRequest, Texts

(* The plain writes of a replacement are entries of the request. *)
LEMMA PlanTyped ==
    ASSUME NEW entries, NEW secrets,
           entries \subseteq [path : Bytes, value : Texts \cup {Preserve}]
    PROVE  \A e \in PlainEntries(resolve_preserve_markers(entries, secrets)) :
               /\ e \in [path : Bytes, value : Texts]
               /\ \E d \in entries : d.path = e.path
<1> SUFFICES ASSUME NEW e \in PlainEntries(resolve_preserve_markers(entries, secrets))
             PROVE  /\ e \in [path : Bytes, value : Texts]
                    /\ \E d \in entries : d.path = e.path
  OBVIOUS
<1>1. e \in resolve_preserve_markers(entries, secrets) /\ e.value # Preserve
  BY DEF PlainEntries
<1>2. PICK d \in entries : e = IF d.value = Preserve /\ fold(d.path) \notin secrets
                               THEN [d EXCEPT !.value = MaskedSecret] ELSE d
  BY <1>1 DEF resolve_preserve_markers
<1>3. d \in [path : Bytes, value : Texts \cup {Preserve}]
  OBVIOUS
<1>4. [d EXCEPT !.value = MaskedSecret] \in [path : Bytes, value : Texts]
  BY <1>3 DEF Texts
<1>5. [d EXCEPT !.value = MaskedSecret].path = d.path
  BY <1>3
<1>6. QED
  BY <1>1, <1>2, <1>3, <1>4, <1>5

(* Each step of put_value keeps its call typed. *)
LEMMA PutTyped ==
    ASSUME TypeInv, NEW t \in Txs, PutRead(t) \/ PutOverwrite(t) \/ PutCreate(t)
    PROVE  TypeInv'
<1>0. Typed(t)
  BY TypedCall
<1>1. CASE PutRead(t)
  <2>1. CASE Ended(t)
    BY <1>1, <2>1, PutReadEffect, TypedEnd, TypedTables, TypeStep
  <2>2. CASE ~Ended(t)
    <3>1. /\ Frame(t) /\ SameTables /\ nextId' = nextId /\ pc[t] = "read" /\ req[t].op = "put"
          /\ req'[t] = req[t] /\ SameDeletes(t) /\ SameInserts(t) /\ SameFindings(t)
          /\ local'[t].prune = local[t].prune /\ pc'[t] \in {"create", "overwrite"}
      BY <1>1, <2>2, PutReadEffect DEF SameLocks
    <3>2. pc'[t] = "overwrite" => local'[t].existing.content \in Ids
      BY <1>1, <2>2, PutReadEffect, ViewTyped DEF At
    <3>3. IsLocal(local'[t]) /\ IsWrite(write'[t])
      BY <1>0, <3>1 DEF Typed, IsLocal, IsWrite, Frame, SameDeletes, SameInserts, SameFindings
    <3>4. Typed(t)'
      BY <1>0, <3>1, <3>2, <3>3 DEF Typed, CallOK
    <3>5. QED
      BY <3>1, <3>4, TypedTables, TypeStep
  <2>3. QED
    BY <2>1, <2>2
<1>2. CASE PutOverwrite(t)
  <2>1. /\ Frame(t) /\ SameTables /\ nextId' = nextId /\ pc[t] = "overwrite" /\ pc'[t] = "commit"
        /\ req'[t] = req[t] /\ SameDeletes(t) /\ local'[t] = local[t]
        /\ write'[t].ins = write[t].ins
    BY <1>2, PutOverwriteEffect DEF SameLocks
  <2>2. \A c \in write'[t].upd : IsContentRow(c)
    <3>1. /\ local[t].existing.content \in Ids /\ req[t].class \in {Plain, Secret}
          /\ req[t].value \in Texts
      BY <1>0, <2>1, RequestTyped DEF Typed, CallOK
    <3>2. QED
      BY <1>2, <3>1, StoredTyped, PutOverwriteEffect
  <2>3. IsWrite(write'[t])
    BY <1>0, <2>1, <2>2 DEF Typed, IsWrite, Frame, SameDeletes
  <2>4. Typed(t)'
    BY <1>0, <2>1, <2>3 DEF Typed, CallOK
  <2>5. QED
    BY <2>1, <2>4, TypedTables, TypeStep
<1>3. CASE PutCreate(t)
  <2>1. CASE Ended(t)
    <3>1. /\ Frame(t) /\ SameTables /\ nextId' \in {nextId, nextId + 1}
      BY <1>3, PutCreateEffect
    <3>2. QED
      BY <2>1, <3>1, TypedEnd, TypedTables, TypeStep
  <2>2. CASE ~Ended(t)
    <3>1. /\ Frame(t) /\ SameTables /\ nextId' = nextId + 1 /\ pc[t] = "create" /\ pc'[t] = "commit"
          /\ req'[t] = req[t] /\ SameDeletes(t) /\ local'[t] = local[t]
      BY <1>3, <2>2, PutCreateEffect DEF SameLocks
    <3>2. /\ nextId \in Ids /\ req[t].class \in {Plain, Secret} /\ req[t].value \in Texts
          /\ req[t].path \in Bytes /\ parse_operation(req[t].path)
      BY <1>0, <3>1, RequestTyped, TypedCall DEF Typed, CallOK, TablesTyped
    <3>3. \A c \in write'[t].upd : IsContentRow(c)
      BY <1>3, <2>2, <3>2, StoredTyped, PutCreateEffect
    <3>4. \A r \in write'[t].ins : IsPathRow(r)
      BY <1>3, <2>2, <3>2, InsertTyped, PutCreateEffect
    <3>5. IsWrite(write'[t])
      BY <1>0, <3>1, <3>3, <3>4 DEF Typed, IsWrite, Frame, SameDeletes
    <3>6. Typed(t)'
      BY <1>0, <3>1, <3>5 DEF Typed, CallOK
    <3>7. QED
      BY <3>1, <3>6, TypedTables, TypeStep
  <2>3. QED
    BY <2>1, <2>2
<1>4. QED
  BY <1>1, <1>2, <1>3

(* Path rows refer to identities. *)
LEMMA ContentIdsTyped ==
    ASSUME NEW rows, \A r \in rows : IsPathRow(r)
    PROVE  ContentIds(rows) \subseteq Ids
BY DEF ContentIds, IsPathRow

(* Each step of delete_values, and of pruning, keeps its call typed. *)
LEMMA DeleteTyped ==
    ASSUME TypeInv, NEW t \in Txs,
           DeletePaths(t) \/ LatchContent(t) \/ PruneSelect(t) \/ PruneErase(t)
    PROVE  TypeInv'
<1>0. Typed(t)
  BY TypedCall
<1>1. CASE DeletePaths(t)
  <2>1. CASE Ended(t)
    BY <1>1, <2>1, DeletePathsEffect, TypedEnd, TypedTables, TypeStep
  <2>2. CASE ~Ended(t)
    <3>1. /\ Frame(t) /\ SameTables /\ nextId' = nextId /\ pc[t] = "read" /\ req[t].op = "delete"
          /\ req'[t] = req[t] /\ pc'[t] = "prune" /\ SameInserts(t) /\ SameFindings(t)
          /\ write'[t].gone = write[t].gone
          /\ write'[t].del \subseteq View(t)
          /\ local'[t].prune = ContentIds(write'[t].del)
      BY <1>1, <2>2, DeletePathsEffect DEF SameLocks, delete_paths
    <3>2. \A r \in write'[t].del : IsPathRow(r)
      BY <3>1, ViewTyped
    <3>3. local'[t].prune \subseteq Ids
      BY <3>1, <3>2, ContentIdsTyped
    <3>4. IsLocal(local'[t]) /\ IsWrite(write'[t])
      BY <1>0, <3>1, <3>2, <3>3 DEF Typed, IsLocal, IsWrite, Frame, SameInserts, SameFindings
    <3>5. Typed(t)'
      BY <1>0, <3>1, <3>4 DEF Typed, CallOK
    <3>6. QED
      BY <3>1, <3>5, TypedTables, TypeStep
  <2>3. QED
    BY <2>1, <2>2
<1>2. CASE LatchContent(t)
  <2>1. /\ Frame(t) /\ SameTables /\ nextId' = nextId /\ pc[t] = "prune" /\ pc'[t] = "prune"
        /\ req'[t] = req[t] /\ local'[t] = local[t] /\ write'[t] = write[t]
    BY <1>2, LatchContentEffect DEF SameLocks
  <2>2. Typed(t)'
    BY <1>0, <2>1 DEF Typed, CallOK
  <2>3. QED
    BY <2>1, <2>2, TypedTables, TypeStep
<1>3. CASE PruneSelect(t)
  <2>1. /\ Frame(t) /\ SameTables /\ nextId' = nextId /\ pc[t] = "prune" /\ pc'[t] = "erase"
        /\ req'[t] = req[t] /\ SameFindings(t) /\ write'[t] = write[t]
        /\ local'[t].prune \subseteq local[t].prune
    BY <1>3, PruneSelectEffect DEF SameLocks
  <2>2. IsLocal(local'[t])
    BY <1>0, <2>1 DEF Typed, IsLocal, Frame, SameFindings
  <2>3. Typed(t)'
    BY <1>0, <2>1, <2>2 DEF Typed, CallOK
  <2>4. QED
    BY <2>1, <2>3, TypedTables, TypeStep
<1>4. CASE PruneErase(t)
  <2>1. /\ Frame(t) /\ SameTables /\ nextId' = nextId /\ pc[t] = "erase"
        /\ pc'[t] = IF req[t].op = "replace" THEN "resolve" ELSE "commit"
        /\ req'[t] = req[t] /\ SameInserts(t) /\ local'[t] = local[t]
        /\ write'[t].gone = local[t].prune
        /\ \A r \in write'[t].del : r \in write[t].del \/ r \in View(t)
    BY <1>4, PruneEraseEffect DEF SameLocks
  <2>2. \A r \in write'[t].del : IsPathRow(r)
    BY <1>0, <2>1, ViewTyped DEF Typed, IsWrite
  <2>3. IsWrite(write'[t])
    BY <1>0, <2>1, <2>2 DEF Typed, IsLocal, IsWrite, Frame, SameInserts
  <2>4. Typed(t)'
    BY <1>0, <2>1, <2>3 DEF Typed, CallOK
  <2>5. QED
    BY <2>1, <2>4, TypedTables, TypeStep
<1>5. QED
  BY <1>1, <1>2, <1>3, <1>4

(* The writes through aliases name contents and texts. *)
LEMMA SharedTyped ==
    ASSUME NEW rows, NEW plan, \A r \in rows : IsPathRow(r),
           plan \subseteq [path : Bytes, value : Texts]
    PROVE  SharedWrites(rows, plan) \subseteq [id : Ids, value : Texts]
BY DEF SharedWrites, IsPathRow

(* Each step of replace_sub_tree keeps its call typed. *)
LEMMA ReplaceTyped ==
    ASSUME TypeInv, NEW t \in Txs,
           \/ ReplaceRead(t) \/ ReplaceClear(t) \/ ReplaceResolve(t)
           \/ ReplaceUpdate(t) \/ ReplaceInsert(t) \/ ReplaceRecord(t)
    PROVE  TypeInv'
<1>0. Typed(t) /\ TablesTyped
  BY TypedCall
<1>1. CASE ReplaceRead(t)
  <2>1. CASE Ended(t)
    BY <1>1, <2>1, ReplaceReadEffect, TypedEnd, TypedTables, TypeStep
  <2>2. CASE ~Ended(t)
    <3>1. /\ Frame(t) /\ SameTables /\ nextId' = nextId /\ pc[t] = "read" /\ req[t].op = "replace"
          /\ req'[t] = req[t] /\ pc'[t] = "clear" /\ write'[t] = write[t]
          /\ local'[t].prune = local[t].prune
          /\ local'[t].shared = local[t].shared /\ local'[t].fresh = local[t].fresh
      BY <1>1, <2>2, ReplaceReadEffect DEF SameLocks
    <3>2. PICK secrets : local'[t].plan =
                            PlainEntries(resolve_preserve_markers(req[t].entries, secrets))
      BY <1>1, <2>2, ReplaceReadEffect
    <3>3. req[t].entries \subseteq [path : Bytes, value : Texts \cup {Preserve}]
      BY <3>1, RequestTyped
    <3>4. /\ local'[t].plan \subseteq [path : Bytes, value : Texts]
          /\ \A e \in local'[t].plan : parse_operation(e.path)
      <4>1. \A d \in req[t].entries : parse_operation(d.path)
        BY <3>1, RequestTyped DEF normalize
      <4>2. QED
        BY <3>2, <3>3, <4>1, PlanTyped
    <3>5. IsLocal(local'[t])
      BY <1>0, <3>1, <3>4 DEF Typed, IsLocal, Frame
    <3>6. Typed(t)'
      BY <1>0, <3>1, <3>5 DEF Typed, CallOK
    <3>7. QED
      BY <3>1, <3>6, TypedTables, TypeStep
  <2>3. QED
    BY <2>1, <2>2
<1>2. CASE ReplaceClear(t)
  <2>1. /\ Frame(t) /\ SameTables /\ nextId' = nextId /\ pc[t] = "clear"
        /\ req'[t] = req[t] /\ pc'[t] \in {"resolve", "prune"} /\ SameInserts(t) /\ SameFindings(t)
        /\ write'[t].gone = write[t].gone
        /\ write'[t].del \subseteq View(t)
        /\ local'[t].prune = ContentIds(write'[t].del)
    BY <1>2, ReplaceClearEffect DEF SameLocks, delete_plain_paths_except
  <2>2. \A r \in write'[t].del : IsPathRow(r)
    BY <2>1, ViewTyped
  <2>3. local'[t].prune \subseteq Ids
    BY <2>1, <2>2, ContentIdsTyped
  <2>4. IsLocal(local'[t]) /\ IsWrite(write'[t])
    BY <1>0, <2>1, <2>2, <2>3 DEF Typed, IsLocal, IsWrite, Frame, SameInserts, SameFindings
  <2>5. Typed(t)'
    BY <1>0, <2>1, <2>4 DEF Typed, CallOK
  <2>6. QED
    BY <2>1, <2>5, TypedTables, TypeStep
<1>3. CASE ReplaceResolve(t)
  <2>1. CASE Ended(t)
    BY <1>3, <2>1, ReplaceResolveEffect, TypedEnd, TypedTables, TypeStep
  <2>2. CASE ~Ended(t)
    <3>1. /\ Frame(t) /\ SameTables /\ nextId' = nextId /\ pc[t] = "resolve"
          /\ req'[t] = req[t] /\ pc'[t] = "write" /\ write'[t] = write[t]
          /\ local'[t].plan = local[t].plan /\ local'[t].prune = local[t].prune
          /\ local'[t].shared = SharedWrites(View(t), local[t].plan)
          /\ local'[t].fresh \subseteq local[t].plan
      BY <1>3, <2>2, ReplaceResolveEffect DEF SameLocks
    <3>2. local'[t].shared \subseteq [id : Ids, value : Texts]
      <4>1. local[t].plan \subseteq [path : Bytes, value : Texts]
        BY <1>0 DEF Typed, IsLocal
      <4>2. \A r \in View(t) : IsPathRow(r)
        BY ViewTyped
      <4>3. QED
        BY <3>1, <4>1, <4>2, SharedTyped
    <3>3. IsLocal(local'[t])
      BY <1>0, <3>1, <3>2 DEF Typed, IsLocal, Frame
    <3>4. Typed(t)'
      BY <1>0, <3>1, <3>3 DEF Typed, CallOK
    <3>5. QED
      BY <3>1, <3>4, TypedTables, TypeStep
  <2>3. QED
    BY <2>1, <2>2
<1>4. CASE ReplaceUpdate(t)
  <2>1. /\ Frame(t) /\ SameTables /\ nextId' = nextId /\ pc[t] = "write" /\ pc'[t] = "write"
        /\ req'[t] = req[t] /\ SameDeletes(t) /\ write'[t].ins = write[t].ins
        /\ local'[t].plan = local[t].plan /\ local'[t].prune = local[t].prune
        /\ local'[t].fresh = local[t].fresh /\ local'[t].shared \subseteq local[t].shared
    BY <1>4, ReplaceUpdateEffect DEF SameLocks
  <2>2. \A c \in write'[t].upd : IsContentRow(c)
    <3>1. PICK w \in local[t].shared : write'[t].upd = write[t].upd \cup
                 {[id |-> w.id, class |-> Plain,
                   stored |-> stored_representation(w.id, Plain, w.value)]}
      BY <1>4, ReplaceUpdateEffect
    <3>2. w.id \in Ids /\ w.value \in Texts
      BY <1>0 DEF Typed, IsLocal
    <3>3. QED
      BY <1>0, <3>1, <3>2, StoredTyped DEF Typed, IsWrite
  <2>3. IsLocal(local'[t]) /\ IsWrite(write'[t])
    BY <1>0, <2>1, <2>2 DEF Typed, IsLocal, IsWrite, Frame, SameDeletes
  <2>4. Typed(t)'
    BY <1>0, <2>1, <2>3 DEF Typed, CallOK
  <2>5. QED
    BY <2>1, <2>4, TypedTables, TypeStep
<1>5. CASE ReplaceInsert(t)
  <2>1. /\ Frame(t) /\ SameTables /\ nextId' = nextId + 1 /\ pc[t] = "write" /\ pc'[t] = "write"
        /\ req'[t] = req[t] /\ SameDeletes(t)
        /\ local'[t].plan = local[t].plan /\ local'[t].prune = local[t].prune
        /\ local'[t].shared = local[t].shared /\ local'[t].fresh \subseteq local[t].fresh
    BY <1>5, ReplaceInsertEffect DEF SameLocks
  <2>2. PICK e \in local[t].fresh :
           /\ write'[t].ins = write[t].ins \cup {[path |-> e.path, content |-> nextId]}
           /\ write'[t].upd = write[t].upd \cup
                 {[id |-> nextId, class |-> Plain,
                   stored |-> stored_representation(nextId, Plain, e.value)]}
    BY <1>5, ReplaceInsertEffect
  <2>3. e.path \in Bytes /\ e.value \in Texts /\ nextId \in Ids
    BY <1>0 DEF Typed, IsLocal, TablesTyped
  <2>4. parse_operation(e.path)
    BY <1>0 DEF Typed, IsLocal
  <2>5. \A r \in write'[t].ins : IsPathRow(r)
    BY <1>0, <2>2, <2>3, <2>4, InsertTyped DEF Typed, IsWrite
  <2>6. \A c \in write'[t].upd : IsContentRow(c)
    BY <1>0, <2>2, <2>3, StoredTyped DEF Typed, IsWrite
  <2>7. IsLocal(local'[t]) /\ IsWrite(write'[t])
    BY <1>0, <2>1, <2>5, <2>6 DEF Typed, IsLocal, IsWrite, Frame, SameDeletes
  <2>8. Typed(t)'
    BY <1>0, <2>1, <2>7 DEF Typed, CallOK
  <2>9. QED
    BY <2>1, <2>8, TypedTables, TypeStep
<1>6. CASE ReplaceRecord(t)
  <2>1. /\ Frame(t) /\ SameTables /\ nextId' = nextId /\ pc[t] = "write" /\ pc'[t] = "commit"
        /\ req'[t] = req[t] /\ SameDeletes(t) /\ SameInserts(t) /\ local'[t] = local[t]
    BY <1>6, ReplaceRecordEffect DEF SameLocks
  <2>2. IsWrite(write'[t])
    BY <1>0, <2>1 DEF Typed, IsWrite, Frame, SameDeletes, SameInserts
  <2>3. Typed(t)'
    BY <1>0, <2>1, <2>2 DEF Typed, CallOK
  <2>4. QED
    BY <2>1, <2>3, TypedTables, TypeStep
<1>7. QED
  BY <1>1, <1>2, <1>3, <1>4, <1>5, <1>6

(* Each step of add_value_path keeps its call typed. *)
LEMMA AddTyped ==
    ASSUME TypeInv, NEW t \in Txs, AddRead(t) \/ AddInsert(t)
    PROVE  TypeInv'
<1>0. Typed(t)
  BY TypedCall
<1>1. CASE AddRead(t)
  <2>1. CASE Ended(t)
    BY <1>1, <2>1, AddReadEffect, TypedEnd, TypedTables, TypeStep
  <2>2. CASE ~Ended(t)
    <3>1. /\ Frame(t) /\ SameTables /\ nextId' = nextId /\ pc[t] = "read" /\ req[t].op = "add"
          /\ req'[t] = req[t] /\ pc'[t] = "alias" /\ write'[t] = write[t] /\ SameFindings(t)
          /\ local'[t].prune = local[t].prune
      BY <1>1, <2>2, AddReadEffect DEF SameLocks
    <3>2. local'[t].existing.content \in Ids
      BY <1>1, <2>2, AddReadEffect, ViewTyped DEF At
    <3>3. IsLocal(local'[t])
      BY <1>0, <3>1 DEF Typed, IsLocal, Frame, SameFindings
    <3>4. Typed(t)'
      BY <1>0, <3>1, <3>2, <3>3 DEF Typed, CallOK
    <3>5. QED
      BY <3>1, <3>4, TypedTables, TypeStep
  <2>3. QED
    BY <2>1, <2>2
<1>2. CASE AddInsert(t)
  <2>1. CASE Ended(t)
    BY <1>2, <2>1, AddInsertEffect, TypedEnd, TypedTables, TypeStep
  <2>2. CASE ~Ended(t)
    <3>1. /\ Frame(t) /\ SameTables /\ nextId' = nextId /\ pc[t] = "alias" /\ pc'[t] = "commit"
          /\ req'[t] = req[t] /\ SameDeletes(t) /\ local'[t] = local[t]
          /\ write'[t].upd = write[t].upd
          /\ write'[t].ins = {[path |-> req[t].new, content |-> local[t].existing.content]}
      BY <1>2, <2>2, AddInsertEffect DEF SameLocks
    <3>2. /\ local[t].existing.content \in Ids
          /\ req[t].new \in Bytes /\ parse_operation(req[t].new)
      BY <1>0, <3>1, RequestTyped DEF Typed, CallOK
    <3>3. \A r \in write'[t].ins : IsPathRow(r)
      BY <3>1, <3>2, InsertTyped
    <3>4. IsWrite(write'[t])
      BY <1>0, <3>1, <3>3 DEF Typed, IsWrite, Frame, SameDeletes
    <3>5. Typed(t)'
      BY <1>0, <3>1, <3>4 DEF Typed, CallOK
    <3>6. QED
      BY <3>1, <3>5, TypedTables, TypeStep
  <2>3. QED
    BY <2>1, <2>2
<1>3. QED
  BY <1>1, <1>2

(* Beginning, locking, committing and failing keep the call typed. *)
LEMMA TransactionTyped ==
    ASSUME TypeInv, NEW t \in Txs, Begin(t) \/ LockPath(t) \/ Commit(t) \/ Fail(t)
    PROVE  TypeInv'
<1>0. Typed(t)
  BY TypedCall
<1>1. CASE Begin(t)
  <2>1. Typed(t)'
    BY <1>0, <1>1, BeginEffect DEF Typed, CallOK
  <2>2. QED
    BY <1>1, <2>1, BeginEffect, TypedTables, TypeStep
<1>2. CASE LockPath(t)
  <2>1. /\ Frame(t) /\ SameTables /\ nextId' = nextId
        /\ pc[t] = "locking" /\ req'[t] = req[t] /\ local'[t] = local[t] /\ write'[t] = write[t]
        /\ pc'[t] \in {"read", "locking"}
    BY <1>2, LockPathEffect
  <2>2. Typed(t)'
    BY <1>0, <2>1 DEF Typed, CallOK
  <2>3. QED
    BY <2>1, <2>2, TypedTables, TypeStep
<1>3. CASE Commit(t)
  <2>1. pathRows' = View(t) /\ contents' = ContentView(t) /\ nextId' = nextId /\ EndTx(t)
    BY <1>3 DEF Commit
  <2>2. TablesTyped'
    BY <2>1, ViewTyped, TypedCall DEF TablesTyped
  <2>3. QED
    BY <2>1, <2>2, EndTxEffect, TypedEnd, TypeStep
<1>4. CASE Fail(t)
  <2>1. SameTables /\ nextId' = nextId /\ EndTx(t)
    BY <1>4 DEF Fail, Rollback, SameTables, committed
  <2>2. QED
    BY <2>1, EndTxEffect, TypedEnd, TypedTables, TypeStep
<1>5. QED
  BY <1>1, <1>2, <1>3, <1>4

(* Every step keeps the types. *)
LEMMA TypeKept ==
    ASSUME TypeInv, [Next]_vars
    PROVE  TypeInv'
<1>1. CASE Next
  <2>1. PICK t \in Txs : Begin(t) \/ Statement(t) \/ Fail(t)
    BY <1>1 DEF Next
  <2>2. QED
    BY <2>1, PutTyped, DeleteTyped, ReplaceTyped, AddTyped, TransactionTyped DEF Statement
<1>2. CASE UNCHANGED vars
  BY <1>2 DEF vars, TypeInv, TypeOK, CallsOK, CallOK
<1>3. QED
  BY <1>1, <1>2

(* The store and every call's state keep their types: what is stored under *)
(* a path parses as one, and no marker of a preserved secret is stored.    *)
THEOREM TypeCorrect == Spec => []TypeOK
<1>1. Init => TypeInv
  BY TypedInit
<1>2. TypeInv /\ [Next]_vars => TypeInv'
  BY TypeKept
<1>3. TypeInv => TypeOK
  BY DEF TypeInv
<1>4. QED
  BY <1>1, <1>2, <1>3, PTL DEF Spec
=============================================================================
