-------------------------- MODULE ValueStoreSteps ---------------------------
(***************************************************************************)
(* What each action of ValueStore does to the call that takes it, component*)
(* by component.  The proofs about ValueStore rest on these lemmas.        *)
(***************************************************************************)
EXTENDS ValueStore, ConfigPathProofs

(* What a call does next says which call it is. *)
CallOK(t) ==
    /\ pc[t] \in {"overwrite", "create"} => req[t].op = "put"
    /\ pc[t] \in {"prune", "erase"} => req[t].op \in {"delete", "replace"}
    /\ pc[t] \in {"clear", "resolve", "write"} => req[t].op = "replace"
    /\ pc[t] = "alias" => req[t].op = "add"

CallsOK == \A t \in Txs : CallOK(t)

TypeInv == TypeOK /\ CallsOK

-----------------------------------------------------------------------------
(* What the actions do, component by component. *)

(* A step of t leaves the other calls alone. *)
Frame(t) ==
    /\ pc' \in [Txs -> Phases]
    /\ latched' \in [Txs -> SUBSET Ids]
    /\ rowLocks' \in [Txs -> SUBSET [id : Ids, mode : {"share", "update", "exclusive"}]]
    /\ DOMAIN req' = Txs /\ DOMAIN todo' = Txs /\ DOMAIN held' = Txs
    /\ DOMAIN local' = Txs /\ DOMAIN local'[t] = DOMAIN NoLocal
    /\ DOMAIN write' = Txs /\ DOMAIN write'[t] = DOMAIN NoWrite
    /\ \A u \in Txs \ {t} :
          /\ pc'[u] = pc[u] /\ req'[u] = req[u] /\ todo'[u] = todo[u] /\ held'[u] = held[u]
          /\ latched'[u] = latched[u] /\ local'[u] = local[u] /\ write'[u] = write[u]

SameTables == pathRows' = pathRows /\ contents' = contents

SameLocks(t) == todo'[t] = todo[t] /\ held'[t] = held[t] /\ req'[t] = req[t]

(* The rows t has written, and what it found; its events are left out. *)
SameDeletes(t) == write'[t].del = write[t].del /\ write'[t].gone = write[t].gone
SameInserts(t) == write'[t].ins = write[t].ins /\ write'[t].upd = write[t].upd
SameFindings(t) ==
    /\ local'[t].plan = local[t].plan /\ local'[t].shared = local[t].shared
    /\ local'[t].fresh = local[t].fresh

(* The end of a call's transaction. *)
Ended(t) ==
    /\ pc'[t] = "idle" /\ todo'[t] = {} /\ held'[t] = {} /\ latched'[t] = {}
    /\ local'[t] = NoLocal /\ write'[t] = NoWrite /\ req'[t] = [op |-> "none"]

(* The end of a transaction. *)
LEMMA EndTxEffect ==
    ASSUME TypeInv, NEW t \in Txs, EndTx(t)
    PROVE  Frame(t) /\ Ended(t)
<1>1. "idle" \in Phases
  BY DEF Phases
<1>2. QED
  BY <1>1 DEF TypeInv, TypeOK, EndTx, Frame, Ended

(* A call arrives. *)
LEMMA BeginEffect ==
    ASSUME TypeInv, NEW t \in Txs, Begin(t)
    PROVE  /\ Frame(t) /\ SameTables /\ nextId' = nextId
           /\ pc[t] = "idle" /\ pc'[t] = "locking"
           /\ req'[t] \in Requests /\ Accepted(req'[t]) /\ todo'[t] = MutationLocks(req'[t])
           /\ held'[t] = held[t] /\ latched'[t] = latched[t]
           /\ local'[t] = local[t] /\ write'[t] = write[t]
<1>1. "locking" \in Phases
  BY DEF Phases
<1>2. PICK r \in Requests :
         /\ Accepted(r)
         /\ req' = [req EXCEPT ![t] = r]
         /\ todo' = [todo EXCEPT ![t] = MutationLocks(r)]
  BY DEF Begin
<1>3. /\ pc[t] = "idle" /\ pc' = [pc EXCEPT ![t] = "locking"]
      /\ UNCHANGED <<committed, held, latched, rowLocks, local, write>>
  BY DEF Begin
<1>4. DOMAIN local[t] = DOMAIN NoLocal /\ DOMAIN write[t] = DOMAIN NoWrite
  BY DEF TypeInv, TypeOK, IsLocal, IsWrite
<1>5. QED
  BY <1>1, <1>2, <1>3, <1>4 DEF TypeInv, TypeOK, Frame, SameTables, committed

(* A path lock is granted. *)
LEMMA LockPathEffect ==
    ASSUME TypeInv, NEW t \in Txs, LockPath(t)
    PROVE  /\ Frame(t) /\ SameTables /\ nextId' = nextId
           /\ pc[t] = "locking" /\ req'[t] = req[t] /\ latched'[t] = latched[t]
           /\ local'[t] = local[t] /\ write'[t] = write[t]
           /\ \E l \in todo[t] :
                 /\ \A u \in Txs \ {t} : ~PathLockBlocks(u, l)
                 /\ todo'[t] = todo[t] \ {l}
                 /\ held'[t] = held[t] \cup {[key |-> l.key, exclusive |-> l.exclusive]}
                 /\ pc'[t] = IF todo[t] = {l} THEN "read" ELSE "locking"
<1>1. {"read", "locking"} \subseteq Phases
  BY DEF Phases
<1>2. PICK l \in NextLock(t) :
         /\ \A u \in Txs \ {t} : ~PathLockBlocks(u, l)
         /\ todo' = [todo EXCEPT ![t] = @ \ {l}]
         /\ held' = [held EXCEPT ![t] = @ \cup {[key |-> l.key, exclusive |-> l.exclusive]}]
         /\ pc' = [pc EXCEPT ![t] = IF todo[t] = {l} THEN "read" ELSE "locking"]
  BY DEF LockPath
<1>3. /\ pc[t] = "locking"
      /\ UNCHANGED <<committed, req, latched, rowLocks, local, write>>
  BY DEF LockPath
<1>4. DOMAIN local[t] = DOMAIN NoLocal /\ DOMAIN write[t] = DOMAIN NoWrite
  BY DEF TypeInv, TypeOK, IsLocal, IsWrite
<1>5. l \in todo[t]
  BY <1>2 DEF NextLock
<1>6. QED
  BY <1>1, <1>2, <1>3, <1>4, <1>5 DEF TypeInv, TypeOK, Frame, SameTables, committed

(* What the shapes of TypeOK say of t's own state. *)
LEMMA Shapes ==
    ASSUME TypeInv, NEW t \in Txs
    PROVE  /\ DOMAIN local[t] = {"existing", "plan", "prune", "shared", "fresh"}
           /\ DOMAIN write[t] = {"del", "ins", "upd", "gone", "events"}
           /\ DOMAIN NoLocal = {"existing", "plan", "prune", "shared", "fresh"}
           /\ DOMAIN NoWrite = {"del", "ins", "upd", "gone", "events"}
           /\ DOMAIN local = Txs /\ DOMAIN write = Txs
BY DEF TypeInv, TypeOK, IsLocal, IsWrite, NoLocal, NoWrite

(* put_value finds no row, is refused, or goes on with the row it found. *)
LEMMA PutReadEffect ==
    ASSUME TypeInv, NEW t \in Txs, PutRead(t)
    PROVE  /\ Frame(t) /\ SameTables /\ nextId' = nextId
           /\ pc[t] = "read" /\ req[t].op = "put"
           /\ \/ Ended(t)
              \/ /\ SameLocks(t) /\ SameDeletes(t) /\ SameInserts(t) /\ SameFindings(t)
                 /\ local'[t].prune = local[t].prune /\ latched'[t] = latched[t]
                 /\ \/ pc'[t] = "create"
                    \/ /\ pc'[t] = "overwrite"
                       /\ \E r \in At(View(t), fold(req[t].path)) :
                             local'[t].existing.content = r.content
<1> DEFINE here == At(View(t), fold(req[t].path))
           id == (CHOOSE r \in here : TRUE).content
           c == Content(id)
<1>0. pc[t] = "read" /\ req[t].op = "put" /\ {"create", "overwrite"} \subseteq Phases
  BY DEF PutRead, Phases
<1>1. CASE here = {}
  <2>1. /\ pc' = [pc EXCEPT ![t] = "create"]
        /\ UNCHANGED <<committed, req, todo, held, latched, rowLocks, local, write>>
    BY <1>1 DEF PutRead
  <2>2. QED
    BY <1>0, <2>1, Shapes DEF TypeInv, TypeOK, Frame, SameTables, SameLocks, SameDeletes,
       SameInserts, SameFindings, committed
<1>2. CASE here # {} /\ Rollback(t)
  BY <1>0, <1>2, EndTxEffect DEF Rollback, SameTables, committed
<1>3. CASE /\ here # {}
           /\ pc' = [pc EXCEPT ![t] = "overwrite"]
           /\ local' = [local EXCEPT ![t].existing =
                           [content |-> id, stored |-> c.stored, class |-> c.class]]
           /\ UNCHANGED <<committed, req, todo, held, latched, rowLocks, write>>
  <2>1. PICK r \in here : id = r.content
    BY <1>3
  <2> HIDE DEF here, id, c
  <2> DEFINE new == [content |-> id, stored |-> c.stored, class |-> c.class]
  <2>2. new.content = id
    OBVIOUS
  <2> HIDE DEF new
  <2>3. local' = [local EXCEPT ![t] = [local[t] EXCEPT !.existing = new]]
    BY <1>3 DEF new
  <2>4. /\ DOMAIN local' = Txs /\ DOMAIN local'[t] = DOMAIN NoLocal
        /\ local'[t].existing = new
        /\ SameFindings(t) /\ local'[t].prune = local[t].prune
        /\ \A u \in Txs \ {t} : local'[u] = local[u]
    BY <2>3, Shapes DEF SameFindings
  <2>5. /\ Frame(t) /\ SameTables /\ nextId' = nextId /\ SameLocks(t) /\ SameDeletes(t)
        /\ SameInserts(t) /\ latched'[t] = latched[t] /\ pc'[t] = "overwrite"
    BY <1>0, <1>3, <2>4, Shapes DEF TypeInv, TypeOK, Frame, SameTables, SameLocks, SameDeletes,
       SameInserts, committed
  <2>6. \E q \in At(View(t), fold(req[t].path)) : local'[t].existing.content = q.content
    BY <2>1, <2>2, <2>4 DEF here
  <2>7. QED
    BY <1>0, <2>4, <2>5, <2>6
<1>4. QED
  BY <1>1, <1>2, <1>3 DEF PutRead

(* put_value overwrites the content it found. *)
LEMMA PutOverwriteEffect ==
    ASSUME TypeInv, NEW t \in Txs, PutOverwrite(t)
    PROVE  /\ Frame(t) /\ SameTables /\ nextId' = nextId
           /\ pc[t] = "overwrite" /\ pc'[t] = "commit"
           /\ SameLocks(t) /\ SameDeletes(t) /\ local'[t] = local[t] /\ latched'[t] = latched[t]
           /\ write'[t].ins = write[t].ins
           /\ write'[t].upd = {[id |-> local[t].existing.content, class |-> req[t].class,
                                stored |-> stored_representation(local[t].existing.content,
                                                                 req[t].class, req[t].value)]}
<1>1. pc[t] = "overwrite" /\ "commit" \in Phases
  BY DEF PutOverwrite, Phases
<1>2. local[t].existing.content \in Ids
  BY <1>1 DEF TypeInv, TypeOK
<1>3. PICK new, ev, row :
         /\ new = [id |-> local[t].existing.content, class |-> req[t].class,
                   stored |-> stored_representation(local[t].existing.content,
                                                    req[t].class, req[t].value)]
         /\ row = [id |-> local[t].existing.content, mode |-> "update"]
         /\ rowLocks' = [rowLocks EXCEPT ![t] = @ \cup {row}]
         /\ write' = [write EXCEPT ![t] = [write[t] EXCEPT !.upd = {new}, !.events = ev]]
  BY DEF PutOverwrite, PutClass
<1>4. /\ pc' = [pc EXCEPT ![t] = "commit"]
      /\ UNCHANGED <<committed, req, todo, held, latched, local>>
  BY DEF PutOverwrite
<1>5. row \in [id : Ids, mode : {"share", "update", "exclusive"}]
  BY <1>2, <1>3
<1>6. rowLocks' \in [Txs -> SUBSET [id : Ids, mode : {"share", "update", "exclusive"}]]
  BY <1>3, <1>5 DEF TypeInv, TypeOK
<1>7. /\ DOMAIN write' = Txs /\ DOMAIN write'[t] = DOMAIN NoWrite
      /\ SameDeletes(t) /\ write'[t].ins = write[t].ins /\ write'[t].upd = {new}
      /\ \A u \in Txs \ {t} : write'[u] = write[u]
  BY <1>3, Shapes DEF SameDeletes
<1>8. QED
  BY <1>1, <1>3, <1>4, <1>6, <1>7, Shapes DEF TypeInv, TypeOK, Frame, SameTables, SameLocks,
     committed

(* put_value creates a content and its path, unless a path is in the way. *)
LEMMA PutCreateEffect ==
    ASSUME TypeInv, NEW t \in Txs, PutCreate(t)
    PROVE  /\ Frame(t) /\ SameTables /\ pc[t] = "create"
           /\ \/ Ended(t) /\ nextId' = nextId
              \/ /\ pc'[t] = "commit" /\ nextId' = nextId + 1
                 /\ SameLocks(t) /\ SameDeletes(t) /\ local'[t] = local[t]
                 /\ latched'[t] = latched[t]
                 /\ write'[t].ins = {[path |-> req[t].path, content |-> nextId]}
                 /\ write'[t].upd = {[id |-> nextId, class |-> req[t].class,
                        stored |-> stored_representation(nextId, req[t].class, req[t].value)]}
<1>1. pc[t] = "create" /\ "commit" \in Phases
  BY DEF PutCreate, Phases
<1>2. CASE Rollback(t)
  BY <1>1, <1>2, EndTxEffect DEF Rollback, SameTables, committed
<1>3. CASE ~path_collides(View(t), fold(req[t].path))
  <2> DEFINE ins == [path |-> req[t].path, content |-> nextId]
             new == [id |-> nextId, class |-> req[t].class,
                     stored |-> stored_representation(nextId, req[t].class, req[t].value)]
             ev == {Event("created", req[t].path, Hidden, Recorded(new.class, new.stored))}
  <2>1. write' = [write EXCEPT ![t].ins = {ins}, ![t].upd = {new}, ![t].events = ev]
    BY <1>3 DEF PutCreate, PutClass
  <2> HIDE DEF ins, new, ev
  <2>2. /\ pc' = [pc EXCEPT ![t] = "commit"] /\ nextId' = nextId + 1
        /\ UNCHANGED <<pathRows, contents, req, todo, held, latched, rowLocks, local>>
    BY <1>3 DEF PutCreate
  <2>3. /\ DOMAIN write' = Txs /\ DOMAIN write'[t] = DOMAIN NoWrite
        /\ SameDeletes(t) /\ write'[t].ins = {ins} /\ write'[t].upd = {new}
        /\ \A u \in Txs \ {t} : write'[u] = write[u]
    BY <2>1, Shapes DEF SameDeletes
  <2>4. /\ Frame(t) /\ SameTables /\ SameLocks(t)
        /\ pc'[t] = "commit" /\ local'[t] = local[t] /\ latched'[t] = latched[t]
    BY <1>1, <2>2, <2>3, Shapes DEF TypeInv, TypeOK, Frame, SameTables, SameLocks
  <2>5. QED
    BY <1>1, <2>2, <2>3, <2>4 DEF ins, new
<1>4. QED
  BY <1>2, <1>3 DEF PutCreate

(* delete_values deletes the rows it names, or finds none. *)
LEMMA DeletePathsEffect ==
    ASSUME TypeInv, NEW t \in Txs, DeletePaths(t)
    PROVE  /\ Frame(t) /\ SameTables /\ nextId' = nextId
           /\ pc[t] = "read" /\ req[t].op = "delete"
           /\ \/ Ended(t)
              \/ /\ pc'[t] = "prune" /\ SameLocks(t) /\ SameInserts(t) /\ SameFindings(t)
                 /\ latched'[t] = latched[t] /\ write'[t].gone = write[t].gone
                 /\ write'[t].del = delete_paths(View(t), fold(req[t].path), req[t].recurse)
                 /\ RowsFree(t, write'[t].del)
                 /\ local'[t].prune = ContentIds(write'[t].del)
<1>1. pc[t] = "read" /\ req[t].op = "delete" /\ "prune" \in Phases
  BY DEF DeletePaths, Phases
<1>2. CASE Rollback(t)
  BY <1>1, <1>2, EndTxEffect DEF Rollback, SameTables, committed
<1>3. CASE ~Rollback(t)
  <2> DEFINE deleted == delete_paths(View(t), fold(req[t].path), req[t].recurse)
             ids == ContentIds(deleted)
             ev == IF req[t].recurse
                   THEN WithSummary("subtree_deleted", req[t].path, DeletedEvents(deleted))
                   ELSE push_capped(DeletedEvents(deleted))
  <2>1. /\ RowsFree(t, deleted)
        /\ write' = [write EXCEPT ![t].del = deleted, ![t].events = ev]
        /\ local' = [local EXCEPT ![t].prune = ids]
    BY <1>3 DEF DeletePaths
  <2> HIDE DEF deleted, ids, ev
  <2>2. /\ pc' = [pc EXCEPT ![t] = "prune"]
        /\ UNCHANGED <<committed, req, todo, held, latched, rowLocks>>
    BY <1>3 DEF DeletePaths
  <2>3. /\ DOMAIN write' = Txs /\ DOMAIN write'[t] = DOMAIN NoWrite
        /\ SameInserts(t) /\ write'[t].del = deleted /\ write'[t].gone = write[t].gone
        /\ \A u \in Txs \ {t} : write'[u] = write[u]
    BY <2>1, Shapes DEF SameInserts
  <2>4. /\ DOMAIN local' = Txs /\ DOMAIN local'[t] = DOMAIN NoLocal
        /\ SameFindings(t) /\ local'[t].prune = ids
        /\ \A u \in Txs \ {t} : local'[u] = local[u]
    BY <2>1, Shapes DEF SameFindings
  <2>5. /\ Frame(t) /\ SameTables /\ nextId' = nextId /\ SameLocks(t)
        /\ pc'[t] = "prune" /\ latched'[t] = latched[t]
    BY <1>1, <2>2, <2>3, <2>4 DEF TypeInv, TypeOK, Frame, SameTables, SameLocks, committed
  <2>6. QED
    BY <1>1, <2>1, <2>3, <2>4, <2>5 DEF deleted, ids
<1>4. QED
  BY <1>2, <1>3

(* prune_orphan_contents latches one more content. *)
LEMMA LatchContentEffect ==
    ASSUME TypeInv, NEW t \in Txs, LatchContent(t)
    PROVE  /\ Frame(t) /\ SameTables /\ nextId' = nextId
           /\ pc[t] = "prune" /\ pc'[t] = "prune"
           /\ SameLocks(t) /\ local'[t] = local[t] /\ write'[t] = write[t]
           /\ \E id : /\ latched'[t] = latched[t] \cup {id}
                      /\ \A u \in Txs \ {t} : id \notin latched[u]
<1>1. pc[t] = "prune"
  BY DEF LatchContent
<1>2. PICK id \in NextLatch(t) :
         /\ \A u \in Txs \ {t} : id \notin latched[u]
         /\ latched' = [latched EXCEPT ![t] = @ \cup {id}]
  BY DEF LatchContent
<1>3. UNCHANGED <<committed, pc, req, todo, held, rowLocks, local, write>>
  BY DEF LatchContent
<1>4. id \in Ids
  BY <1>2 DEF NextLatch, TypeInv, TypeOK, IsLocal
<1>5. latched' \in [Txs -> SUBSET Ids]
  BY <1>2, <1>4 DEF TypeInv, TypeOK
<1>6. QED
  BY <1>1, <1>2, <1>3, <1>5, Shapes DEF TypeInv, TypeOK, Frame, SameTables, SameLocks, committed

(* prune_orphan_contents picks the contents no path leads to. *)
LEMMA PruneSelectEffect ==
    ASSUME TypeInv, NEW t \in Txs, PruneSelect(t)
    PROVE  /\ Frame(t) /\ SameTables /\ nextId' = nextId
           /\ pc[t] = "prune" /\ pc'[t] = "erase"
           /\ SameLocks(t) /\ write'[t] = write[t] /\ latched'[t] = latched[t] /\ SameFindings(t)
           /\ local[t].prune \subseteq latched[t]
           /\ local'[t].prune = {id \in local[t].prune : PathsOf(View(t), id) = {}}
<1>1. pc[t] = "prune" /\ "erase" \in Phases /\ local[t].prune \subseteq latched[t]
  BY DEF PruneSelect, Phases
<1>2. PICK ids : /\ ids = {id \in local[t].prune : PathsOf(View(t), id) = {}}
                 /\ local' = [local EXCEPT ![t] = [local[t] EXCEPT !.prune = ids]]
  BY DEF PruneSelect
<1>3. /\ pc' = [pc EXCEPT ![t] = "erase"]
      /\ UNCHANGED <<committed, req, todo, held, latched, rowLocks, write>>
  BY DEF PruneSelect
<1>4. /\ DOMAIN local' = Txs /\ DOMAIN local'[t] = DOMAIN NoLocal
      /\ SameFindings(t) /\ local'[t].prune = ids
      /\ \A u \in Txs \ {t} : local'[u] = local[u]
  BY <1>2, Shapes DEF SameFindings
<1>5. /\ Frame(t) /\ SameTables /\ nextId' = nextId /\ SameLocks(t)
      /\ pc'[t] = "erase" /\ write'[t] = write[t] /\ latched'[t] = latched[t]
  BY <1>1, <1>3, <1>4, Shapes DEF TypeInv, TypeOK, Frame, SameTables, SameLocks, committed
<1>6. QED
  BY <1>1, <1>2, <1>4, <1>5

(* prune_orphan_contents deletes them, and their paths by cascade. *)
LEMMA PruneEraseEffect ==
    ASSUME TypeInv, NEW t \in Txs, PruneErase(t)
    PROVE  /\ Frame(t) /\ SameTables /\ nextId' = nextId
           /\ pc[t] = "erase"
           /\ pc'[t] = IF req[t].op = "replace" THEN "resolve" ELSE "commit"
           /\ SameLocks(t) /\ SameInserts(t) /\ latched'[t] = latched[t] /\ local'[t] = local[t]
           /\ write'[t].gone = local[t].prune
           /\ write'[t].del = write[t].del \cup {r \in View(t) : r.content \in local[t].prune}
<1>1. pc[t] = "erase" /\ {"resolve", "commit"} \subseteq Phases
  BY DEF PruneErase, Phases
<1>2. PICK gone, del, rows :
         /\ gone = local[t].prune
         /\ del = write[t].del \cup {r \in View(t) : r.content \in gone}
         /\ rows = [id : gone, mode : {"exclusive"}]
         /\ rowLocks' = [rowLocks EXCEPT ![t] = @ \cup rows]
         /\ write' = [write EXCEPT ![t] = [write[t] EXCEPT !.gone = gone, !.del = del]]
  BY DEF PruneErase
<1>3. /\ pc' = [pc EXCEPT ![t] = IF req[t].op = "replace" THEN "resolve" ELSE "commit"]
      /\ UNCHANGED <<committed, req, todo, held, latched, local>>
  BY DEF PruneErase
<1>4. rows \subseteq [id : Ids, mode : {"share", "update", "exclusive"}]
  BY <1>2 DEF TypeInv, TypeOK, IsLocal
<1>5. rowLocks' \in [Txs -> SUBSET [id : Ids, mode : {"share", "update", "exclusive"}]]
  BY <1>2, <1>4 DEF TypeInv, TypeOK
<1>6. /\ DOMAIN write' = Txs /\ DOMAIN write'[t] = DOMAIN NoWrite
      /\ SameInserts(t) /\ write'[t].gone = gone /\ write'[t].del = del
      /\ \A u \in Txs \ {t} : write'[u] = write[u]
  BY <1>2, Shapes DEF SameInserts
<1>7. /\ Frame(t) /\ SameTables /\ nextId' = nextId /\ SameLocks(t)
      /\ pc'[t] = (IF req[t].op = "replace" THEN "resolve" ELSE "commit")
      /\ local'[t] = local[t] /\ latched'[t] = latched[t]
  BY <1>1, <1>3, <1>5, <1>6, Shapes DEF TypeInv, TypeOK, Frame, SameTables, SameLocks, committed
<1>8. QED
  BY <1>1, <1>2, <1>6, <1>7

(* replace_sub_tree settles which entries are plain writes. *)
LEMMA ReplaceReadEffect ==
    ASSUME TypeInv, NEW t \in Txs, ReplaceRead(t)
    PROVE  /\ Frame(t) /\ SameTables /\ nextId' = nextId
           /\ pc[t] = "read" /\ req[t].op = "replace"
           /\ \/ Ended(t)
              \/ /\ pc'[t] = "clear" /\ SameLocks(t) /\ write'[t] = write[t]
                 /\ latched'[t] = latched[t] /\ local'[t].prune = local[t].prune
                 /\ local'[t].shared = local[t].shared /\ local'[t].fresh = local[t].fresh
                 /\ \E secrets : local'[t].plan =
                       PlainEntries(resolve_preserve_markers(req[t].entries, secrets))
<1>1. pc[t] = "read" /\ req[t].op = "replace" /\ "clear" \in Phases
  BY DEF ReplaceRead, Phases
<1>2. CASE Rollback(t)
  BY <1>1, <1>2, EndTxEffect DEF Rollback, SameTables, committed
<1>3. CASE ~Rollback(t)
  <2> DEFINE secrets == secret_paths_touching(View(t), fold(req[t].path))
             plan == PlainEntries(resolve_preserve_markers(req[t].entries, secrets))
  <2>1. local' = [local EXCEPT ![t].plan = plan]
    BY <1>3 DEF ReplaceRead
  <2> HIDE DEF secrets, plan
  <2>2. /\ pc' = [pc EXCEPT ![t] = "clear"]
        /\ UNCHANGED <<committed, req, todo, held, latched, rowLocks, write>>
    BY <1>3 DEF ReplaceRead
  <2>3. /\ DOMAIN local' = Txs /\ DOMAIN local'[t] = DOMAIN NoLocal
        /\ local'[t].plan = plan /\ local'[t].prune = local[t].prune
        /\ local'[t].shared = local[t].shared /\ local'[t].fresh = local[t].fresh
        /\ \A u \in Txs \ {t} : local'[u] = local[u]
    BY <2>1, Shapes
  <2>4. /\ Frame(t) /\ SameTables /\ nextId' = nextId /\ SameLocks(t)
        /\ pc'[t] = "clear" /\ write'[t] = write[t] /\ latched'[t] = latched[t]
    BY <1>1, <2>2, <2>3, Shapes DEF TypeInv, TypeOK, Frame, SameTables, SameLocks, committed
  <2>5. QED
    BY <1>1, <2>3, <2>4 DEF plan
<1>4. QED
  BY <1>2, <1>3

(* replace_sub_tree deletes the plain rows it does not name. *)
LEMMA ReplaceClearEffect ==
    ASSUME TypeInv, NEW t \in Txs, ReplaceClear(t)
    PROVE  /\ Frame(t) /\ SameTables /\ nextId' = nextId
           /\ pc[t] = "clear"
           /\ pc'[t] = IF write'[t].del = {} THEN "resolve" ELSE "prune"
           /\ SameLocks(t) /\ SameInserts(t) /\ SameFindings(t)
           /\ latched'[t] = latched[t] /\ write'[t].gone = write[t].gone
           /\ \E keep : write'[t].del =
                 delete_plain_paths_except(View(t), fold(req[t].path), keep)
           /\ RowsFree(t, write'[t].del)
           /\ local'[t].prune = ContentIds(write'[t].del)
<1>1. pc[t] = "clear" /\ {"resolve", "prune"} \subseteq Phases
  BY DEF ReplaceClear, Phases
<1> DEFINE keep == {fold(e.path) : e \in local[t].plan}
           cleared == delete_plain_paths_except(View(t), fold(req[t].path), keep)
           ids == ContentIds(cleared)
           ev == DeletedEvents(cleared)
<1>2. /\ RowsFree(t, cleared)
      /\ write' = [write EXCEPT ![t].del = cleared, ![t].events = ev]
      /\ local' = [local EXCEPT ![t].prune = ids]
      /\ pc' = [pc EXCEPT ![t] = IF cleared = {} THEN "resolve" ELSE "prune"]
      /\ UNCHANGED <<committed, req, todo, held, latched, rowLocks>>
  BY DEF ReplaceClear
<1> HIDE DEF keep, cleared, ids, ev
<1>3. /\ DOMAIN write' = Txs /\ DOMAIN write'[t] = DOMAIN NoWrite
      /\ SameInserts(t) /\ write'[t].del = cleared /\ write'[t].gone = write[t].gone
      /\ \A u \in Txs \ {t} : write'[u] = write[u]
  BY <1>2, Shapes DEF SameInserts
<1>4. /\ DOMAIN local' = Txs /\ DOMAIN local'[t] = DOMAIN NoLocal
      /\ SameFindings(t) /\ local'[t].prune = ids
      /\ \A u \in Txs \ {t} : local'[u] = local[u]
  BY <1>2, Shapes DEF SameFindings
<1>5. /\ Frame(t) /\ SameTables /\ nextId' = nextId /\ SameLocks(t)
      /\ pc'[t] = (IF cleared = {} THEN "resolve" ELSE "prune") /\ latched'[t] = latched[t]
  BY <1>1, <1>2, <1>3, <1>4 DEF TypeInv, TypeOK, Frame, SameTables, SameLocks, committed
<1>6. \E k : cleared = delete_plain_paths_except(View(t), fold(req[t].path), k)
  BY DEF cleared
<1>7. QED
  BY <1>1, <1>2, <1>3, <1>4, <1>5, <1>6 DEF ids

(* resolve_plain_writes finds the contents the entries land on. *)
LEMMA ReplaceResolveEffect ==
    ASSUME TypeInv, NEW t \in Txs, ReplaceResolve(t)
    PROVE  /\ Frame(t) /\ SameTables /\ nextId' = nextId /\ pc[t] = "resolve"
           /\ \/ Ended(t)
              \/ /\ pc'[t] = "write" /\ SameLocks(t) /\ write'[t] = write[t]
                 /\ latched'[t] = latched[t]
                 /\ local'[t].plan = local[t].plan /\ local'[t].prune = local[t].prune
                 /\ local'[t].shared = SharedWrites(View(t), local[t].plan)
                 /\ local'[t].fresh \subseteq local[t].plan
<1>1. pc[t] = "resolve" /\ "write" \in Phases
  BY DEF ReplaceResolve, Phases
<1>2. CASE Rollback(t)
  BY <1>1, <1>2, EndTxEffect DEF Rollback, SameTables, committed
<1>3. CASE ~Rollback(t)
  <2> DEFINE shared == SharedWrites(View(t), local[t].plan)
             fresh == {e \in local[t].plan : At(View(t), fold(e.path)) = {}}
  <2>1. local' = [local EXCEPT ![t].shared = shared, ![t].fresh = fresh]
    BY <1>3 DEF ReplaceResolve
  <2>2. fresh \subseteq local[t].plan
    OBVIOUS
  <2> HIDE DEF shared, fresh
  <2>3. /\ pc' = [pc EXCEPT ![t] = "write"]
        /\ UNCHANGED <<committed, req, todo, held, latched, rowLocks, write>>
    BY <1>3 DEF ReplaceResolve
  <2>4. /\ DOMAIN local' = Txs /\ DOMAIN local'[t] = DOMAIN NoLocal
        /\ local'[t].plan = local[t].plan /\ local'[t].prune = local[t].prune
        /\ local'[t].shared = shared /\ local'[t].fresh = fresh
        /\ \A u \in Txs \ {t} : local'[u] = local[u]
    BY <2>1, Shapes
  <2>5. /\ Frame(t) /\ SameTables /\ nextId' = nextId /\ SameLocks(t)
        /\ pc'[t] = "write" /\ write'[t] = write[t] /\ latched'[t] = latched[t]
    BY <1>1, <2>3, <2>4, Shapes DEF TypeInv, TypeOK, Frame, SameTables, SameLocks, committed
  <2>6. QED
    BY <1>1, <2>2, <2>4, <2>5 DEF shared
<1>4. QED
  BY <1>2, <1>3

(* update_plain_content overwrites one of them. *)
LEMMA ReplaceUpdateEffect ==
    ASSUME TypeInv, NEW t \in Txs, ReplaceUpdate(t)
    PROVE  /\ Frame(t) /\ SameTables /\ nextId' = nextId
           /\ pc[t] = "write" /\ pc'[t] = "write"
           /\ SameLocks(t) /\ SameDeletes(t) /\ latched'[t] = latched[t]
           /\ write'[t].ins = write[t].ins
           /\ local'[t].plan = local[t].plan /\ local'[t].prune = local[t].prune
           /\ local'[t].fresh = local[t].fresh /\ local'[t].shared \subseteq local[t].shared
           /\ \E w \in local[t].shared : write'[t].upd = write[t].upd \cup
                 {[id |-> w.id, class |-> Plain,
                   stored |-> stored_representation(w.id, Plain, w.value)]}
<1>1. pc[t] = "write"
  BY DEF ReplaceUpdate
<1>2. PICK w \in NextShared(t) :
         LET new == [id |-> w.id, class |-> Plain,
                     stored |-> stored_representation(w.id, Plain, w.value)]
             was == Content(w.id)
             through == {e \in local[t].plan : \E r \in View(t) :
                            r.content = w.id /\ fold(r.path) = fold(e.path)}
         IN  /\ rowLocks' = [rowLocks EXCEPT ![t] = @ \cup {[id |-> w.id, mode |-> "exclusive"]}]
             /\ local' = [local EXCEPT ![t].shared = @ \ {w}]
             /\ write' = [write EXCEPT
                   ![t].upd = @ \cup {new},
                   ![t].events = IF was = new THEN @
                      ELSE @ \cup {Event("updated", e.path, Recorded(was.class, was.stored),
                                         Recorded(Plain, new.stored)) : e \in through}]
  BY DEF ReplaceUpdate
<1>3. w \in local[t].shared
  BY <1>2 DEF NextShared
<1> DEFINE new == [id |-> w.id, class |-> Plain,
                   stored |-> stored_representation(w.id, Plain, w.value)]
           upd == write[t].upd \cup {new}
           rest == local[t].shared \ {w}
           row == [id |-> w.id, mode |-> "exclusive"]
<1>4. PICK ev : write' = [write EXCEPT ![t].upd = upd, ![t].events = ev]
  BY <1>2
<1>5. local' = [local EXCEPT ![t].shared = rest]
  BY <1>2
<1>6. rowLocks' = [rowLocks EXCEPT ![t] = @ \cup {row}]
  BY <1>2
<1>7. row \in [id : Ids, mode : {"share", "update", "exclusive"}] /\ rest \subseteq local[t].shared
  BY <1>3 DEF TypeInv, TypeOK, IsLocal
<1> HIDE DEF new, upd, rest, row
<1>8. UNCHANGED <<committed, pc, req, todo, held, latched>>
  BY DEF ReplaceUpdate
<1>9. rowLocks' \in [Txs -> SUBSET [id : Ids, mode : {"share", "update", "exclusive"}]]
  BY <1>6, <1>7 DEF TypeInv, TypeOK
<1>10. /\ DOMAIN write' = Txs /\ DOMAIN write'[t] = DOMAIN NoWrite
       /\ SameDeletes(t) /\ write'[t].ins = write[t].ins /\ write'[t].upd = upd
       /\ \A u \in Txs \ {t} : write'[u] = write[u]
  BY <1>4, Shapes DEF SameDeletes
<1>11. /\ DOMAIN local' = Txs /\ DOMAIN local'[t] = DOMAIN NoLocal
       /\ local'[t].plan = local[t].plan /\ local'[t].prune = local[t].prune
       /\ local'[t].fresh = local[t].fresh /\ local'[t].shared = rest
       /\ \A u \in Txs \ {t} : local'[u] = local[u]
  BY <1>5, Shapes
<1>12. /\ Frame(t) /\ SameTables /\ nextId' = nextId /\ SameLocks(t)
       /\ pc'[t] = "write" /\ latched'[t] = latched[t]
  BY <1>1, <1>8, <1>9, <1>10, <1>11 DEF TypeInv, TypeOK, Frame, SameTables, SameLocks, committed
<1>13. QED
  BY <1>1, <1>3, <1>7, <1>10, <1>11, <1>12 DEF upd, new

(* replace_sub_tree inserts an entry that has no row yet. *)
LEMMA ReplaceInsertEffect ==
    ASSUME TypeInv, NEW t \in Txs, ReplaceInsert(t)
    PROVE  /\ Frame(t) /\ SameTables /\ nextId' = nextId + 1
           /\ pc[t] = "write" /\ pc'[t] = "write"
           /\ SameLocks(t) /\ SameDeletes(t) /\ latched'[t] = latched[t]
           /\ local'[t].plan = local[t].plan /\ local'[t].prune = local[t].prune
           /\ local'[t].shared = local[t].shared /\ local'[t].fresh \subseteq local[t].fresh
           /\ \E e \in local[t].fresh :
                 /\ write'[t].ins = write[t].ins \cup {[path |-> e.path, content |-> nextId]}
                 /\ write'[t].upd = write[t].upd \cup
                       {[id |-> nextId, class |-> Plain,
                         stored |-> stored_representation(nextId, Plain, e.value)]}
<1>1. pc[t] = "write"
  BY DEF ReplaceInsert
<1>2. PICK e \in NextFresh(t) :
         LET new == [id |-> nextId, class |-> Plain,
                     stored |-> stored_representation(nextId, Plain, e.value)]
         IN  /\ local' = [local EXCEPT ![t].fresh = @ \ {e}]
             /\ write' = [write EXCEPT
                   ![t].ins = @ \cup {[path |-> e.path, content |-> nextId]},
                   ![t].upd = @ \cup {new},
                   ![t].events = @ \cup
                       {Event("created", e.path, Hidden, Recorded(Plain, new.stored))}]
  BY DEF ReplaceInsert
<1>3. e \in local[t].fresh
  BY <1>2 DEF NextFresh
<1> DEFINE new == [id |-> nextId, class |-> Plain,
                   stored |-> stored_representation(nextId, Plain, e.value)]
           ins == write[t].ins \cup {[path |-> e.path, content |-> nextId]}
           upd == write[t].upd \cup {new}
           rest == local[t].fresh \ {e}
           ev == write[t].events \cup
                    {Event("created", e.path, Hidden, Recorded(Plain, new.stored))}
<1>4. write' = [write EXCEPT ![t].ins = ins, ![t].upd = upd, ![t].events = ev]
  BY <1>2
<1>5. local' = [local EXCEPT ![t].fresh = rest] /\ rest \subseteq local[t].fresh
  BY <1>2
<1> HIDE DEF new, ins, upd, rest, ev
<1>6. nextId' = nextId + 1 /\ UNCHANGED <<pathRows, contents, pc, req, todo, held, latched, rowLocks>>
  BY DEF ReplaceInsert
<1>7. /\ DOMAIN write' = Txs /\ DOMAIN write'[t] = DOMAIN NoWrite
      /\ SameDeletes(t) /\ write'[t].ins = ins /\ write'[t].upd = upd
      /\ \A u \in Txs \ {t} : write'[u] = write[u]
  BY <1>4, Shapes DEF SameDeletes
<1>8. /\ DOMAIN local' = Txs /\ DOMAIN local'[t] = DOMAIN NoLocal
      /\ local'[t].plan = local[t].plan /\ local'[t].prune = local[t].prune
      /\ local'[t].shared = local[t].shared /\ local'[t].fresh = rest
      /\ \A u \in Txs \ {t} : local'[u] = local[u]
  BY <1>5, Shapes
<1>9. /\ Frame(t) /\ SameTables /\ SameLocks(t)
      /\ pc'[t] = "write" /\ latched'[t] = latched[t]
  BY <1>1, <1>6, <1>7, <1>8 DEF TypeInv, TypeOK, Frame, SameTables, SameLocks
<1>10. QED
  BY <1>1, <1>3, <1>5, <1>6, <1>7, <1>8, <1>9 DEF ins, upd, new

(* replace_sub_tree records its events. *)
LEMMA ReplaceRecordEffect ==
    ASSUME TypeInv, NEW t \in Txs, ReplaceRecord(t)
    PROVE  /\ Frame(t) /\ SameTables /\ nextId' = nextId
           /\ pc[t] = "write" /\ pc'[t] = "commit"
           /\ SameLocks(t) /\ SameDeletes(t) /\ SameInserts(t)
           /\ latched'[t] = latched[t] /\ local'[t] = local[t]
<1>1. pc[t] = "write" /\ "commit" \in Phases
  BY DEF ReplaceRecord, Phases
<1> DEFINE ev == WithSummary("subtree_replaced", req[t].path, write[t].events)
<1>2. write' = [write EXCEPT ![t].events = ev]
  BY DEF ReplaceRecord
<1> HIDE DEF ev
<1>3. /\ pc' = [pc EXCEPT ![t] = "commit"]
      /\ UNCHANGED <<committed, req, todo, held, latched, rowLocks, local>>
  BY DEF ReplaceRecord
<1>4. /\ DOMAIN write' = Txs /\ DOMAIN write'[t] = DOMAIN NoWrite
      /\ SameDeletes(t) /\ SameInserts(t)
      /\ \A u \in Txs \ {t} : write'[u] = write[u]
  BY <1>2, Shapes DEF SameDeletes, SameInserts
<1>5. QED
  BY <1>1, <1>3, <1>4, Shapes DEF TypeInv, TypeOK, Frame, SameTables, SameLocks, committed

(* add_value_path goes on with the row it found. *)
LEMMA AddReadEffect ==
    ASSUME TypeInv, NEW t \in Txs, AddRead(t)
    PROVE  /\ Frame(t) /\ SameTables /\ nextId' = nextId
           /\ pc[t] = "read" /\ req[t].op = "add"
           /\ \/ Ended(t)
              \/ /\ pc'[t] = "alias" /\ SameLocks(t) /\ write'[t] = write[t] /\ SameFindings(t)
                 /\ local'[t].prune = local[t].prune /\ latched'[t] = latched[t]
                 /\ \E r \in At(View(t), fold(req[t].path)) :
                       local'[t].existing.content = r.content
<1> DEFINE here == At(View(t), fold(req[t].path))
           id == (CHOOSE r \in here : TRUE).content
<1>1. pc[t] = "read" /\ req[t].op = "add" /\ "alias" \in Phases
  BY DEF AddRead, Phases
<1>2. CASE here = {}
  BY <1>1, <1>2, EndTxEffect DEF AddRead, Rollback, SameTables, committed
<1>3. CASE here # {}
  <2> DEFINE new == [content |-> id]
  <2>1. /\ local' = [local EXCEPT ![t].existing = new]
        /\ pc' = [pc EXCEPT ![t] = "alias"]
        /\ UNCHANGED <<committed, req, todo, held, latched, rowLocks, write>>
    BY <1>3 DEF AddRead
  <2>2. PICK r \in here : id = r.content
    BY <1>3
  <2>3. new.content = id
    OBVIOUS
  <2> HIDE DEF here, id, new
  <2>4. /\ DOMAIN local' = Txs /\ DOMAIN local'[t] = DOMAIN NoLocal
        /\ local'[t].existing = new
        /\ SameFindings(t) /\ local'[t].prune = local[t].prune
        /\ \A u \in Txs \ {t} : local'[u] = local[u]
    BY <2>1, Shapes DEF SameFindings
  <2>5. /\ Frame(t) /\ SameTables /\ nextId' = nextId /\ SameLocks(t)
        /\ write'[t] = write[t] /\ latched'[t] = latched[t] /\ pc'[t] = "alias"
    BY <1>1, <2>1, <2>4, Shapes DEF TypeInv, TypeOK, Frame, SameTables, SameLocks, committed
  <2>6. \E q \in At(View(t), fold(req[t].path)) : local'[t].existing.content = q.content
    BY <2>2, <2>3, <2>4 DEF here
  <2>7. QED
    BY <1>1, <2>4, <2>5, <2>6
<1>4. QED
  BY <1>2, <1>3

(* add_value_path inserts the alias, unless a path is in the way. *)
LEMMA AddInsertEffect ==
    ASSUME TypeInv, NEW t \in Txs, AddInsert(t)
    PROVE  /\ Frame(t) /\ SameTables /\ nextId' = nextId /\ pc[t] = "alias"
           /\ \/ Ended(t)
              \/ /\ pc'[t] = "commit"
                 /\ SameLocks(t) /\ SameDeletes(t) /\ local'[t] = local[t]
                 /\ latched'[t] = latched[t] /\ write'[t].upd = write[t].upd
                 /\ write'[t].ins = {[path |-> req[t].new, content |-> local[t].existing.content]}
<1>1. pc[t] = "alias" /\ "commit" \in Phases
  BY DEF AddInsert, Phases
<1>2. CASE Rollback(t)
  BY <1>1, <1>2, EndTxEffect DEF Rollback, SameTables, committed
<1>3. CASE ~Rollback(t)
  <2> DEFINE id == local[t].existing.content
             ins == [path |-> req[t].new, content |-> id]
             row == [id |-> id, mode |-> "share"]
             ev == {Event("path_added", req[t].path, Hidden, req[t].new),
                    Event("path_added", req[t].new, Hidden, req[t].path)}
  <2>1. /\ rowLocks' = [rowLocks EXCEPT ![t] = @ \cup {row}]
        /\ write' = [write EXCEPT ![t].ins = {ins}, ![t].events = ev]
        /\ pc' = [pc EXCEPT ![t] = "commit"]
        /\ UNCHANGED <<committed, req, todo, held, latched, local>>
    BY <1>3 DEF AddInsert
  <2>2. row \in [id : Ids, mode : {"share", "update", "exclusive"}]
    BY <1>1 DEF TypeInv, TypeOK
  <2> HIDE DEF id, ins, row, ev
  <2>3. rowLocks' \in [Txs -> SUBSET [id : Ids, mode : {"share", "update", "exclusive"}]]
    BY <2>1, <2>2 DEF TypeInv, TypeOK
  <2>4. /\ DOMAIN write' = Txs /\ DOMAIN write'[t] = DOMAIN NoWrite
        /\ SameDeletes(t) /\ write'[t].ins = {ins} /\ write'[t].upd = write[t].upd
        /\ \A u \in Txs \ {t} : write'[u] = write[u]
    BY <2>1, Shapes DEF SameDeletes
  <2>5. /\ Frame(t) /\ SameTables /\ nextId' = nextId /\ SameLocks(t)
        /\ local'[t] = local[t] /\ latched'[t] = latched[t] /\ pc'[t] = "commit"
    BY <1>1, <2>1, <2>3, <2>4, Shapes DEF TypeInv, TypeOK, Frame, SameTables, SameLocks, committed
  <2>6. QED
    BY <1>1, <2>4, <2>5 DEF ins, id
<1>4. QED
  BY <1>2, <1>3
=============================================================================
