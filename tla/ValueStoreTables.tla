-------------------------- MODULE ValueStoreTables --------------------------
(***************************************************************************)
(* The tables of ValueStore: no content without a path, no path without a  *)
(* content, and no path deleted that nobody named.                         *)
(***************************************************************************)
EXTENDS ValueStoreLocks

(* A content that a path row keeps which t has locked and does not delete. *)
Anchored(t, id) ==
    \E r \in pathRows \ write[t].del :
        r.content = id /\ sql_at_or_below(fold(r.path), fold(req[t].path))

(* A call has written nothing before its first writing statement, and put  *)
(* and add never delete.                                                   *)
WritesInOrder(t) ==
    /\ pc[t] \in {"idle", "locking", "read", "overwrite", "create", "alias", "clear"}
         => /\ write[t].del = {} /\ write[t].gone = {} /\ local[t].prune = {}
            /\ write[t].ins = {} /\ write[t].upd = {}
    /\ pc[t] \in {"idle", "locking", "read"} => local[t].plan = {}
    /\ pc[t] \in {"prune", "erase"} => write[t].gone = {}
    /\ pc[t] \in {"prune", "erase", "resolve"} => write[t].ins = {} /\ write[t].upd = {}
    /\ req[t].op \in {"put", "add"}
         => write[t].del = {} /\ write[t].gone = {} /\ local[t].prune = {}

(* What a call deletes is committed and named by it. *)
DeletesNamed(t) ==
    \A r \in write[t].del :
        r \in pathRows /\ sql_at_or_below(fold(r.path), fold(req[t].path))

(* What a call found, its locks keep in place until it has written. *)
FindingsStand(t) ==
    /\ pc[t] \in {"overwrite", "alias"} => Anchored(t, local[t].existing.content)
    /\ pc[t] = "write" => \A v \in local[t].shared : Anchored(t, v.id)
    /\ \A e \in local[t].plan : sql_at_or_below(fold(e.path), fold(req[t].path))
    /\ local[t].fresh \subseteq local[t].plan

(* What a call writes refers to what it writes or to what is anchored, and *)
(* the identities it drew are nobody else's.                               *)
WritesLinked(t) ==
    /\ \A c \in write[t].upd : Anchored(t, c.id) \/ \E r \in write[t].ins : r.content = c.id
    /\ \A r \in write[t].ins :
          IF req[t].op = "add" THEN Anchored(t, r.content)
          ELSE /\ \E c \in write[t].upd : c.id = r.content
               /\ r.content < nextId
               /\ \A q \in pathRows : q.content # r.content

(* The contents whose paths a call deleted: once it has looked, each is    *)
(* latched and either pruned, with no path left, or kept by a path.        *)
PruneExact(t) ==
    /\ local[t].prune \subseteq ContentIds(write[t].del)
    /\ pc[t] = "prune" => local[t].prune = ContentIds(write[t].del)
    /\ pc[t] \in {"erase", "resolve", "write", "commit"} =>
          /\ ContentIds(write[t].del) \subseteq latched[t]
          /\ \A id \in ContentIds(write[t].del) \ local[t].prune : PathsOf(View(t), id) # {}
          /\ \A id \in local[t].prune : PathsOf(View(t), id) = {}
    /\ pc[t] \in {"resolve", "write", "commit"} => write[t].gone = local[t].prune

CallInv(t) ==
    /\ WritesInOrder(t)
    /\ DeletesNamed(t)
    /\ FindingsStand(t)
    /\ WritesLinked(t)
    /\ PruneExact(t)

(* Two calls never delete one row, latch one content or draw one identity. *)
Disjoint(t, u) ==
    /\ write[t].del \cap write[u].del = {}
    /\ latched[t] \cap latched[u] = {}
    /\ req[t].op # "add" /\ req[u].op # "add" =>
          \A r \in write[t].ins, q \in write[u].ins : r.content # q.content

(* The committed tables: every path row refers to a content drawn from the *)
(* sequence, and every content has a path row.                             *)
TablesLinked ==
    /\ \A r \in pathRows : r.content < nextId /\ \E c \in contents : c.id = r.content
    /\ \A c \in contents : \E r \in pathRows : r.content = c.id

StoreInv ==
    /\ TablesLinked
    /\ \A t \in Txs : CallInv(t)
    /\ \A t, u \in Txs : t # u => Disjoint(t, u)

-----------------------------------------------------------------------------
(* The tables. *)

(* What a call relies on, a step of another call that commits nothing      *)
(* leaves as it is.                                                        *)
LEMMA OtherCallKept ==
    ASSUME TypeInv, StoreInv, NEW t \in Txs, Frame(t), SameTables,
           nextId' \in {nextId, nextId + 1}, NEW u \in Txs \ {t}
    PROVE  CallInv(u)'
<1>1. /\ pc'[u] = pc[u] /\ req'[u] = req[u] /\ latched'[u] = latched[u]
      /\ local'[u] = local[u] /\ write'[u] = write[u] /\ pathRows' = pathRows
  BY DEF Frame, SameTables
<1>2. CallInv(u)
  BY DEF StoreInv
<1>3. \A id : Anchored(u, id)' <=> Anchored(u, id)
  BY <1>1 DEF Anchored
<1>4. WritesInOrder(u)' /\ DeletesNamed(u)'
  BY <1>1, <1>2 DEF CallInv, WritesInOrder, DeletesNamed
<1>5. FindingsStand(u)'
  BY <1>1, <1>2, <1>3 DEF CallInv, FindingsStand
<1>6. WritesLinked(u)'
  <2>1. \A r \in write[u].ins : r.content < nextId => r.content < nextId'
    BY TypedCall DEF Typed, TablesTyped, IsWrite, IsPathRow, Ids
  <2>2. QED
    BY <1>1, <1>2, <1>3, <2>1 DEF CallInv, WritesLinked
<1>7. PruneExact(u)'
  BY <1>1, <1>2 DEF CallInv, PruneExact, View
<1>8. QED
  BY <1>4, <1>5, <1>6, <1>7 DEF CallInv

(* A step that commits nothing keeps the invariant if its call does. *)
LEMMA StoreStep ==
    ASSUME TypeInv, StoreInv, NEW t \in Txs, Frame(t), SameTables,
           nextId' \in {nextId, nextId + 1},
           CallInv(t)', \A u \in Txs \ {t} : Disjoint(t, u)'
    PROVE  StoreInv'
<1>1. \A u \in Txs : CallInv(u)'
  BY OtherCallKept
<1>2. \A u, v \in Txs \ {t} : u # v => Disjoint(u, v)'
  BY DEF StoreInv, Disjoint, Frame
<1>3. \A u \in Txs \ {t} : Disjoint(u, t)'
  BY DEF Disjoint
<1>4. TablesLinked'
  <2>1. \A r \in pathRows : r.content < nextId => r.content < nextId'
    BY DEF TypeInv, TypeOK, IsPathRow, Ids
  <2>2. QED
    BY <2>1 DEF StoreInv, TablesLinked, SameTables
<1>5. QED
  BY <1>1, <1>2, <1>3, <1>4 DEF StoreInv

(* A call that has ended relies on nothing. *)
LEMMA EndedCall ==
    ASSUME NEW t \in Txs, Ended(t)
    PROVE  CallInv(t)' /\ \A u \in Txs \ {t} : Disjoint(t, u)'
<1>1. /\ pc'[t] = "idle" /\ latched'[t] = {} /\ req'[t].op = "none"
      /\ write'[t].del = {} /\ write'[t].gone = {} /\ write'[t].ins = {} /\ write'[t].upd = {}
      /\ local'[t].prune = {} /\ local'[t].plan = {} /\ local'[t].fresh = {}
  BY DEF Ended, NoLocal, NoWrite
<1>2. CallInv(t)'
  BY <1>1 DEF CallInv, WritesInOrder, DeletesNamed, FindingsStand, WritesLinked, PruneExact
<1>3. QED
  BY <1>1, <1>2 DEF Disjoint

(* A call that ends without writing keeps the invariant. *)
LEMMA EndStep ==
    ASSUME TypeInv, StoreInv, NEW t \in Txs, Frame(t), SameTables, nextId' = nextId, Ended(t)
    PROVE  StoreInv'
BY EndedCall, StoreStep

(* A step that neither deletes, latches nor inserts keeps calls disjoint. *)
LEMMA StillDisjoint ==
    ASSUME StoreInv, NEW t \in Txs, Frame(t), req'[t].op = req[t].op, latched'[t] = latched[t],
           write'[t].del = write[t].del, write'[t].ins = write[t].ins
    PROVE  \A u \in Txs \ {t} : Disjoint(t, u)'
BY DEF StoreInv, Disjoint, Frame

(* Nor does one that deletes and latches what no other call does. *)
LEMMA DisjointDeletes ==
    ASSUME StoreInv, NEW t \in Txs, Frame(t), req'[t].op = req[t].op, write'[t].ins = write[t].ins,
           \A u \in Txs \ {t} : write'[t].del \cap write[u].del = {},
           \A u \in Txs \ {t} : latched'[t] \cap latched[u] = {}
    PROVE  \A u \in Txs \ {t} : Disjoint(t, u)'
<1> SUFFICES ASSUME NEW u \in Txs \ {t} PROVE Disjoint(t, u)'
  OBVIOUS
<1>1. write'[u] = write[u] /\ latched'[u] = latched[u] /\ req'[u] = req[u]
  BY DEF Frame
<1>2. Disjoint(t, u)
  BY DEF StoreInv
<1>3. QED
  BY <1>1, <1>2 DEF Disjoint

(* Anchors depend on the committed rows and on what t deletes. *)
LEMMA AnchorsKept ==
    ASSUME NEW t \in Txs, pathRows' = pathRows, req'[t] = req[t], write'[t].del = write[t].del
    PROVE  \A id : Anchored(t, id)' <=> Anchored(t, id)
BY DEF Anchored

(* Before its first write a call sees the committed rows. *)
LEMMA EarlyView ==
    ASSUME StoreInv, NEW t \in Txs,
           pc[t] \in {"idle", "locking", "read", "overwrite", "create", "alias", "clear"}
    PROVE  /\ View(t) = pathRows
           /\ write[t].del = {} /\ write[t].gone = {} /\ local[t].prune = {}
           /\ write[t].ins = {} /\ write[t].upd = {}
BY DEF StoreInv, CallInv, WritesInOrder, View

(* The identities a call drew have been drawn. *)
LEMMA DrawnIdentities ==
    ASSUME TypeInv, StoreInv, NEW t \in Txs, req[t].op # "add", NEW r \in write[t].ins
    PROVE  nextId \in Nat /\ r.content \in Nat /\ r.content < nextId /\ r.content # nextId
<1>1. IsPathRow(r) /\ nextId \in Ids
  BY TypedCall DEF Typed, IsWrite, TablesTyped
<1>2. r.content \in Nat /\ nextId \in Nat
  BY <1>1 DEF IsPathRow, Ids
<1>3. r.content < nextId
  BY DEF StoreInv, CallInv, WritesLinked
<1>4. QED
  BY <1>2, <1>3

(* Beginning and locking. *)
LEMMA BeginStore ==
    ASSUME TypeInv, StoreInv, NEW t \in Txs, Begin(t) \/ LockPath(t)
    PROVE  StoreInv'
<1>1. /\ Frame(t) /\ SameTables /\ nextId' = nextId
      /\ pc[t] \in {"idle", "locking"} /\ pc'[t] \in {"locking", "read"}
      /\ latched'[t] = latched[t] /\ local'[t] = local[t] /\ write'[t] = write[t]
  BY BeginEffect, LockPathEffect
<1>2. /\ write[t].del = {} /\ write[t].gone = {} /\ local[t].prune = {}
      /\ write[t].ins = {} /\ write[t].upd = {} /\ local[t].plan = {} /\ local[t].fresh = {}
  BY <1>1 DEF StoreInv, CallInv, WritesInOrder, FindingsStand
<1>3. CallInv(t)'
  BY <1>1, <1>2 DEF CallInv, WritesInOrder, DeletesNamed, FindingsStand, WritesLinked, PruneExact
<1>4. \A u \in Txs \ {t} : Disjoint(t, u)'
  BY <1>1, <1>2 DEF StoreInv, Disjoint, Frame
<1>5. QED
  BY <1>1, <1>3, <1>4, StoreStep

(* put_value *)
LEMMA PutStore ==
    ASSUME TypeInv, StoreInv, NEW t \in Txs, PutRead(t) \/ PutOverwrite(t) \/ PutCreate(t)
    PROVE  StoreInv'
<1>0. CallInv(t)
  BY DEF StoreInv
<1>1. CASE PutRead(t)
  <2>1. CASE Ended(t)
    BY <1>1, <2>1, PutReadEffect, EndStep
  <2>2. CASE ~Ended(t)
    <3>1. /\ Frame(t) /\ SameTables /\ nextId' = nextId /\ pc[t] = "read" /\ req[t].op = "put"
          /\ req'[t] = req[t] /\ SameDeletes(t) /\ SameInserts(t) /\ SameFindings(t)
          /\ local'[t].prune = local[t].prune /\ pc'[t] \in {"create", "overwrite"}
          /\ latched'[t] = latched[t]
      BY <1>1, <2>2, PutReadEffect DEF SameLocks
    <3>2. pc'[t] = "overwrite" => Anchored(t, local'[t].existing.content)
      <4>1. View(t) = pathRows /\ write[t].del = {}
        BY <3>1, EarlyView
      <4>2. QED
        BY <1>1, <2>2, <3>1, <4>1, PutReadEffect DEF At, Anchored, sql_at_or_below
    <3>3. \A id : Anchored(t, id)' <=> Anchored(t, id)
      BY <3>1, AnchorsKept DEF SameTables, SameDeletes
    <3>4. /\ write'[t].del = {} /\ write'[t].gone = {} /\ local'[t].prune = {}
          /\ write'[t].ins = {} /\ write'[t].upd = {}
      BY <3>1, EarlyView DEF SameDeletes, SameInserts
    <3>5. FindingsStand(t)'
      BY <1>0, <3>1, <3>2, <3>3 DEF CallInv, FindingsStand, SameFindings
    <3>6. CallInv(t)'
      BY <3>1, <3>4, <3>5 DEF CallInv, WritesInOrder, DeletesNamed, WritesLinked, PruneExact
    <3>7. \A u \in Txs \ {t} : Disjoint(t, u)'
      BY <3>1, StillDisjoint DEF SameDeletes, SameInserts
    <3>8. QED
      BY <3>1, <3>6, <3>7, StoreStep
  <2>3. QED
    BY <2>1, <2>2
<1>2. CASE PutOverwrite(t)
  <2>1. /\ Frame(t) /\ SameTables /\ nextId' = nextId /\ pc[t] = "overwrite" /\ pc'[t] = "commit"
        /\ req'[t] = req[t] /\ SameDeletes(t) /\ local'[t] = local[t] /\ latched'[t] = latched[t]
        /\ write'[t].ins = write[t].ins
    BY <1>2, PutOverwriteEffect DEF SameLocks
  <2>2. \A c \in write'[t].upd : c.id = local[t].existing.content
    <3> DEFINE new == [id |-> local[t].existing.content, class |-> req[t].class,
                       stored |-> stored_representation(local[t].existing.content,
                                                        req[t].class, req[t].value)]
    <3>1. write'[t].upd = {new}
      BY <1>2, PutOverwriteEffect
    <3>2. new.id = local[t].existing.content
      OBVIOUS
    <3> HIDE DEF new
    <3>3. QED
      BY <3>1, <3>2
  <2>3. /\ write'[t].del = {} /\ write'[t].gone = {} /\ local'[t].prune = {} /\ write'[t].ins = {}
    BY <2>1, EarlyView DEF SameDeletes
  <2>4. Anchored(t, local[t].existing.content)'
    BY <1>0, <2>1, AnchorsKept DEF CallInv, FindingsStand, SameTables, SameDeletes
  <2>5. FindingsStand(t)'
    BY <1>0, <2>1 DEF CallInv, FindingsStand
  <2>6. WritesLinked(t)'
    <3>1. \A c \in write'[t].upd : Anchored(t, c.id)'
      <4>1. local'[t].existing.content = local[t].existing.content
        BY <2>1
      <4>2. ASSUME NEW c \in write'[t].upd PROVE Anchored(t, c.id)'
        <5>1. c.id = local'[t].existing.content
          BY <2>2, <4>1
        <5>2. QED
          BY <2>4, <5>1 DEF Anchored
      <4>3. QED
        BY <4>2
    <3>2. QED
      BY <2>3, <3>1 DEF WritesLinked
  <2>7. CallInv(t)'
    BY <2>1, <2>3, <2>5, <2>6 DEF CallInv, WritesInOrder, DeletesNamed, PruneExact, ContentIds
  <2>8. \A u \in Txs \ {t} : Disjoint(t, u)'
    BY <2>1, StillDisjoint DEF SameDeletes
  <2>9. QED
    BY <2>1, <2>7, <2>8, StoreStep
<1>3. CASE PutCreate(t)
  <2>1. CASE Ended(t)
    <3>1. /\ Frame(t) /\ SameTables /\ nextId' \in {nextId, nextId + 1}
      BY <1>3, PutCreateEffect
    <3>2. QED
      BY <2>1, <3>1, EndedCall, StoreStep
  <2>2. CASE ~Ended(t)
    <3>1. /\ Frame(t) /\ SameTables /\ nextId' = nextId + 1 /\ pc[t] = "create" /\ pc'[t] = "commit"
          /\ req'[t] = req[t] /\ SameDeletes(t) /\ local'[t] = local[t] /\ latched'[t] = latched[t]
          /\ write'[t].ins = {[path |-> req[t].path, content |-> nextId]}
          /\ write'[t].upd = {[id |-> nextId, class |-> req[t].class,
                 stored |-> stored_representation(nextId, req[t].class, req[t].value)]}
      BY <1>3, <2>2, PutCreateEffect DEF SameLocks
    <3>2. /\ \A r \in write'[t].ins : r.content = nextId
          /\ \A c \in write'[t].upd : c.id = nextId
          /\ \E r \in write'[t].ins : r.content = nextId
          /\ \E c \in write'[t].upd : c.id = nextId
      BY <3>1
    <3>3. nextId \in Nat /\ nextId < nextId' /\ \A q \in pathRows : q.content # nextId
      <4>1. nextId \in Nat /\ \A q \in pathRows : q.content \in Nat /\ q.content < nextId
        BY DEF TypeInv, TypeOK, IsPathRow, Ids, StoreInv, TablesLinked
      <4>2. QED
        BY <3>1, <4>1
    <3>4. /\ write'[t].del = {} /\ write'[t].gone = {} /\ local'[t].prune = {}
      BY <3>1, EarlyView DEF SameDeletes
    <3>5. req[t].op = "put" /\ pathRows' = pathRows
      BY <3>1, TypedCall DEF Typed, CallOK, SameTables
    <3>6. WritesLinked(t)'
      BY <3>1, <3>2, <3>3, <3>5 DEF WritesLinked
    <3>7. FindingsStand(t)'
      BY <1>0, <3>1 DEF CallInv, FindingsStand
    <3>8. CallInv(t)'
      BY <3>1, <3>4, <3>6, <3>7 DEF CallInv, WritesInOrder, DeletesNamed, PruneExact, ContentIds
    <3>9. ASSUME NEW u \in Txs \ {t} PROVE Disjoint(t, u)'
      <4>1. /\ write'[u] = write[u] /\ latched'[u] = latched[u] /\ req'[u] = req[u]
            /\ Disjoint(t, u) /\ CallInv(u)
        BY <3>1 DEF Frame, StoreInv
      <4>2. req[u].op # "add" => \A q \in write[u].ins : q.content # nextId
        BY DrawnIdentities
      <4>3. QED
        BY <3>1, <3>2, <4>1, <4>2 DEF Disjoint, SameDeletes
    <3>10. QED
      BY <3>1, <3>8, <3>9, StoreStep
  <2>3. QED
    BY <2>1, <2>2
<1>4. QED
  BY <1>1, <1>2, <1>3

(* delete_values, and pruning. *)
LEMMA DeleteStore ==
    ASSUME TypeInv, StoreInv, NEW t \in Txs,
           DeletePaths(t) \/ LatchContent(t) \/ PruneSelect(t) \/ PruneErase(t)
    PROVE  StoreInv'
<1>0. CallInv(t)
  BY DEF StoreInv
<1>1. CASE DeletePaths(t)
  <2>1. CASE Ended(t)
    BY <1>1, <2>1, DeletePathsEffect, EndStep
  <2>2. CASE ~Ended(t)
    <3>1. /\ Frame(t) /\ SameTables /\ nextId' = nextId /\ pc[t] = "read" /\ req[t].op = "delete"
          /\ req'[t] = req[t] /\ pc'[t] = "prune" /\ SameInserts(t) /\ SameFindings(t)
          /\ latched'[t] = latched[t] /\ write'[t].gone = write[t].gone
          /\ RowsFree(t, write'[t].del)
          /\ local'[t].prune = ContentIds(write'[t].del)
          /\ write'[t].del = delete_paths(View(t), fold(req[t].path), req[t].recurse)
      BY <1>1, <2>2, DeletePathsEffect DEF SameLocks
    <3>2. /\ View(t) = pathRows /\ write[t].gone = {} /\ write[t].ins = {} /\ write[t].upd = {}
      BY <3>1, EarlyView
    <3>3. DeletesNamed(t)'
      <4>1. \A r \in write'[t].del :
               r \in pathRows /\ sql_at_or_below(fold(r.path), fold(req[t].path))
        BY <3>1, <3>2 DEF delete_paths, sql_at_or_below
      <4>2. QED
        BY <3>1, <4>1 DEF DeletesNamed, SameTables
    <3>4. FindingsStand(t)'
      BY <1>0, <3>1 DEF CallInv, FindingsStand, SameFindings
    <3>5. CallInv(t)'
      BY <3>1, <3>2, <3>3, <3>4 DEF CallInv, WritesInOrder, WritesLinked, PruneExact, SameInserts
    <3>6. \A u \in Txs \ {t} : Disjoint(t, u)'
      <4>1. \A u \in Txs \ {t} : write'[t].del \cap write[u].del = {}
        BY <3>1 DEF RowsFree
      <4>2. \A u \in Txs \ {t} : latched'[t] \cap latched[u] = {}
        BY <3>1 DEF StoreInv, Disjoint
      <4>3. QED
        BY <3>1, <4>1, <4>2, DisjointDeletes DEF SameInserts
    <3>7. QED
      BY <3>1, <3>5, <3>6, StoreStep
  <2>3. QED
    BY <2>1, <2>2
<1>2. CASE LatchContent(t)
  <2>1. /\ Frame(t) /\ SameTables /\ nextId' = nextId /\ pc[t] = "prune" /\ pc'[t] = "prune"
        /\ req'[t] = req[t] /\ local'[t] = local[t] /\ write'[t] = write[t]
    BY <1>2, LatchContentEffect DEF SameLocks
  <2>2. PICK id : latched'[t] = latched[t] \cup {id} /\ \A u \in Txs \ {t} : id \notin latched[u]
    BY <1>2, LatchContentEffect
  <2>3. write[t].ins = {} /\ write[t].upd = {}
    BY <1>0, <2>1 DEF CallInv, WritesInOrder
  <2>4. CallInv(t)'
    BY <1>0, <2>1, <2>3 DEF CallInv, WritesInOrder, DeletesNamed, FindingsStand, WritesLinked,
       PruneExact, SameTables
  <2>5. \A u \in Txs \ {t} : Disjoint(t, u)'
    <3>1. \A u \in Txs \ {t} : /\ write[t].del \cap write[u].del = {}
                               /\ latched[t] \cap latched[u] = {}
      BY DEF StoreInv, Disjoint
    <3>2. \A u \in Txs \ {t} : latched'[t] \cap latched[u] = {}
      BY <2>2, <3>1
    <3>3. QED
      BY <2>1, <3>1, <3>2, DisjointDeletes
  <2>6. QED
    BY <2>1, <2>4, <2>5, StoreStep
<1>3. CASE PruneSelect(t)
  <2>1. /\ Frame(t) /\ SameTables /\ nextId' = nextId /\ pc[t] = "prune" /\ pc'[t] = "erase"
        /\ req'[t] = req[t] /\ SameFindings(t) /\ write'[t] = write[t] /\ latched'[t] = latched[t]
        /\ local[t].prune \subseteq latched[t]
        /\ local'[t].prune = {id \in local[t].prune : PathsOf(View(t), id) = {}}
    BY <1>3, PruneSelectEffect DEF SameLocks
  <2>2. /\ write[t].ins = {} /\ write[t].upd = {} /\ write[t].gone = {}
        /\ local[t].prune = ContentIds(write[t].del)
        /\ req[t].op \in {"delete", "replace"}
    BY <1>0, <2>1, TypedCall DEF CallInv, WritesInOrder, PruneExact, Typed, CallOK
  <2>3. View(t)' = View(t)
    BY <2>1 DEF View, SameTables
  <2>4. PruneExact(t)'
    BY <2>1, <2>2, <2>3 DEF PruneExact
  <2>5. CallInv(t)'
    BY <1>0, <2>1, <2>2, <2>4 DEF CallInv, WritesInOrder, DeletesNamed, FindingsStand,
       WritesLinked, SameTables, SameFindings
  <2>6. \A u \in Txs \ {t} : Disjoint(t, u)'
    BY <2>1, StillDisjoint
  <2>7. QED
    BY <2>1, <2>5, <2>6, StoreStep
<1>4. CASE PruneErase(t)
  <2>1. /\ Frame(t) /\ SameTables /\ nextId' = nextId /\ pc[t] = "erase"
        /\ pc'[t] \in {"resolve", "commit"}
        /\ req'[t] = req[t] /\ SameInserts(t) /\ local'[t] = local[t] /\ latched'[t] = latched[t]
        /\ write'[t].gone = local[t].prune
        /\ write'[t].del = write[t].del \cup {r \in View(t) : r.content \in local[t].prune}
    BY <1>4, PruneEraseEffect DEF SameLocks
  <2>2. \A id \in local[t].prune : PathsOf(View(t), id) = {}
    BY <1>0, <2>1 DEF CallInv, PruneExact
  <2>3. write'[t].del = write[t].del
    BY <2>1, <2>2 DEF PathsOf
  <2>4. /\ write[t].ins = {} /\ write[t].upd = {} /\ req[t].op \in {"delete", "replace"}
    BY <1>0, <2>1, TypedCall DEF CallInv, WritesInOrder, Typed, CallOK
  <2>5. View(t)' = View(t)
    BY <2>1, <2>3 DEF View, SameTables, SameInserts
  <2>6. PruneExact(t)'
    BY <1>0, <2>1, <2>3, <2>5 DEF CallInv, PruneExact
  <2>7. CallInv(t)'
    BY <1>0, <2>1, <2>3, <2>4, <2>6 DEF CallInv, WritesInOrder, DeletesNamed, FindingsStand,
       WritesLinked, SameTables, SameInserts
  <2>8. \A u \in Txs \ {t} : Disjoint(t, u)'
    BY <2>1, <2>3, StillDisjoint DEF SameInserts
  <2>9. QED
    BY <2>1, <2>7, <2>8, StoreStep
<1>5. QED
  BY <1>1, <1>2, <1>3, <1>4

(* add_value_path *)
LEMMA AddStore ==
    ASSUME TypeInv, StoreInv, NEW t \in Txs, AddRead(t) \/ AddInsert(t)
    PROVE  StoreInv'
<1>0. CallInv(t)
  BY DEF StoreInv
<1>1. CASE AddRead(t)
  <2>1. CASE Ended(t)
    BY <1>1, <2>1, AddReadEffect, EndStep
  <2>2. CASE ~Ended(t)
    <3>1. /\ Frame(t) /\ SameTables /\ nextId' = nextId /\ pc[t] = "read" /\ req[t].op = "add"
          /\ req'[t] = req[t] /\ pc'[t] = "alias" /\ write'[t] = write[t] /\ SameFindings(t)
          /\ local'[t].prune = local[t].prune /\ latched'[t] = latched[t]
      BY <1>1, <2>2, AddReadEffect DEF SameLocks
    <3>2. Anchored(t, local'[t].existing.content)
      <4>1. View(t) = pathRows /\ write[t].del = {}
        BY <3>1, EarlyView
      <4>2. QED
        BY <1>1, <2>2, <3>1, <4>1, AddReadEffect DEF At, Anchored, sql_at_or_below
    <3>3. \A id : Anchored(t, id)' <=> Anchored(t, id)
      BY <3>1, AnchorsKept DEF SameTables
    <3>4. /\ write[t].del = {} /\ write[t].gone = {} /\ local[t].prune = {}
          /\ write[t].ins = {} /\ write[t].upd = {}
      BY <3>1, EarlyView
    <3>5. FindingsStand(t)'
      BY <1>0, <3>1, <3>2, <3>3 DEF CallInv, FindingsStand, SameFindings
    <3>6. CallInv(t)'
      BY <3>1, <3>4, <3>5 DEF CallInv, WritesInOrder, DeletesNamed, WritesLinked, PruneExact
    <3>7. \A u \in Txs \ {t} : Disjoint(t, u)'
      BY <3>1, StillDisjoint
    <3>8. QED
      BY <3>1, <3>6, <3>7, StoreStep
  <2>3. QED
    BY <2>1, <2>2
<1>2. CASE AddInsert(t)
  <2>1. CASE Ended(t)
    BY <1>2, <2>1, AddInsertEffect, EndStep
  <2>2. CASE ~Ended(t)
    <3>1. /\ Frame(t) /\ SameTables /\ nextId' = nextId /\ pc[t] = "alias" /\ pc'[t] = "commit"
          /\ req'[t] = req[t] /\ SameDeletes(t) /\ local'[t] = local[t] /\ latched'[t] = latched[t]
          /\ write'[t].upd = write[t].upd
          /\ write'[t].ins = {[path |-> req[t].new, content |-> local[t].existing.content]}
      BY <1>2, <2>2, AddInsertEffect DEF SameLocks
    <3>2. /\ write'[t].del = {} /\ write'[t].gone = {} /\ local'[t].prune = {}
          /\ write'[t].upd = {} /\ req[t].op = "add"
      BY <3>1, EarlyView, TypedCall DEF SameDeletes, Typed, CallOK
    <3>3. \A r \in write'[t].ins : r.content = local[t].existing.content
      BY <3>1
    <3>4. \A id : Anchored(t, id)' <=> Anchored(t, id)
      BY <3>1, AnchorsKept DEF SameTables, SameDeletes
    <3>5. Anchored(t, local[t].existing.content)
      BY <1>0, <3>1 DEF CallInv, FindingsStand
    <3>6. \A r \in write'[t].ins : Anchored(t, r.content)'
      BY <3>3, <3>4, <3>5
    <3>7. WritesLinked(t)'
      BY <3>1, <3>2, <3>6 DEF WritesLinked
    <3>8. FindingsStand(t)'
      BY <1>0, <3>1 DEF CallInv, FindingsStand
    <3>9. CallInv(t)'
      BY <3>1, <3>2, <3>7, <3>8 DEF CallInv, WritesInOrder, DeletesNamed, PruneExact, ContentIds
    <3>10. \A u \in Txs \ {t} : Disjoint(t, u)'
      BY <3>1, <3>2 DEF StoreInv, Disjoint, Frame, SameDeletes
    <3>11. QED
      BY <3>1, <3>9, <3>10, StoreStep
  <2>3. QED
    BY <2>1, <2>2
<1>3. QED
  BY <1>1, <1>2

(* What the plan of a replacement names lies at or below its root. *)
LEMMA PlanBelowRoot ==
    ASSUME TypeInv, NEW t \in Txs, pc[t] # "idle", req[t].op = "replace", NEW secrets,
           NEW e \in PlainEntries(resolve_preserve_markers(req[t].entries, secrets))
    PROVE  sql_at_or_below(fold(e.path), fold(req[t].path))
<1>1. /\ req[t].entries \subseteq [path : Bytes, value : Texts \cup {Preserve}]
      /\ normalize(req[t].path, req[t].entries) /\ req[t].path \in Bytes
  BY RequestTyped
<1>2. PICK d \in req[t].entries : d.path = e.path
  BY <1>1, PlanTyped
<1>3. d.path \in Bytes /\ is_at_or_below(d.path, req[t].path)
  BY <1>1 DEF normalize
<1>4. QED
  BY <1>1, <1>2, <1>3, BytesAreNaturals, BelowInSql

(* replace_sub_tree *)
LEMMA ReplaceStore ==
    ASSUME TypeInv, StoreInv, NEW t \in Txs,
           ReplaceRead(t) \/ ReplaceClear(t) \/ ReplaceResolve(t)
    PROVE  StoreInv'
<1>0. CallInv(t)
  BY DEF StoreInv
<1>1. CASE ReplaceRead(t)
  <2>1. CASE Ended(t)
    BY <1>1, <2>1, ReplaceReadEffect, EndStep
  <2>2. CASE ~Ended(t)
    <3>1. /\ Frame(t) /\ SameTables /\ nextId' = nextId /\ pc[t] = "read" /\ req[t].op = "replace"
          /\ req'[t] = req[t] /\ pc'[t] = "clear" /\ write'[t] = write[t]
          /\ local'[t].prune = local[t].prune /\ local'[t].fresh = local[t].fresh
          /\ latched'[t] = latched[t]
      BY <1>1, <2>2, ReplaceReadEffect DEF SameLocks
    <3>2. PICK secrets : local'[t].plan =
                            PlainEntries(resolve_preserve_markers(req[t].entries, secrets))
      BY <1>1, <2>2, ReplaceReadEffect
    <3>3. \A e \in local'[t].plan : sql_at_or_below(fold(e.path), fold(req[t].path))
      BY <3>1, <3>2, PlanBelowRoot
    <3>4. local[t].fresh = {}
      BY <1>0, <3>1 DEF CallInv, WritesInOrder, FindingsStand
    <3>5. /\ write[t].del = {} /\ write[t].gone = {} /\ local[t].prune = {}
          /\ write[t].ins = {} /\ write[t].upd = {}
      BY <3>1, EarlyView
    <3>6. FindingsStand(t)'
      BY <3>1, <3>3, <3>4 DEF FindingsStand
    <3>7. CallInv(t)'
      BY <3>1, <3>5, <3>6 DEF CallInv, WritesInOrder, DeletesNamed, WritesLinked, PruneExact
    <3>8. \A u \in Txs \ {t} : Disjoint(t, u)'
      BY <3>1, StillDisjoint
    <3>9. QED
      BY <3>1, <3>7, <3>8, StoreStep
  <2>3. QED
    BY <2>1, <2>2
<1>2. CASE ReplaceClear(t)
  <2>1. /\ Frame(t) /\ SameTables /\ nextId' = nextId /\ pc[t] = "clear"
        /\ pc'[t] = IF write'[t].del = {} THEN "resolve" ELSE "prune"
        /\ req'[t] = req[t] /\ SameInserts(t) /\ SameFindings(t)
        /\ latched'[t] = latched[t] /\ write'[t].gone = write[t].gone
        /\ RowsFree(t, write'[t].del)
        /\ local'[t].prune = ContentIds(write'[t].del)
    BY <1>2, ReplaceClearEffect DEF SameLocks
  <2>2. /\ View(t) = pathRows /\ write[t].gone = {} /\ write[t].ins = {} /\ write[t].upd = {}
        /\ req[t].op = "replace"
    BY <2>1, EarlyView, TypedCall DEF Typed, CallOK
  <2>3. DeletesNamed(t)'
    <3>1. \A r \in write'[t].del :
             r \in pathRows /\ sql_at_or_below(fold(r.path), fold(req[t].path))
      BY <1>2, <2>2, ReplaceClearEffect DEF delete_plain_paths_except
    <3>2. QED
      BY <2>1, <3>1 DEF DeletesNamed, SameTables
  <2>4. FindingsStand(t)'
    BY <1>0, <2>1 DEF CallInv, FindingsStand, SameFindings
  <2>5. PruneExact(t)'
    <3>1. CASE write'[t].del = {}
      <4>1. ContentIds(write'[t].del) = {}
        BY <3>1 DEF ContentIds
      <4>2. QED
        BY <2>1, <2>2, <3>1, <4>1 DEF PruneExact
    <3>2. CASE write'[t].del # {}
      BY <2>1, <3>2 DEF PruneExact
    <3>3. QED
      BY <3>1, <3>2
  <2>6. CallInv(t)'
    BY <2>1, <2>2, <2>3, <2>4, <2>5 DEF CallInv, WritesInOrder, WritesLinked, SameInserts
  <2>7. \A u \in Txs \ {t} : Disjoint(t, u)'
    <3>1. \A u \in Txs \ {t} : write'[t].del \cap write[u].del = {}
      BY <2>1 DEF RowsFree
    <3>2. \A u \in Txs \ {t} : latched'[t] \cap latched[u] = {}
      BY <2>1 DEF StoreInv, Disjoint
    <3>3. QED
      BY <2>1, <3>1, <3>2, DisjointDeletes DEF SameInserts
  <2>8. QED
    BY <2>1, <2>6, <2>7, StoreStep
<1>3. CASE ReplaceResolve(t)
  <2>1. CASE Ended(t)
    BY <1>3, <2>1, ReplaceResolveEffect, EndStep
  <2>2. CASE ~Ended(t)
    <3>1. /\ Frame(t) /\ SameTables /\ nextId' = nextId /\ pc[t] = "resolve"
          /\ req'[t] = req[t] /\ pc'[t] = "write" /\ write'[t] = write[t] /\ latched'[t] = latched[t]
          /\ local'[t].plan = local[t].plan /\ local'[t].prune = local[t].prune
          /\ local'[t].shared = SharedWrites(View(t), local[t].plan)
          /\ local'[t].fresh \subseteq local[t].plan
      BY <1>3, <2>2, ReplaceResolveEffect DEF SameLocks
    <3>2. /\ write[t].ins = {} /\ write[t].upd = {} /\ req[t].op = "replace"
      BY <1>0, <3>1, TypedCall DEF CallInv, WritesInOrder, Typed, CallOK
    <3>3. \A v \in local'[t].shared : Anchored(t, v.id)
      <4>1. ASSUME NEW v \in SharedWrites(View(t), local[t].plan) PROVE Anchored(t, v.id)
        <5>1. PICK r \in View(t), e \in local[t].plan : v.id = r.content /\ fold(r.path) = fold(e.path)
          BY DEF SharedWrites
        <5>2. r \in pathRows \ write[t].del
          BY <3>2 DEF View
        <5>3. sql_at_or_below(fold(r.path), fold(req[t].path))
          BY <1>0, <5>1 DEF CallInv, FindingsStand
        <5>4. QED
          BY <5>1, <5>2, <5>3 DEF Anchored
      <4>2. QED
        BY <3>1, <4>1
    <3>4. \A id : Anchored(t, id)' <=> Anchored(t, id)
      BY <3>1, AnchorsKept DEF SameTables
    <3>5. FindingsStand(t)'
      BY <1>0, <3>1, <3>3, <3>4 DEF CallInv, FindingsStand
    <3>6. View(t)' = View(t)
      BY <3>1 DEF View, SameTables
    <3>7. PruneExact(t)'
      BY <1>0, <3>1, <3>6 DEF CallInv, PruneExact
    <3>8. CallInv(t)'
      BY <1>0, <3>1, <3>2, <3>5, <3>7 DEF CallInv, WritesInOrder, DeletesNamed, WritesLinked, SameTables
    <3>9. \A u \in Txs \ {t} : Disjoint(t, u)'
      BY <3>1, StillDisjoint
    <3>10. QED
      BY <3>1, <3>8, <3>9, StoreStep
  <2>3. QED
    BY <2>1, <2>2
<1>4. QED
  BY <1>1, <1>2, <1>3

(* The writes of replace_sub_tree. *)
LEMMA ReplaceWriteStore ==
    ASSUME TypeInv, StoreInv, NEW t \in Txs,
           ReplaceUpdate(t) \/ ReplaceInsert(t) \/ ReplaceRecord(t)
    PROVE  StoreInv'
<1>0. CallInv(t)
  BY DEF StoreInv
<1>1. pc[t] = "write" /\ req[t].op = "replace"
  BY ReplaceUpdateEffect, ReplaceInsertEffect, ReplaceRecordEffect, TypedCall DEF Typed, CallOK
<1>2. CASE ReplaceUpdate(t)
  <2>1. /\ Frame(t) /\ SameTables /\ nextId' = nextId /\ pc'[t] = "write"
        /\ req'[t] = req[t] /\ SameDeletes(t) /\ latched'[t] = latched[t]
        /\ write'[t].ins = write[t].ins
        /\ local'[t].plan = local[t].plan /\ local'[t].prune = local[t].prune
        /\ local'[t].fresh = local[t].fresh /\ local'[t].shared \subseteq local[t].shared
    BY <1>2, ReplaceUpdateEffect DEF SameLocks
  <2>2. PICK w \in local[t].shared :
           /\ \A c \in write'[t].upd : c \in write[t].upd \/ c.id = w.id
           /\ write[t].upd \subseteq write'[t].upd
    BY <1>2, ReplaceUpdateEffect
  <2>3. \A id : Anchored(t, id)' <=> Anchored(t, id)
    BY <2>1, AnchorsKept DEF SameTables, SameDeletes
  <2>4. FindingsStand(t)'
    BY <1>0, <1>1, <2>1, <2>3 DEF CallInv, FindingsStand
  <2>5. WritesLinked(t)'
    <3>1. Anchored(t, w.id)
      BY <1>0, <1>1 DEF CallInv, FindingsStand
    <3>2. \A c \in write'[t].upd : Anchored(t, c.id) \/ \E r \in write[t].ins : r.content = c.id
      BY <1>0, <2>2, <3>1 DEF CallInv, WritesLinked
    <3>3. \A r \in write[t].ins : /\ \E c \in write'[t].upd : c.id = r.content
                                  /\ r.content < nextId
                                  /\ \A q \in pathRows : q.content # r.content
      BY <1>0, <1>1, <2>2 DEF CallInv, WritesLinked
    <3>4. QED
      BY <1>1, <2>1, <2>3, <3>2, <3>3 DEF WritesLinked, SameTables
  <2>6. View(t)' = View(t)
    BY <2>1 DEF View, SameTables, SameDeletes
  <2>7. PruneExact(t)'
    BY <1>0, <1>1, <2>1, <2>6 DEF CallInv, PruneExact, SameDeletes
  <2>8. WritesInOrder(t)' /\ DeletesNamed(t)'
    BY <1>0, <1>1, <2>1 DEF CallInv, WritesInOrder, DeletesNamed, SameTables, SameDeletes
  <2>9. \A u \in Txs \ {t} : Disjoint(t, u)'
    BY <2>1, StillDisjoint DEF SameDeletes
  <2>10. QED
    BY <2>1, <2>4, <2>5, <2>7, <2>8, <2>9, StoreStep DEF CallInv
<1>3. CASE ReplaceInsert(t)
  <2>1. /\ Frame(t) /\ SameTables /\ nextId' = nextId + 1 /\ pc'[t] = "write"
        /\ req'[t] = req[t] /\ SameDeletes(t) /\ latched'[t] = latched[t]
        /\ local'[t].plan = local[t].plan /\ local'[t].prune = local[t].prune
        /\ local'[t].shared = local[t].shared /\ local'[t].fresh \subseteq local[t].fresh
    BY <1>3, ReplaceInsertEffect DEF SameLocks
  <2>2. PICK e \in local[t].fresh :
           /\ write'[t].ins = write[t].ins \cup {[path |-> e.path, content |-> nextId]}
           /\ write'[t].upd = write[t].upd \cup
                 {[id |-> nextId, class |-> Plain,
                   stored |-> stored_representation(nextId, Plain, e.value)]}
    BY <1>3, ReplaceInsertEffect
  <2>3. /\ \A r \in write'[t].ins : r \in write[t].ins \/ r.content = nextId
        /\ \A c \in write'[t].upd : c \in write[t].upd \/ c.id = nextId
        /\ \E r \in write'[t].ins : r.content = nextId
        /\ \E c \in write'[t].upd : c.id = nextId
        /\ write[t].ins \subseteq write'[t].ins /\ write[t].upd \subseteq write'[t].upd
    <3> DEFINE row == [path |-> e.path, content |-> nextId]
               new == [id |-> nextId, class |-> Plain,
                       stored |-> stored_representation(nextId, Plain, e.value)]
    <3>1. row.content = nextId /\ new.id = nextId
      OBVIOUS
    <3>2. write'[t].ins = write[t].ins \cup {row} /\ write'[t].upd = write[t].upd \cup {new}
      BY <2>2
    <3> HIDE DEF row, new
    <3>3. QED
      BY <3>1, <3>2
  <2> HIDE <2>2
  <2>4. nextId \in Nat /\ nextId < nextId' /\ \A q \in pathRows : q.content # nextId
    <3>1. nextId \in Nat /\ \A q \in pathRows : q.content \in Nat /\ q.content < nextId
      BY DEF TypeInv, TypeOK, IsPathRow, Ids, StoreInv, TablesLinked
    <3>2. QED
      BY <2>1, <3>1
  <2>5. \A id : Anchored(t, id)' <=> Anchored(t, id)
    BY <2>1, AnchorsKept DEF SameTables, SameDeletes
  <2>6. FindingsStand(t)'
    BY <1>0, <1>1, <2>1, <2>5 DEF CallInv, FindingsStand
  <2>7. WritesLinked(t)'
    <3>1. \A c \in write'[t].upd : Anchored(t, c.id) \/ \E r \in write'[t].ins : r.content = c.id
      BY <1>0, <2>3 DEF CallInv, WritesLinked
    <3>2. \A r \in write[t].ins : r.content < nextId'
      <4>1. nextId' = nextId + 1
        BY <2>1
      <4>2. ASSUME NEW r \in write[t].ins PROVE r.content < nextId'
        <5>1. nextId \in Nat /\ r.content \in Nat /\ r.content < nextId
          BY <1>1, DrawnIdentities
        <5>2. r.content < nextId + 1
          BY <5>1
        <5>3. QED
          BY <4>1, <5>2
      <4>3. QED
        BY <4>2
    <3>3. \A r \in write'[t].ins : /\ \E c \in write'[t].upd : c.id = r.content
                                   /\ r.content < nextId'
                                   /\ \A q \in pathRows : q.content # r.content
      BY <1>0, <1>1, <2>3, <2>4, <3>2 DEF CallInv, WritesLinked
    <3>4. QED
      BY <1>1, <2>1, <2>5, <3>1, <3>3 DEF WritesLinked, SameTables
  <2>8. PruneExact(t)'
    <3>1. \A id \in ContentIds(write[t].del) : id # nextId
      BY <1>0, <2>4 DEF CallInv, DeletesNamed, ContentIds
    <3>2. \A r \in View(t)' : r \in View(t) \/ r.content = nextId
      BY <2>1, <2>3 DEF View, SameTables, SameDeletes
    <3>3. View(t) \subseteq View(t)'
      BY <2>1, <2>3 DEF View, SameTables, SameDeletes
    <3>4. \A id \in ContentIds(write[t].del) \ local[t].prune : PathsOf(View(t)', id) # {}
      BY <1>0, <1>1, <3>3 DEF CallInv, PruneExact, PathsOf
    <3>5. \A id \in local[t].prune : PathsOf(View(t)', id) = {}
      <4>1. ASSUME NEW id \in local[t].prune, NEW r \in View(t)', r.content = id PROVE FALSE
        <5>1. id \in ContentIds(write[t].del) /\ PathsOf(View(t), id) = {}
          BY <1>0, <1>1 DEF CallInv, PruneExact
        <5>2. r \in View(t)
          BY <3>1, <3>2, <4>1, <5>1
        <5>3. QED
          BY <4>1, <5>1, <5>2 DEF PathsOf
      <4>2. QED
        BY <4>1 DEF PathsOf
    <3>6. /\ local[t].prune \subseteq ContentIds(write[t].del)
          /\ ContentIds(write[t].del) \subseteq latched[t]
          /\ write[t].gone = local[t].prune
      BY <1>0, <1>1 DEF CallInv, PruneExact
    <3>7. QED
      BY <2>1, <3>4, <3>5, <3>6 DEF PruneExact, SameDeletes
  <2>9. WritesInOrder(t)' /\ DeletesNamed(t)'
    BY <1>0, <1>1, <2>1 DEF CallInv, WritesInOrder, DeletesNamed, SameTables, SameDeletes
  <2>10. ASSUME NEW u \in Txs \ {t} PROVE Disjoint(t, u)'
    <3>1. /\ write'[u] = write[u] /\ latched'[u] = latched[u] /\ req'[u] = req[u]
          /\ Disjoint(t, u) /\ CallInv(u)
      BY <2>1 DEF Frame, StoreInv
    <3>2. req[u].op # "add" => \A q \in write[u].ins : q.content # nextId
      BY DrawnIdentities
    <3>3. QED
      BY <1>1, <2>1, <2>3, <3>1, <3>2 DEF Disjoint, SameDeletes
  <2>11. QED
    BY <2>1, <2>6, <2>7, <2>8, <2>9, <2>10, StoreStep DEF CallInv
<1>4. CASE ReplaceRecord(t)
  <2>1. /\ Frame(t) /\ SameTables /\ nextId' = nextId /\ pc'[t] = "commit"
        /\ req'[t] = req[t] /\ SameDeletes(t) /\ SameInserts(t)
        /\ local'[t] = local[t] /\ latched'[t] = latched[t]
    BY <1>4, ReplaceRecordEffect DEF SameLocks
  <2>2. \A id : Anchored(t, id)' <=> Anchored(t, id)
    BY <2>1, AnchorsKept DEF SameTables, SameDeletes
  <2>3. View(t)' = View(t)
    BY <2>1 DEF View, SameTables, SameDeletes, SameInserts
  <2>4. FindingsStand(t)'
    BY <1>0, <2>1, <2>2 DEF CallInv, FindingsStand
  <2>5. WritesLinked(t)'
    BY <1>0, <2>1, <2>2 DEF CallInv, WritesLinked, SameTables, SameInserts
  <2>6. PruneExact(t)'
    BY <1>0, <1>1, <2>1, <2>3 DEF CallInv, PruneExact, SameDeletes
  <2>7. WritesInOrder(t)' /\ DeletesNamed(t)'
    BY <1>0, <1>1, <2>1 DEF CallInv, WritesInOrder, DeletesNamed, SameTables, SameDeletes
  <2>8. \A u \in Txs \ {t} : Disjoint(t, u)'
    BY <2>1, StillDisjoint DEF SameDeletes, SameInserts
  <2>9. QED
    BY <2>1, <2>4, <2>5, <2>6, <2>7, <2>8, StoreStep DEF CallInv
<1>5. QED
  BY <1>2, <1>3, <1>4

(* No committed row lies in the subtrees of two calls that hold their      *)
(* path locks.                                                             *)
LEMMA OneCallPerRow ==
    ASSUME TypeInv, LocksInv, NEW t \in Txs, NEW u \in Txs, t # u, Locked(t), Locked(u),
           NEW r \in pathRows,
           sql_at_or_below(fold(r.path), fold(req[t].path)),
           sql_at_or_below(fold(r.path), fold(req[u].path))
    PROVE  FALSE
<1>1. fold(req[t].path) \in Targets(t) /\ fold(req[u].path) \in Targets(u)
  BY DEF Targets
<1>2. fold(req[t].path) \in Seq(Nat) /\ fold(req[u].path) \in Seq(Nat)
  BY <1>1, TargetsAreKeys DEF Locked
<1>3. fold(r.path) \in Seq(Nat)
  <2>1. r.path \in Bytes
    BY DEF TypeInv, TypeOK, IsPathRow
  <2>2. QED
    BY <2>1, BytesAreNaturals, FoldSeq
<1>4. \/ sql_at_or_below(fold(req[t].path), fold(req[u].path))
      \/ sql_at_or_below(fold(req[u].path), fold(req[t].path))
  BY <1>2, <1>3, RootsAreComparable
<1>5. QED
  BY <1>1, <1>4, Exclusion

(* The tables a commit leaves are linked: every path row it keeps or adds  *)
(* has its content, and every content has a path row.                      *)
LEMMA CommitLinks ==
    ASSUME TypeInv, StoreInv, NEW t \in Txs, Commit(t)
    PROVE  TablesLinked'
<1>1. /\ pc[t] = "commit" /\ pathRows' = View(t) /\ contents' = ContentView(t)
      /\ nextId' = nextId
  BY DEF Commit
<1>2. CallInv(t) /\ TablesLinked
  BY DEF StoreInv
<1>3. /\ write[t].gone = local[t].prune
      /\ \A id \in ContentIds(write[t].del) \ local[t].prune : PathsOf(View(t), id) # {}
      /\ \A id \in local[t].prune : PathsOf(View(t), id) = {}
  BY <1>1, <1>2 DEF CallInv, PruneExact
<1>4. ASSUME NEW r \in pathRows \ write[t].del
      PROVE  r.content < nextId /\ \E c \in ContentView(t) : c.id = r.content
  <2>1. PICK c \in contents : c.id = r.content
    BY <1>2 DEF TablesLinked
  <2>2. r \in PathsOf(View(t), c.id)
    BY <2>1 DEF PathsOf, View
  <2>3. c.id \notin write[t].gone
    BY <1>3, <2>2
  <2>4. \E d \in ContentView(t) : d.id = c.id
    BY <2>3 DEF ContentView
  <2>5. QED
    BY <1>2, <2>1, <2>4 DEF TablesLinked
<1>5. ASSUME NEW r \in write[t].ins
      PROVE  r.content < nextId /\ \E c \in ContentView(t) : c.id = r.content
  <2>1. CASE req[t].op = "add"
    <3>1. Anchored(t, r.content)
      BY <1>2, <2>1 DEF CallInv, WritesLinked
    <3>2. PICK q \in pathRows \ write[t].del : q.content = r.content
      BY <3>1 DEF Anchored
    <3>3. QED
      BY <1>4, <3>2
  <2>2. CASE req[t].op # "add"
    BY <1>2, <2>2 DEF CallInv, WritesLinked, ContentView
  <2>3. QED
    BY <2>1, <2>2
<1>6. ASSUME NEW c \in ContentView(t)
      PROVE  \E r \in View(t) : r.content = c.id
  <2>1. CASE c \in write[t].upd
    BY <1>2, <2>1 DEF CallInv, WritesLinked, Anchored, View
  <2>2. CASE c \notin write[t].upd
    <3>1. c \in contents /\ c.id \notin local[t].prune
      BY <1>3, <2>2 DEF ContentView
    <3>2. PICK r \in pathRows : r.content = c.id
      BY <1>2, <3>1 DEF TablesLinked
    <3>3. CASE r \in write[t].del
      <4>1. c.id \in ContentIds(write[t].del)
        BY <3>2, <3>3 DEF ContentIds
      <4>2. PathsOf(View(t), c.id) # {}
        BY <1>3, <3>1, <4>1
      <4>3. QED
        BY <4>2 DEF PathsOf
    <3>4. CASE r \notin write[t].del
      BY <3>2, <3>4 DEF View
    <3>5. QED
      BY <3>3, <3>4
  <2>3. QED
    BY <2>1, <2>2
<1>7. \A r \in View(t) : r.content < nextId /\ \E c \in ContentView(t) : c.id = r.content
  BY <1>4, <1>5 DEF View
<1>8. QED
  BY <1>1, <1>6, <1>7 DEF TablesLinked

(* What another call relies on, a commit leaves as it is: the path locks   *)
(* keep its anchors, the content locks its count of remaining paths.       *)
LEMMA CommitSpares ==
    ASSUME TypeInv, LocksInv, StoreInv, NEW t \in Txs, Commit(t), NEW u \in Txs \ {t}
    PROVE  CallInv(u)'
<1>1. /\ pc[t] = "commit" /\ Locked(t) /\ pathRows' = View(t) /\ nextId' = nextId
      /\ pc'[u] = pc[u] /\ req'[u] = req[u] /\ latched'[u] = latched[u]
      /\ local'[u] = local[u] /\ write'[u] = write[u]
  BY EndTxEffect DEF Commit, Frame, Locked
<1>2. CallInv(t) /\ CallInv(u) /\ Disjoint(t, u)
  BY DEF StoreInv
<1>3. /\ \A r \in write[t].del :
            r \in pathRows /\ sql_at_or_below(fold(r.path), fold(req[t].path))
      /\ \A r \in write[u].del :
            r \in pathRows /\ sql_at_or_below(fold(r.path), fold(req[u].path))
  BY <1>2 DEF CallInv, DeletesNamed
<1>4. write[u].del # {} \/ write[u].ins # {} \/ write[u].upd # {} => Locked(u)
  BY <1>2 DEF CallInv, WritesInOrder, Locked
<1>5. ASSUME NEW id, Locked(u), Anchored(u, id)
      PROVE  Anchored(u, id)'
  <2>1. PICK r \in pathRows \ write[u].del :
           r.content = id /\ sql_at_or_below(fold(r.path), fold(req[u].path))
    BY <1>5 DEF Anchored
  <2>2. r \notin write[t].del
    BY <1>1, <1>3, <1>5, <2>1, OneCallPerRow
  <2>3. r \in View(t) \ write[u].del
    BY <2>1, <2>2 DEF View
  <2>4. QED
    BY <1>1, <2>1, <2>3 DEF Anchored
<1>6. WritesInOrder(u)'
  BY <1>1, <1>2 DEF CallInv, WritesInOrder
<1>7. DeletesNamed(u)'
  <2>1. \A r \in write[u].del : r \in View(t)
    BY <1>2, <1>3 DEF Disjoint, View
  <2>2. QED
    BY <1>1, <1>3, <2>1 DEF DeletesNamed
<1>8. FindingsStand(u)'
  <2>1. pc[u] \in {"overwrite", "alias", "write"} => Locked(u)
    BY DEF Locked
  <2>2. QED
    BY <1>1, <1>2, <1>5, <2>1 DEF CallInv, FindingsStand
<1>9. WritesLinked(u)'
  <2>1. \A c \in write[u].upd : Anchored(u, c.id)' \/ \E r \in write[u].ins : r.content = c.id
    BY <1>2, <1>4, <1>5 DEF CallInv, WritesLinked
  <2>2. ASSUME NEW r \in write[u].ins, req[u].op = "add" PROVE Anchored(u, r.content)'
    BY <1>2, <1>4, <1>5, <2>2 DEF CallInv, WritesLinked
  <2>3. ASSUME NEW r \in write[u].ins, req[u].op # "add", NEW q \in View(t)
        PROVE  q.content # r.content
    <3>1. \A p \in pathRows : p.content # r.content
      BY <1>2, <2>3 DEF CallInv, WritesLinked
    <3>2. CASE q \in pathRows
      BY <3>1, <3>2
    <3>3. CASE q \in write[t].ins /\ req[t].op = "add"
      <4>1. Anchored(t, q.content)
        BY <1>2, <3>3 DEF CallInv, WritesLinked
      <4>2. QED
        BY <3>1, <4>1 DEF Anchored
    <3>4. CASE q \in write[t].ins /\ req[t].op # "add"
      BY <1>2, <2>3, <3>4 DEF Disjoint
    <3>5. QED
      BY <3>2, <3>3, <3>4 DEF View
  <2>4. \A r \in write[u].ins : req[u].op # "add" =>
           (\E c \in write[u].upd : c.id = r.content) /\ r.content < nextId
    BY <1>2 DEF CallInv, WritesLinked
  <2>5. QED
    BY <1>1, <2>1, <2>2, <2>3, <2>4 DEF WritesLinked
<1>10. PruneExact(u)'
  <2>1. View(u)' = (View(t) \ write[u].del) \cup write[u].ins
    BY <1>1 DEF View
  <2>2. ASSUME pc[u] \in {"erase", "resolve", "write", "commit"},
               NEW id \in ContentIds(write[u].del) \ local[u].prune
        PROVE  PathsOf(View(u)', id) # {}
    <3>1. PathsOf(View(u), id) # {} /\ id \in latched[u]
      BY <1>2, <2>2 DEF CallInv, PruneExact
    <3>2. PICK r \in View(u) : r.content = id
      BY <3>1 DEF PathsOf
    <3>3. r \notin write[t].del
      <4>1. ContentIds(write[t].del) \subseteq latched[t]
        BY <1>1, <1>2 DEF CallInv, PruneExact
      <4>2. id \notin ContentIds(write[t].del)
        BY <1>2, <3>1, <4>1 DEF Disjoint
      <4>3. QED
        BY <3>2, <4>2 DEF ContentIds
    <3>4. r \in View(u)'
      BY <2>1, <3>3 DEF View
    <3>5. QED
      BY <3>2, <3>4 DEF PathsOf
  <2>3. ASSUME pc[u] \in {"erase", "resolve", "write", "commit"},
               NEW id \in local[u].prune, NEW q \in View(u)', q.content = id
        PROVE  FALSE
    <3>1. id \in ContentIds(write[u].del) /\ PathsOf(View(u), id) = {}
      BY <1>2, <2>3 DEF CallInv, PruneExact
    <3>2. q \notin View(u)
      BY <2>3, <3>1 DEF PathsOf
    <3>3. q \in write[t].ins
      BY <2>1, <3>2 DEF View
    <3>4. PICK d \in write[u].del : d.content = id
      BY <3>1 DEF ContentIds
    <3>5. d \in pathRows /\ Locked(u)
      BY <1>3, <1>4
    <3>6. CASE req[t].op # "add"
      <4>1. \A p \in pathRows : p.content # q.content
        BY <1>2, <3>3, <3>6 DEF CallInv, WritesLinked
      <4>2. QED
        BY <2>3, <3>4, <3>5, <4>1
    <3>7. CASE req[t].op = "add"
      <4>1. Anchored(t, id)
        BY <1>2, <2>3, <3>3, <3>7 DEF CallInv, WritesLinked
      <4>2. PICK p \in pathRows :
               p.content = id /\ sql_at_or_below(fold(p.path), fold(req[t].path))
        BY <4>1 DEF Anchored
      <4>3. p \notin write[u].del
        BY <1>1, <1>3, <3>5, <4>2, OneCallPerRow
      <4>4. p \in PathsOf(View(u), id)
        BY <4>2, <4>3 DEF PathsOf, View
      <4>5. QED
        BY <3>1, <4>4
    <3>8. QED
      BY <3>6, <3>7
  <2>4. \A id \in local[u].prune :
           pc[u] \in {"erase", "resolve", "write", "commit"} => PathsOf(View(u)', id) = {}
    BY <2>3 DEF PathsOf
  <2>5. /\ local[u].prune \subseteq ContentIds(write[u].del)
        /\ pc[u] = "prune" => local[u].prune = ContentIds(write[u].del)
        /\ pc[u] \in {"erase", "resolve", "write", "commit"} =>
              ContentIds(write[u].del) \subseteq latched[u]
        /\ pc[u] \in {"resolve", "write", "commit"} => write[u].gone = local[u].prune
    BY <1>2 DEF CallInv, PruneExact
  <2>6. QED
    BY <1>1, <2>2, <2>4, <2>5 DEF PruneExact
<1>11. QED
  BY <1>6, <1>7, <1>8, <1>9, <1>10 DEF CallInv

(* The end of a transaction, with its writes or without them. *)
LEMMA EndStore ==
    ASSUME TypeInv, LocksInv, StoreInv, NEW t \in Txs, Commit(t) \/ Fail(t)
    PROVE  StoreInv'
<1>1. CASE Commit(t)
  <2>1. Frame(t) /\ Ended(t)
    BY <1>1, EndTxEffect DEF Commit
  <2>2. \A u \in Txs : CallInv(u)'
    BY <1>1, <2>1, EndedCall, CommitSpares
  <2>3. \A u \in Txs \ {t} : Disjoint(t, u)'
    BY <2>1, EndedCall
  <2>4. \A u \in Txs \ {t} : Disjoint(u, t)'
    BY <2>3 DEF Disjoint
  <2>5. ASSUME NEW u \in Txs \ {t}, NEW v \in Txs \ {t}, u # v PROVE Disjoint(u, v)'
    <3>1. /\ write'[u] = write[u] /\ latched'[u] = latched[u] /\ req'[u] = req[u]
          /\ write'[v] = write[v] /\ latched'[v] = latched[v] /\ req'[v] = req[v]
      BY <2>1 DEF Frame
    <3>2. Disjoint(u, v)
      BY <2>5 DEF StoreInv
    <3>3. QED
      BY <3>1, <3>2 DEF Disjoint
  <2>6. QED
    BY <1>1, <2>2, <2>3, <2>4, <2>5, CommitLinks DEF StoreInv
<1>2. CASE Fail(t)
  <2>1. SameTables /\ nextId' = nextId /\ EndTx(t)
    BY <1>2 DEF Fail, Rollback, SameTables, committed
  <2>2. QED
    BY <2>1, EndTxEffect, EndStep
<1>3. QED
  BY <1>1, <1>2

(* Every step keeps what the store and the calls rely on. *)
LEMMA StoreKept ==
    ASSUME TypeInv, LocksInv, StoreInv, [Next]_vars
    PROVE  StoreInv'
<1>1. CASE Next
  <2>1. PICK t \in Txs : Begin(t) \/ Statement(t) \/ Fail(t)
    BY <1>1 DEF Next
  <2>2. QED
    BY <2>1, BeginStore, PutStore, DeleteStore, ReplaceStore, ReplaceWriteStore, AddStore, EndStore
    DEF Statement
<1>2. CASE UNCHANGED vars
  <2>1. TablesLinked' /\ \A t, u \in Txs : Disjoint(t, u)' <=> Disjoint(t, u)
    BY <1>2 DEF vars, StoreInv, TablesLinked, Disjoint
  <2>2. ASSUME NEW t \in Txs PROVE CallInv(t)'
    <3>1. /\ pc' = pc /\ req' = req /\ latched' = latched /\ local' = local /\ write' = write
          /\ pathRows' = pathRows /\ nextId' = nextId
      BY <1>2 DEF vars
    <3>2. CallInv(t)
      BY DEF StoreInv
    <3>3. View(t)' = View(t) /\ \A id : Anchored(t, id)' <=> Anchored(t, id)
      BY <3>1 DEF View, Anchored
    <3>4. WritesInOrder(t)' /\ DeletesNamed(t)'
      BY <3>1, <3>2 DEF CallInv, WritesInOrder, DeletesNamed
    <3>5. FindingsStand(t)' /\ WritesLinked(t)'
      BY <3>1, <3>2, <3>3 DEF CallInv, FindingsStand, WritesLinked
    <3>6. PruneExact(t)'
      BY <3>1, <3>2, <3>3 DEF CallInv, PruneExact
    <3>7. QED
      BY <3>4, <3>5, <3>6 DEF CallInv
  <2>3. QED
    BY <2>1, <2>2 DEF StoreInv
<1>3. QED
  BY <1>1, <1>2

(* A store the server starts with is linked, and no call has begun. *)
LEMMA StoreInit ==
    ASSUME Init
    PROVE  StoreInv
<1>1. PICK s \in InitialStores : pathRows = s.pathRows /\ contents = s.contents /\ nextId = s.nextId
  BY DEF Init
<1>2. TablesLinked
  BY <1>1, StoresAssumption DEF IsStore, TablesLinked
<1>3. ASSUME NEW t \in Txs
      PROVE  /\ pc[t] = "idle" /\ req[t].op = "none" /\ latched[t] = {}
             /\ write[t].del = {} /\ write[t].gone = {} /\ write[t].ins = {} /\ write[t].upd = {}
             /\ local[t].prune = {} /\ local[t].plan = {} /\ local[t].fresh = {}
  BY DEF Init, NoLocal, NoWrite
<1>4. \A t \in Txs : CallInv(t)
  BY <1>3 DEF CallInv, WritesInOrder, DeletesNamed, FindingsStand, WritesLinked, PruneExact
<1>5. \A t, u \in Txs : Disjoint(t, u)
  BY <1>3 DEF Disjoint
<1>6. QED
  BY <1>2, <1>4, <1>5 DEF StoreInv

(* The store's invariant holds in every state: the three facts the         *)
(* theorems below are drawn from.                                          *)
THEOREM StoreCorrect == Spec => [](TypeInv /\ LocksInv /\ StoreInv)
<1>1. Init => TypeInv /\ LocksInv /\ StoreInv
  BY TypedInit, LocksInit, StoreInit
<1>2. TypeInv /\ LocksInv /\ StoreInv /\ [Next]_vars => TypeInv' /\ LocksInv' /\ StoreInv'
  BY TypeKept, LocksKept, StoreKept
<1>3. QED
  BY <1>1, <1>2, PTL DEF Spec

(* prune_orphan_contents: however deletions, replacements and aliasings of *)
(* one value interleave, no content row outlives its last path row.        *)
THEOREM NoOrphans == Spec => []NoOrphanContents
<1>1. StoreInv => NoOrphanContents
  BY DEF StoreInv, TablesLinked, NoOrphanContents, PathsOf
<1>2. QED
  BY <1>1, StoreCorrect, PTL

(* The ON DELETE CASCADE of a pruned content never takes a path row that   *)
(* the mutation's caller did not name.                                     *)
THEOREM OnlyNamedDeleted == Spec => []OnlyNamedPathsAreDeleted
<1>1. StoreInv => OnlyNamedPathsAreDeleted
  BY DEF StoreInv, CallInv, DeletesNamed, OnlyNamedPathsAreDeleted
<1>2. QED
  BY <1>1, StoreCorrect, PTL
=============================================================================
