----------------------------- MODULE ValueStore -----------------------------
(***************************************************************************)
(* The configuration value store: ConfigurationService over PostgreSQL     *)
(* (crates/sovereign-config-server/src/values/service.rs, store.rs,        *)
(* subtree.rs).                                                            *)
(*                                                                         *)
(* A value is a content row, reachable through one or more path rows.      *)
(* Every mutation is a READ COMMITTED transaction: each of its statements  *)
(* sees what was committed when the statement began, overlaid with the     *)
(* transaction's own writes, and other mutations run between any two of    *)
(* them.  What keeps them apart are advisory locks on the paths, advisory  *)
(* locks on the contents being pruned, and PostgreSQL's row locks.  One    *)
(* action is one statement; a transaction may also fail at any statement.  *)
(***************************************************************************)
EXTENDS ConfigPath

CONSTANTS Txs,            \* the concurrent calls
          Requests,       \* the mutations a caller may ask for, already authorized
          Values,         \* the texts a caller may write
          MaskedSecret,   \* MASKED_SECRET_TEXT, itself a legal plain text
          InitialStores,  \* the stores the runs start from
          MaxId,          \* bound on the content identity sequence
          EventCap        \* BULK_EVENT_CAP

Plain == "plain"
Secret == "secret"
Hidden == "hidden"
Preserve == "preserve"
Ids == Nat \ {0}
Bytes == Seq(0..255)
Texts == Values \cup {MaskedSecret}
NoRow == [content |-> 0]

ASSUME StoreBounds == /\ MaxId \in Nat \ {0}
                      /\ EventCap \in Nat \ {0}

VARIABLES pathRows,   \* configuration_paths, as committed: [path, content]
          contents,   \* configuration_value_contents, as committed
          nextId,     \* its identity sequence, which never rolls back
          pc,         \* what each transaction does next
          req,        \* the call each transaction serves
          todo,       \* path locks it has yet to take
          held,       \* path locks it holds
          latched,    \* content locks it holds
          rowLocks,   \* content row locks it holds
          local,      \* what its statements returned so far
          write       \* what it wrote and has not committed

committed == <<pathRows, contents, nextId>>
vars == <<pathRows, contents, nextId, pc, req, todo, held, latched,
          rowLocks, local, write>>

-----------------------------------------------------------------------------
(* A secret's stored representation is an envelope bound to its row; a     *)
(* plain value is stored as it is.                                         *)

Sealed(id, value) == [sealed |-> id, text |-> value]

(* Mutant: a secret stored without its envelope. *)
stored_unsealed(id, class, value) == [sealed |-> 0, text |-> value]

stored_representation(id, class, value) ==
    IF class = Secret THEN Sealed(id, value) ELSE [sealed |-> 0, text |-> value]

(* What the audit trail may keep of a value: a plain text, never a secret. *)
Recorded(class, stored) == IF class = Plain THEN stored.text ELSE Hidden

NoLocal == [existing |-> NoRow, plan |-> {}, prune |-> {}, shared |-> {}, fresh |-> {}]
NoWrite == [del |-> {}, ins |-> {}, upd |-> {}, gone |-> {}, events |-> {}]

(* What a statement of t sees: the committed rows and its own writes. *)
View(t) == (pathRows \ write[t].del) \cup write[t].ins

ContentView(t) ==
    {c \in contents : c.id \notin write[t].gone /\ \A d \in write[t].upd : d.id # c.id}
      \cup write[t].upd

At(rows, f) == {r \in rows : fold(r.path) = f}

PathsOf(rows, id) == {r \in rows : r.content = id}

Content(id) == CHOOSE c \in contents : c.id = id

-----------------------------------------------------------------------------
(* Locks. *)

(* Mutant: locks named by the path as it was written. *)
lock_displayed_path(path, hop) ==
    {[hop |-> hop, key |-> k, exclusive |-> FALSE] : k \in ancestors(path)}
      \cup {[hop |-> hop, key |-> path, exclusive |-> TRUE]}

(* lock_mutation_path: shared on every ancestor from the root down, then   *)
(* exclusive on the path.  `hop` tells the first of two hierarchies from   *)
(* the second.                                                             *)
lock_mutation_path(path, hop) ==
    LET f == fold(path)
    IN  {[hop |-> hop, key |-> k, exclusive |-> FALSE] : k \in ancestors(f)}
          \cup {[hop |-> hop, key |-> f, exclusive |-> TRUE]}

(* Mutant: aliasing locks the new path and not the one it reads. *)
MutationLocksOfNewOnly(r) ==
    lock_mutation_path(IF r.op = "add" THEN r.new ELSE r.path, 1)

(* add_value_path takes the lesser path's hierarchy first. *)
MutationLocks(r) ==
    IF r.op # "add" THEN lock_mutation_path(r.path, 1)
    ELSE IF path_less(r.new, r.path)
         THEN lock_mutation_path(r.new, 1) \cup lock_mutation_path(r.path, 2)
         ELSE lock_mutation_path(r.path, 1) \cup lock_mutation_path(r.new, 2)

(* The lock to take next, as the set that holds it: within a hierarchy the *)
(* shorter key is the outer one.                                           *)
NextLock(t) ==
    {l \in todo[t] : \A m \in todo[t] :
        l.hop < m.hop \/ (l.hop = m.hop /\ Len(l.key) <= Len(m.key))}

PathLockBlocks(u, l) ==
    \E h \in held[u] : h.key = l.key /\ (h.exclusive \/ l.exclusive)

(* Row locks: "share" is the foreign key's KEY SHARE, "update" a plain     *)
(* UPDATE, "exclusive" a DELETE or SELECT FOR UPDATE.                      *)
RowConflict(m, n) ==
    \/ "exclusive" \in {m, n}
    \/ m = "update" /\ n = "update"

RowLockBlocks(u, id, mode) ==
    \E l \in rowLocks[u] : l.id = id /\ RowConflict(l.mode, mode)

RowFree(t, id, mode) == \A u \in Txs \ {t} : ~RowLockBlocks(u, id, mode)

(* The unique index on lowercase_path: an insert waits for an uncommitted  *)
(* insert of the same key and fails on a committed one.                    *)
KeyFree(t, f) ==
    /\ At(View(t), f) = {}
    /\ \A u \in Txs \ {t} : At(write[u].ins, f) = {}

-----------------------------------------------------------------------------
(* Transactions. *)

Init ==
    /\ \E s \in InitialStores :
          /\ pathRows = s.pathRows
          /\ contents = s.contents
          /\ nextId = s.nextId
    /\ pc = [t \in Txs |-> "idle"]
    /\ req = [t \in Txs |-> [op |-> "none"]]
    /\ todo = [t \in Txs |-> {}]
    /\ held = [t \in Txs |-> {}]
    /\ latched = [t \in Txs |-> {}]
    /\ rowLocks = [t \in Txs |-> {}]
    /\ local = [t \in Txs |-> NoLocal]
    /\ write = [t \in Txs |-> NoWrite]

(* Mutant: path locks of the session, which outlive the transaction. *)
EndTxHoldingPaths(t) ==
    /\ pc' = [pc EXCEPT ![t] = "idle"]
    /\ req' = [req EXCEPT ![t] = [op |-> "none"]]
    /\ todo' = [todo EXCEPT ![t] = {}]
    /\ latched' = [latched EXCEPT ![t] = {}]
    /\ rowLocks' = [rowLocks EXCEPT ![t] = {}]
    /\ local' = [local EXCEPT ![t] = NoLocal]
    /\ write' = [write EXCEPT ![t] = NoWrite]
    /\ UNCHANGED held

(* The end of a transaction gives back every lock and forgets the call. *)
EndTx(t) ==
    /\ pc' = [pc EXCEPT ![t] = "idle"]
    /\ req' = [req EXCEPT ![t] = [op |-> "none"]]
    /\ todo' = [todo EXCEPT ![t] = {}]
    /\ held' = [held EXCEPT ![t] = {}]
    /\ latched' = [latched EXCEPT ![t] = {}]
    /\ rowLocks' = [rowLocks EXCEPT ![t] = {}]
    /\ local' = [local EXCEPT ![t] = NoLocal]
    /\ write' = [write EXCEPT ![t] = NoWrite]

(* An early return drops the transaction, which rolls it back. *)
Rollback(t) == EndTx(t) /\ UNCHANGED committed

(* Mutant: entries taken as they come. *)
normalize_nesting_only(root, entries) ==
    \A d, e \in entries :
        d # e => fold(d.path) \notin ancestors(fold(e.path)) \cup {fold(e.path)}

(* Every entry is a value path at or below the root, none twice and none   *)
(* inside another.                                                         *)
normalize(root, entries) ==
    /\ \A e \in entries : parse_operation(e.path) /\ is_at_or_below(e.path, root)
    /\ \A d, e \in entries :
          d # e => fold(d.path) \notin ancestors(fold(e.path)) \cup {fold(e.path)}

(* What a call is refused for before it opens a transaction. *)
Accepted(r) ==
    CASE r.op = "put" -> parse_operation(r.path)
      [] r.op = "delete" -> IF r.recurse THEN parse_selection(r.path) ELSE parse_operation(r.path)
      [] r.op = "replace" -> parse_selection(r.path) /\ normalize(r.path, r.entries)
      [] r.op = "add" -> /\ parse_operation(r.path) /\ parse_operation(r.new)
                         /\ ~path_eq(r.path, r.new)

(* How many content identities a call may draw from the sequence. *)
Fresh(r) ==
    CASE r.op = "put" -> 1
      [] r.op = "replace" -> Cardinality(r.entries)
      [] OTHER -> 0

MaxFresh == CHOOSE n \in {Fresh(r) : r \in Requests} : \A r \in Requests : Fresh(r) <= n

Begin(t) ==
    /\ pc[t] = "idle"
    /\ \E r \in Requests :
          /\ Accepted(r)
          /\ Fresh(r) > 0 => nextId + Cardinality(Txs) * MaxFresh <= MaxId + 1
          /\ req' = [req EXCEPT ![t] = r]
          /\ todo' = [todo EXCEPT ![t] = MutationLocks(r)]
    /\ pc' = [pc EXCEPT ![t] = "locking"]
    /\ UNCHANGED <<committed, held, latched, rowLocks, local, write>>

LockPath(t) ==
    /\ pc[t] = "locking"
    /\ \E l \in NextLock(t) :
          /\ \A u \in Txs \ {t} : ~PathLockBlocks(u, l)
          /\ todo' = [todo EXCEPT ![t] = @ \ {l}]
          /\ held' = [held EXCEPT ![t] = @ \cup {[key |-> l.key, exclusive |-> l.exclusive]}]
          /\ pc' = [pc EXCEPT ![t] = IF todo[t] = {l} THEN "read" ELSE "locking"]
    /\ UNCHANGED <<committed, req, latched, rowLocks, local, write>>

(* The audit rows are among what the transaction wrote: record_in inserts  *)
(* them before the commit, so they and the change become visible together  *)
(* or not at all.                                                          *)
Commit(t) ==
    /\ pc[t] = "commit"
    /\ pathRows' = View(t)
    /\ contents' = ContentView(t)
    /\ EndTx(t)
    /\ UNCHANGED nextId

(* A statement fails, the connection drops, the server stops, or the       *)
(* database breaks a deadlock by failing one of its transactions.          *)
Fail(t) ==
    /\ pc[t] # "idle"
    /\ Rollback(t)

-----------------------------------------------------------------------------
(* Audit events. *)

Event(kind, path, old, new) == [kind |-> kind, path |-> path, old |-> old, new |-> new]

EventRank == [deleted |-> 1, updated |-> 2, created |-> 3]

(* The order in which a bulk change lists its events: deletions in order   *)
(* of the stored path, then the writes in order of their fold keys.        *)
EventPrecedes(d, e) ==
    \/ EventRank[d.kind] < EventRank[e.kind]
    \/ /\ d.kind = e.kind
       /\ IF d.kind = "deleted" THEN bytes_less(d.path, e.path) ELSE path_less(d.path, e.path)

(* push_capped: a bulk change itemizes at most EventCap of its events. *)
push_capped(events) ==
    {e \in events : Cardinality({d \in events : EventPrecedes(d, e)}) < EventCap}

(* Mutant: a summary that counts what it itemized and nothing else. *)
WithSummaryOfRecorded(kind, root, events) ==
    push_capped(events) \cup {[kind |-> kind, path |-> root, unrecorded |-> 0]}

(* The summary on the root says how many changes it does not itemize. *)
WithSummary(kind, root, events) ==
    push_capped(events) \cup
        {[kind |-> kind, path |-> root,
          unrecorded |-> Cardinality(events) - Cardinality(push_capped(events))]}

DeletedEvents(rows) ==
    {Event("deleted", r.path, Recorded(Content(r.content).class, Content(r.content).stored), Hidden)
        : r \in rows}

-----------------------------------------------------------------------------
(* put_value *)

PutClass(t) == req[t].class

(* Mutant: only what lies above the new path is looked for. *)
path_collides_above(rows, f) == \E r \in rows : sql_below(f, fold(r.path))

path_collides(rows, f) == \E r \in rows : nests(fold(r.path), f)

(* Mutant: a reclassification is not held back by the value's other paths. *)
PutReadAnyClass(t) ==
    /\ pc[t] = "read" /\ req[t].op = "put"
    /\ LET here == At(View(t), fold(req[t].path))
           id == (CHOOSE r \in here : TRUE).content
       IN  /\ pc' = [pc EXCEPT ![t] = IF here = {} THEN "create" ELSE "overwrite"]
           /\ local' = [local EXCEPT ![t].existing = IF here = {} THEN @ ELSE
                 [content |-> id, stored |-> Content(id).stored, class |-> Content(id).class]]
    /\ UNCHANGED <<committed, req, todo, held, latched, rowLocks, write>>

(* path_content_class, and the refusal of a reclassification that would    *)
(* reach the value's other paths.  No row is locked by this read.          *)
PutRead(t) ==
    /\ pc[t] = "read" /\ req[t].op = "put"
    /\ LET here == At(View(t), fold(req[t].path))
       IN  IF here = {}
           THEN /\ pc' = [pc EXCEPT ![t] = "create"]
                /\ UNCHANGED <<committed, req, todo, held, latched, rowLocks, local, write>>
           ELSE LET id == (CHOOSE r \in here : TRUE).content
                    c == Content(id)
                IN  IF Cardinality(PathsOf(View(t), id)) > 1 /\ c.class # PutClass(t)
                    THEN Rollback(t)
                    ELSE /\ pc' = [pc EXCEPT ![t] = "overwrite"]
                         /\ local' = [local EXCEPT ![t].existing =
                               [content |-> id, stored |-> c.stored, class |-> c.class]]
                         /\ UNCHANGED <<committed, req, todo, held, latched, rowLocks, write>>

(* update_content waits for the row and then overwrites whatever it holds. *)
PutOverwrite(t) ==
    /\ pc[t] = "overwrite"
    /\ LET was == local[t].existing
           new == [id |-> was.content, class |-> PutClass(t),
                   stored |-> stored_representation(was.content, PutClass(t), req[t].value)]
       IN  /\ \E c \in contents : c.id = was.content
           /\ RowFree(t, was.content, "update")
           /\ rowLocks' = [rowLocks EXCEPT ![t] = @ \cup {[id |-> was.content, mode |-> "update"]}]
           /\ write' = [write EXCEPT
                 ![t].upd = {new},
                 ![t].events = {Event("updated", req[t].path, Recorded(was.class, was.stored),
                                      Recorded(new.class, new.stored))}]
    /\ pc' = [pc EXCEPT ![t] = "commit"]
    /\ UNCHANGED <<committed, req, todo, held, latched, local>>

PutCreate(t) ==
    /\ pc[t] = "create"
    /\ LET f == fold(req[t].path)
           new == [id |-> nextId, class |-> PutClass(t),
                   stored |-> stored_representation(nextId, PutClass(t), req[t].value)]
       IN  IF path_collides(View(t), f)
           THEN Rollback(t)
           ELSE /\ KeyFree(t, f)
                /\ nextId' = nextId + 1
                /\ write' = [write EXCEPT
                      ![t].ins = {[path |-> req[t].path, content |-> nextId]},
                      ![t].upd = {new},
                      ![t].events = {Event("created", req[t].path, Hidden,
                                           Recorded(new.class, new.stored))}]
                /\ pc' = [pc EXCEPT ![t] = "commit"]
                /\ UNCHANGED <<pathRows, contents, req, todo, held, latched, rowLocks, local>>

-----------------------------------------------------------------------------
(* delete_values, and the pruning it shares with replace_sub_tree. *)

(* A path row another transaction has deleted must first be let go of. *)
RowsFree(t, rows) == \A u \in Txs \ {t} : rows \cap write[u].del = {}

ContentIds(rows) == {r.content : r \in rows}

delete_paths(rows, f, recurse) ==
    {r \in rows : IF recurse THEN sql_at_or_below(fold(r.path), f) ELSE fold(r.path) = f}

DeletePaths(t) ==
    /\ pc[t] = "read" /\ req[t].op = "delete"
    /\ LET deleted == delete_paths(View(t), fold(req[t].path), req[t].recurse)
       IN  IF deleted = {}
           THEN Rollback(t)
           ELSE /\ RowsFree(t, deleted)
                /\ write' = [write EXCEPT ![t].del = deleted,
                      ![t].events = IF req[t].recurse
                          THEN WithSummary("subtree_deleted", req[t].path, DeletedEvents(deleted))
                          ELSE push_capped(DeletedEvents(deleted))]
                /\ local' = [local EXCEPT ![t].prune = ContentIds(deleted)]
                /\ pc' = [pc EXCEPT ![t] = "prune"]
                /\ UNCHANGED <<committed, req, todo, held, latched, rowLocks>>

(* prune_orphan_contents locks the contents in ascending order. *)
NextLatch(t) ==
    {id \in local[t].prune \ latched[t] :
        \A other \in local[t].prune \ latched[t] : id <= other}

(* Mutant: contents pruned without waiting for one another. *)
LatchContentShared(t) ==
    /\ pc[t] = "prune"
    /\ \E id \in NextLatch(t) : latched' = [latched EXCEPT ![t] = @ \cup {id}]
    /\ UNCHANGED <<committed, pc, req, todo, held, rowLocks, local, write>>

LatchContent(t) ==
    /\ pc[t] = "prune"
    /\ \E id \in NextLatch(t) :
          /\ \A u \in Txs \ {t} : id \notin latched[u]
          /\ latched' = [latched EXCEPT ![t] = @ \cup {id}]
    /\ UNCHANGED <<committed, pc, req, todo, held, rowLocks, local, write>>

(* The DELETE picks the contents with no path left ... *)
PruneSelect(t) ==
    /\ pc[t] = "prune"
    /\ local[t].prune \subseteq latched[t]
    /\ local' = [local EXCEPT ![t].prune = {id \in @ : PathsOf(View(t), id) = {}}]
    /\ pc' = [pc EXCEPT ![t] = "erase"]
    /\ UNCHANGED <<committed, req, todo, held, latched, rowLocks, write>>

(* ... waits for their rows, and takes with them, by ON DELETE CASCADE,    *)
(* every path row that refers to them by then.                             *)
PruneErase(t) ==
    /\ pc[t] = "erase"
    /\ \A id \in local[t].prune : RowFree(t, id, "exclusive")
    /\ LET gone == local[t].prune
           cascaded == {r \in View(t) : r.content \in gone}
       IN  /\ rowLocks' = [rowLocks EXCEPT ![t] = @ \cup [id : gone, mode : {"exclusive"}]]
           /\ write' = [write EXCEPT ![t].gone = gone, ![t].del = @ \cup cascaded]
    /\ pc' = [pc EXCEPT ![t] = IF req[t].op = "replace" THEN "resolve" ELSE "commit"]
    /\ UNCHANGED <<committed, req, todo, held, latched, local>>

-----------------------------------------------------------------------------
(* replace_sub_tree *)

secret_paths_touching(rows, root) ==
    {fold(r.path) : r \in {s \in rows :
        /\ Content(s.content).class = Secret
        /\ sql_at_or_below(fold(s.path), root) \/ sql_below(root, fold(s.path))}}

(* A marker with no secret behind it is the plain text it looks like. *)
resolve_preserve_markers(entries, secrets) ==
    {IF e.value = Preserve /\ fold(e.path) \notin secrets
     THEN [e EXCEPT !.value = MaskedSecret] ELSE e : e \in entries}

PlainEntries(entries) == {e \in entries : e.value # Preserve}

ReplaceRead(t) ==
    /\ pc[t] = "read" /\ req[t].op = "replace"
    /\ LET secrets == secret_paths_touching(View(t), fold(req[t].path))
           plan == PlainEntries(resolve_preserve_markers(req[t].entries, secrets))
       IN  IF \E e \in plan, s \in secrets : paths_collide(fold(e.path), s)
           THEN Rollback(t)
           ELSE /\ local' = [local EXCEPT ![t].plan = plan]
                /\ pc' = [pc EXCEPT ![t] = "clear"]
                /\ UNCHANGED <<committed, req, todo, held, latched, rowLocks, write>>

(* Mutant: everything the replacement does not name is cleared. *)
delete_all_paths_except(rows, root, keep) ==
    {r \in rows : sql_at_or_below(fold(r.path), root) /\ fold(r.path) \notin keep}

delete_plain_paths_except(rows, root, keep) ==
    {r \in rows : /\ sql_at_or_below(fold(r.path), root)
                  /\ Content(r.content).class = Plain
                  /\ fold(r.path) \notin keep}

ReplaceClear(t) ==
    /\ pc[t] = "clear"
    /\ LET cleared == delete_plain_paths_except(View(t), fold(req[t].path),
                                                {fold(e.path) : e \in local[t].plan})
       IN  /\ RowsFree(t, cleared)
           /\ write' = [write EXCEPT ![t].del = cleared, ![t].events = DeletedEvents(cleared)]
           /\ local' = [local EXCEPT ![t].prune = ContentIds(cleared)]
           /\ pc' = [pc EXCEPT ![t] = IF cleared = {} THEN "resolve" ELSE "prune"]
    /\ UNCHANGED <<committed, req, todo, held, latched, rowLocks>>

(* Mutant: entries matched to rows by the path as displayed. *)
SharedWritesAsDisplayed(rows, plan) ==
    {[id |-> m[1].content, value |-> m[2].value] : m \in
        {x \in rows \X plan : x[1].path = x[2].path}}

(* resolve_plain_writes: the contents the entries land on; two entries for *)
(* one content must agree.                                                 *)
SharedWrites(rows, plan) ==
    {[id |-> m[1].content, value |-> m[2].value] : m \in
        {x \in rows \X plan : fold(x[1].path) = fold(x[2].path)}}

ReplaceResolve(t) ==
    /\ pc[t] = "resolve"
    /\ LET shared == SharedWrites(View(t), local[t].plan)
       IN  IF \E v, w \in shared : v.id = w.id /\ v.value # w.value
           THEN Rollback(t)
           ELSE /\ local' = [local EXCEPT ![t].shared = shared,
                      ![t].fresh = {e \in local[t].plan : At(View(t), fold(e.path)) = {}}]
                /\ pc' = [pc EXCEPT ![t] = "write"]
                /\ UNCHANGED <<committed, req, todo, held, latched, rowLocks, write>>

(* Mutant: shared contents updated in the order of the caller's paths. *)
NextSharedByPath(t) ==
    LET named == {r \in View(t) : \E e \in local[t].plan : fold(e.path) = fold(r.path)}
        left == {r \in named : r.content \in {v.id : v \in local[t].shared}}
        first == CHOOSE r \in left : \A q \in left : ~path_less(q.path, r.path)
    IN  {v \in local[t].shared : v.id = first.content}

NextShared(t) == {v \in local[t].shared : \A o \in local[t].shared : v.id <= o.id}

(* update_plain_content, in ascending order of identity: it locks the row, *)
(* reads what it holds and overwrites it in one statement.                 *)
ReplaceUpdate(t) ==
    /\ pc[t] = "write"
    /\ \E w \in NextShared(t) :
          LET new == [id |-> w.id, class |-> Plain,
                      stored |-> stored_representation(w.id, Plain, w.value)]
              was == Content(w.id)
              through == {e \in local[t].plan : \E r \in View(t) :
                             r.content = w.id /\ fold(r.path) = fold(e.path)}
          IN  /\ \E c \in contents : c.id = w.id
              /\ RowFree(t, w.id, "exclusive")
              /\ rowLocks' = [rowLocks EXCEPT ![t] = @ \cup {[id |-> w.id, mode |-> "exclusive"]}]
              /\ local' = [local EXCEPT ![t].shared = @ \ {w}]
              /\ write' = [write EXCEPT
                    ![t].upd = @ \cup {new},
                    ![t].events = IF was = new THEN @
                       ELSE @ \cup {Event("updated", e.path, Recorded(was.class, was.stored),
                                          Recorded(Plain, new.stored)) : e \in through}]
    /\ UNCHANGED <<committed, pc, req, todo, held, latched>>

(* The entries with no row yet are inserted in the order of their keys. *)
NextFresh(t) ==
    {e \in local[t].fresh : \A d \in local[t].fresh : ~path_less(d.path, e.path)}

ReplaceInsert(t) ==
    /\ pc[t] = "write"
    /\ local[t].shared = {}
    /\ \E e \in NextFresh(t) :
          LET new == [id |-> nextId, class |-> Plain,
                      stored |-> stored_representation(nextId, Plain, e.value)]
          IN  /\ KeyFree(t, fold(e.path))
              /\ local' = [local EXCEPT ![t].fresh = @ \ {e}]
              /\ write' = [write EXCEPT
                    ![t].ins = @ \cup {[path |-> e.path, content |-> nextId]},
                    ![t].upd = @ \cup {new},
                    ![t].events = @ \cup
                        {Event("created", e.path, Hidden, Recorded(Plain, new.stored))}]
    /\ nextId' = nextId + 1
    /\ UNCHANGED <<pathRows, contents, pc, req, todo, held, latched, rowLocks>>

ReplaceRecord(t) ==
    /\ pc[t] = "write"
    /\ local[t].shared = {} /\ local[t].fresh = {}
    /\ write' = [write EXCEPT ![t].events = WithSummary("subtree_replaced", req[t].path, @)]
    /\ pc' = [pc EXCEPT ![t] = "commit"]
    /\ UNCHANGED <<committed, req, todo, held, latched, rowLocks, local>>

-----------------------------------------------------------------------------
(* add_value_path *)

AddRead(t) ==
    /\ pc[t] = "read" /\ req[t].op = "add"
    /\ LET here == At(View(t), fold(req[t].path))
       IN  IF here = {}
           THEN Rollback(t)
           ELSE /\ local' = [local EXCEPT ![t].existing =
                                [content |-> (CHOOSE r \in here : TRUE).content]]
                /\ pc' = [pc EXCEPT ![t] = "alias"]
                /\ UNCHANGED <<committed, req, todo, held, latched, rowLocks, write>>

(* Both paths are told of the alias.  The foreign key shares the content   *)
(* row with every other reader but its deleter.                            *)
AddInsert(t) ==
    /\ pc[t] = "alias"
    /\ LET f == fold(req[t].new)
           id == local[t].existing.content
       IN  IF At(View(t), f) # {} \/ path_collides(View(t), f)
           THEN Rollback(t)
           ELSE /\ KeyFree(t, f)
                /\ \E c \in contents : c.id = id
                /\ RowFree(t, id, "share")
                /\ rowLocks' = [rowLocks EXCEPT ![t] = @ \cup {[id |-> id, mode |-> "share"]}]
                /\ write' = [write EXCEPT
                      ![t].ins = {[path |-> req[t].new, content |-> id]},
                      ![t].events = {Event("path_added", req[t].path, Hidden, req[t].new),
                                     Event("path_added", req[t].new, Hidden, req[t].path)}]
                /\ pc' = [pc EXCEPT ![t] = "commit"]
                /\ UNCHANGED <<committed, req, todo, held, latched, local>>

-----------------------------------------------------------------------------
(* Waiting: the transactions u that t's next statement must wait for. *)
Waits(t, u) ==
    /\ t # u
    /\ \/ /\ pc[t] = "locking"
          /\ \E l \in NextLock(t) : PathLockBlocks(u, l)
       \/ /\ pc[t] = "overwrite"
          /\ RowLockBlocks(u, local[t].existing.content, "update")
       \/ /\ pc[t] = "prune"
          /\ NextLatch(t) \cap latched[u] # {}
       \/ /\ pc[t] = "erase"
          /\ \E id \in local[t].prune : RowLockBlocks(u, id, "exclusive")
       \/ /\ pc[t] = "write"
          /\ \E w \in NextShared(t) : RowLockBlocks(u, w.id, "exclusive")
       \/ /\ pc[t] = "alias"
          /\ RowLockBlocks(u, local[t].existing.content, "share")

(* A set of transactions each of which waits for another of the set. *)
DeadlockIn(S) == \A t \in S : \E u \in S : Waits(t, u)

Deadlocked(t) == \E S \in SUBSET Txs : t \in S /\ DeadlockIn(S)

-----------------------------------------------------------------------------
Statement(t) ==
    \/ LockPath(t)
    \/ PutRead(t) \/ PutOverwrite(t) \/ PutCreate(t)
    \/ DeletePaths(t) \/ LatchContent(t) \/ PruneSelect(t) \/ PruneErase(t)
    \/ ReplaceRead(t) \/ ReplaceClear(t) \/ ReplaceResolve(t)
    \/ ReplaceUpdate(t) \/ ReplaceInsert(t) \/ ReplaceRecord(t)
    \/ AddRead(t) \/ AddInsert(t)
    \/ Commit(t)

Next == \E t \in Txs : Begin(t) \/ Statement(t) \/ Fail(t)

Spec == Init /\ [][Next]_vars

(* Scheduling: a call that can proceed eventually does (PostgreSQL grants  *)
(* locks in the order they were asked for), and the database fails a       *)
(* transaction of every deadlock.                                          *)
BreakDeadlock(t) == Deadlocked(t) /\ Fail(t)

FairSpec ==
    /\ Spec
    /\ \A t \in Txs : SF_vars(Statement(t)) /\ WF_vars(BreakDeadlock(t))

-----------------------------------------------------------------------------
(* Types. *)

Phases == {"idle", "locking", "read", "overwrite", "create", "prune", "erase",
           "clear", "resolve", "write", "alias", "commit"}

(* A row of configuration_value_contents, and one of configuration_paths. *)
IsContentRow(c) ==
    c \in [id : Ids, class : {Plain, Secret}, stored : [sealed : Ids \cup {0}, text : Texts]]

IsPathRow(r) == r \in [path : Bytes, content : Ids] /\ parse_operation(r.path)

(* A mutation as the transport hands it over, its paths not yet parsed. *)
IsRequest(r) ==
    /\ r.op \in {"put", "delete", "replace", "add"}
    /\ r.path \in Bytes
    /\ r.op = "put" => r.value \in Values /\ r.class \in {Plain, Secret}
    /\ r.op = "add" => r.new \in Bytes
    /\ r.op = "replace" => r.entries \subseteq [path : Bytes, value : Texts \cup {Preserve}]

ASSUME RequestsAssumption == \A r \in Requests : IsRequest(r)

(* A store that mutations of an empty one can reach: secrets are sealed,   *)
(* path rows refer to contents and contents have paths.                    *)
IsStore(s) ==
    /\ \A c \in s.contents : /\ IsContentRow(c)
                             /\ c.stored.sealed = IF c.class = Secret THEN c.id ELSE 0
                             /\ \E r \in s.pathRows : r.content = c.id
    /\ \A r \in s.pathRows : /\ IsPathRow(r)
                             /\ r.content < s.nextId
                             /\ \E c \in s.contents : c.id = r.content
    /\ s.nextId \in Ids

ASSUME StoresAssumption == \A s \in InitialStores : IsStore(s)

IsLocal(l) ==
    /\ DOMAIN l = DOMAIN NoLocal
    /\ l.plan \cup l.fresh \subseteq [path : Bytes, value : Texts]
    /\ \A e \in l.plan \cup l.fresh : parse_operation(e.path)
    /\ l.shared \subseteq [id : Ids, value : Texts]
    /\ l.prune \subseteq Ids

IsWrite(w) ==
    /\ DOMAIN w = DOMAIN NoWrite
    /\ \A r \in w.del \cup w.ins : IsPathRow(r)
    /\ \A c \in w.upd : IsContentRow(c)
    /\ w.gone \subseteq Ids

(* The type of the store and of every call's state: what is stored under a *)
(* path parses as one, and no preserve marker is ever stored as a value.   *)
TypeOK ==
    /\ \A r \in pathRows : IsPathRow(r)
    /\ \A c \in contents : IsContentRow(c)
    /\ nextId \in Ids
    /\ pc \in [Txs -> Phases]
    /\ DOMAIN req = Txs
    /\ \A t \in Txs : pc[t] # "idle" => req[t] \in Requests /\ Accepted(req[t])
    /\ DOMAIN todo = Txs
    /\ DOMAIN held = Txs
    /\ latched \in [Txs -> SUBSET Ids]
    /\ rowLocks \in [Txs -> SUBSET [id : Ids, mode : {"share", "update", "exclusive"}]]
    /\ DOMAIN local = Txs
    /\ \A t \in Txs : IsLocal(local[t])
    /\ \A t \in Txs : pc[t] \in {"overwrite", "alias"} => local[t].existing.content \in Ids
    /\ DOMAIN write = Txs
    /\ \A t \in Txs : IsWrite(write[t])

-----------------------------------------------------------------------------
(* Safety. *)

(* Deleting a value's last path deletes the value, however the deletions   *)
(* of its aliases interleave: no committed content is without a path.      *)
NoOrphanContents == \A c \in contents : PathsOf(pathRows, c.id) # {}

(* A mutation removes only path rows its caller named: the ON DELETE       *)
(* CASCADE of a pruned content never takes an alias added meanwhile.       *)
OnlyNamedPathsAreDeleted ==
    \A t \in Txs : \A r \in write[t].del : sql_at_or_below(fold(r.path), fold(req[t].path))

(* "identical or parent/descendant mutations serialize" (store.rs): two     *)
(* mutations that hold their path locks are about disjoint subtrees.       *)
Targets(t) == {fold(req[t].path)} \cup (IF req[t].op = "add" THEN {fold(req[t].new)} ELSE {})

OverlappingMutationsSerialize ==
    \A t, u \in Txs :
        t # u /\ {pc[t], pc[u]} \cap {"idle", "locking"} = {}
           => \A f \in Targets(t), g \in Targets(u) : ~sql_at_or_below(f, g)

(* Every stored secret is an envelope bound to the row that holds it, and  *)
(* every plain value is stored as it is.                                   *)
SecretsAreSealedToTheirRow ==
    \A c \in contents : c.stored.sealed = IF c.class = Secret THEN c.id ELSE 0

(* Once its path locks are granted no mutation is part of a deadlock: the  *)
(* content locks and row locks are all taken in ascending order.           *)
NoDeadlockOncePathsAreLocked ==
    \A S \in SUBSET {t \in Txs : pc[t] # "locking"} : S # {} => ~DeadlockIn(S)

(* "values form a tree of leaves, so nesting is never allowed" (store.rs). *)
ValuesAreLeaves ==
    \A q, r \in pathRows : ~nests(fold(q.path), fold(r.path))

-----------------------------------------------------------------------------
(* What a step may do to the committed store. *)

(* t commits in this step. *)
Commits(t) ==
    /\ pc[t] = "commit" /\ pc'[t] = "idle"
    /\ <<pathRows, contents>>' = <<View(t), ContentView(t)>>

Removed == pathRows \ pathRows'
Added == pathRows' \ pathRows

(* A value changes its classification only while one path leads to it, so  *)
(* no other path's exposure changes with it.                               *)
OnlyUnsharedValuesAreReclassified ==
    [][\A c \in contents, d \in contents' :
          c.id = d.id /\ c.class # d.class
             => Cardinality(PathsOf(pathRows, c.id)) = 1 /\ Added = {}]_vars

(* A subtree replacement neither deletes nor overwrites a secret, nor      *)
(* makes one, whatever runs beside it.                                     *)
SecretsOf(cs, rows) ==
    {x \in cs \X rows : x[1].class = Secret /\ x[2].content = x[1].id}

ReplacementLeavesSecretsAlone ==
    [][\A t \in Txs : Commits(t) /\ req[t].op = "replace"
          => SecretsOf(contents, pathRows)' = SecretsOf(contents, pathRows)]_vars

(* After a subtree replacement the plain values at or below its root are   *)
(* exactly the ones the caller sent.                                       *)
PlainBelow(rows, cs, root) ==
    {[key |-> fold(x[1].path), text |-> x[2].stored.text] : x \in
        {y \in rows \X cs : /\ y[1].content = y[2].id
                            /\ y[2].class = Plain
                            /\ sql_at_or_below(fold(y[1].path), fold(root))}}

ReplacementIsExact ==
    [][\A t \in Txs : Commits(t) /\ req[t].op = "replace"
          => PlainBelow(pathRows', contents', req[t].path) =
                {[key |-> fold(e.path), text |-> e.value] : e \in local[t].plan}]_vars

(* put_value and add_value_path never create a path inside, or around, one *)
(* that is stored.                                                         *)
CreatedPathsAreLeaves ==
    [][\A t \in Txs : Commits(t) /\ req[t].op \in {"put", "add"}
          => \A a \in Added, r \in pathRows' : ~nests(fold(a.path), fold(r.path))]_vars

(* The events committed with a mutation are its changes: each path row     *)
(* that came or went and each content that changed is itemized, but for as *)
(* many as the summary counts as unrecorded, and nothing else is.          *)
Unrecorded(events) ==
    LET summaries == {e \in events : "unrecorded" \in DOMAIN e}
    IN  IF summaries = {} THEN 0 ELSE (CHOOSE e \in summaries : TRUE).unrecorded

Changed == {c \in contents : \E d \in contents' : d.id = c.id /\ d # c}

EventAt(events, kinds, path) == \E e \in events : e.kind \in kinds /\ e.path = path

CommittedChangesAreRecorded ==
    [][\A t \in Txs : Commits(t) =>
          LET events == write[t].events
              removed == {r \in Removed : ~EventAt(events, {"deleted"}, r.path)}
              added == {r \in Added : ~EventAt(events, {"created", "path_added"}, r.path)}
              changed == {c \in Changed : \A r \in PathsOf(pathRows', c.id), e \in events :
                             e.kind = "updated" => fold(e.path) # fold(r.path)}
          IN  /\ Cardinality(removed) + Cardinality(added) + Cardinality(changed) = Unrecorded(events)
              /\ \A e \in events :
                    /\ e.kind = "deleted" => \E r \in Removed : r.path = e.path
                    /\ e.kind = "created" => \E r \in Added : r.path = e.path]_vars

-----------------------------------------------------------------------------
(* Liveness. *)

(* Every mutation that begins ends: it commits, is refused, or fails.      *)
EveryCallEnds == \A t \in Txs : pc[t] # "idle" ~> pc[t] = "idle"
=============================================================================
