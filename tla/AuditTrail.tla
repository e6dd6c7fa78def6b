----------------------------- MODULE AuditTrail -----------------------------
(***************************************************************************)
(* The audit trail (crates/sovereign-config-server/src/audit and the       *)
(* retention sweep of main.rs): events captured by calls and inserted      *)
(* later, accesses collapsing into one row per window, the sweep, and a    *)
(* reader that pages through what its grants and filters select while the  *)
(* trail goes on changing.                                                 *)
(*                                                                         *)
(* An event is a record of what the query can tell apart.  A narrative is  *)
(* the name it opens with and the moment of the access it tells.  Digests  *)
(* are the tuples they hash.                                               *)
(***************************************************************************)
EXTENDS Grants, Functions

CONSTANTS
    AuditActs,        \* what calls may record
    AuditQueries,     \* what readers may ask
    AuditGrants,      \* the reader's grants
    AuditWindow,      \* coalesce_window
    AuditRetention,   \* retention
    AuditPageSize,    \* the configured page size
    AuditMaxTime,     \* bound on the clock
    AuditMaxCalls,    \* bound on the calls that record something
    AuditMaxPending,  \* bound on the calls under way at once
    NoName, NoPath, NoFilter

(* What calls record is about paths; a page has room for an event. *)
ASSUME AuditAssumption ==
    /\ AuditPageSize \in Nat \ {0}
    /\ \A act \in AuditActs :
          /\ act = [kind |-> act.kind, path |-> act.path, counterpart |-> act.counterpart,
                    actor |-> act.actor]
          /\ act.path \in Seq(Nat) /\ parse_selection(act.path)
          /\ act.kind = "value.path_added" =>
                act.counterpart \in Seq(Nat) /\ parse_selection(act.counterpart)
    /\ \A q \in AuditQueries :
          q.size \in Nat /\ (q.element = NoPath \/ q.element \in Seq(Nat))

VARIABLES
    auditClock,
    auditRows,        \* committed rows of audit_events
    auditOpen,        \* rows inserted by transactions that have not committed
    auditNextId,
    auditPending,     \* calls that read the clock and have not inserted
    auditCalls,       \* how many calls there have been
    auditKept,        \* history: every recorded access whose row is still kept
    auditSweep,       \* the cutoff of the sweep under way
    auditScroll       \* the reader

auditVars == <<auditClock, auditRows, auditOpen, auditNextId, auditPending, auditCalls,
               auditKept, auditSweep, auditScroll>>

-----------------------------------------------------------------------------
(* What happened, and how it is written. *)

EventKinds == {"value.created", "value.updated", "value.deleted", "value.path_added",
               "subtree.replaced", "subtree.deleted", "secret.revealed", "subtree.read",
               "values.listed", "connection.created", "connection.rotated",
               "connection.revoked"}

coalesces(kind) == kind \in {"secret.revealed", "subtree.read", "values.listed"}

CONNECTION_KINDS == {"connection.created", "connection.rotated", "connection.revoked"}

shown(actor) == IF actor.name = NoName THEN actor.subject ELSE actor.name

narrative(actor, at) == [who |-> shown(actor), at |-> at]

(* A change, of a value or of a connection, is recorded in the transaction that
   makes it; the record of an access stands alone. *)
RecordsInTransaction(kind) == ~ coalesces(kind)

(* Mutant: accesses under different protocol versions share a window. *)
DigestWithoutVersion(act, at) ==
    <<act.kind, at \div AuditWindow, fold(act.path), act.actor.subject>>

coalesce_digest(act, at) ==
    <<act.kind, act.actor.version, at \div AuditWindow, fold(act.path), act.actor.subject>>

EventRow(act, at, id) ==
    [id |-> id, kind |-> act.kind, path |-> act.path, counterpart |-> act.counterpart,
     first |-> at, last |-> at, count |-> 1, subject |-> act.actor.subject,
     name |-> act.actor.name, version |-> act.actor.version,
     told |-> narrative(act.actor, at),
     digest |-> IF coalesces(act.kind) THEN coalesce_digest(act, at) ELSE <<>>]

(* An alias is two events, one on either path, each naming the other. *)
path_added(act) == <<act, [act EXCEPT !.path = act.counterpart, !.counterpart = act.path]>>

Events(act) == IF act.kind = "value.path_added" THEN path_added(act) ELSE <<act>>

(* ON CONFLICT (coalesce_digest) DO UPDATE. *)
Bumped(old, new) ==
    [old EXCEPT !.count = @ + 1,
                !.last = IF new.last > @ THEN new.last ELSE @,
                !.path = new.path,
                !.name = IF new.name = NoName THEN @ ELSE new.name,
                !.told = new.told]

-----------------------------------------------------------------------------
(* The query. *)

granted_prefixes(permission) ==
    {g.prefix : g \in {h \in AuditGrants : permission \in h.permissions}}

push_covered(f, prefixes) ==
    \E prefix \in prefixes : \/ prefix = Root
                             \/ f = prefix
                             \/ starts_with(f, prefix \o Root)

element_scope(p) ==
    LET f == fold(p)
    IN  [path |-> f, ancestors |-> ancestors(f), parent |-> parent_path(f)]

(* Mutant: an alias event is read by whoever may read one of its paths. *)
ScopeWithoutCounterpart(r, q) ==
    LET f == fold(r.path)
        e == element_scope(q.element)
    IN  /\ IF r.kind \in CONNECTION_KINDS
           THEN push_covered(f, granted_prefixes("manage"))
           ELSE push_covered(f, granted_prefixes("read"))
        /\ q.element # NoPath =>
              \/ f = e.path
              \/ r.kind = "subtree.read" /\ f \in e.ancestors
              \/ r.kind = "values.listed" /\ f = e.parent

push_scope(r, q) ==
    LET f == fold(r.path)
        e == element_scope(q.element)
    IN  /\ IF r.kind \in CONNECTION_KINDS
           THEN push_covered(f, granted_prefixes("manage"))
           ELSE push_covered(f, granted_prefixes("read"))
        /\ r.kind = "value.path_added" =>
              push_covered(fold(r.counterpart), granted_prefixes("read"))
        /\ q.element # NoPath =>
              \/ f = e.path
              \/ r.kind = "subtree.read" /\ f \in e.ancestors
              \/ r.kind = "values.listed" /\ f = e.parent

contains(f, fragment) ==
    \E i \in 1..Len(f) : starts_with(SubSeq(f, i, Len(f)), fragment)

push_filters(r, q) ==
    /\ q.fragment # NoPath => contains(fold(r.path), fold(q.fragment))
    /\ q.text # NoFilter => q.text = r.told.who
    /\ q.actor # NoFilter => q.actor \in {r.subject, r.name}
    /\ q.from # NoFilter => r.last >= q.from
    /\ q.until # NoFilter => r.first <= q.until
    /\ q.version # NoFilter => r.version = q.version
    /\ q.kinds # {} => r.kind \in q.kinds

validate(q) ==
    /\ q.fragment = NoPath \/ q.element = NoPath
    /\ q.element # NoPath => parse_operation(q.element)
    /\ q.from # NoFilter /\ q.until # NoFilter => q.from <= q.until
    /\ q.kinds \subseteq EventKinds

page_size(q) ==
    IF q.size = 0 \/ q.size > AuditPageSize THEN AuditPageSize ELSE q.size

(* Mutant: pages ordered by when a row was last seen, which a bump moves. *)
ByLastSeen(r) == <<r.last, r.id>>

cursor_after(r) == <<r.first, r.id>>

Before(j, k) == j[1] < k[1] \/ (j[1] = k[1] /\ j[2] < k[2])

Matching(rows, q) == {r \in rows : push_scope(r, q) /\ push_filters(r, q)}

(* How many of the rows come before r, newest first. *)
Rank(rows, r) == Cardinality({s \in rows : Before(cursor_after(r), cursor_after(s))})

(* One page, newest first, and one row more to know whether another follows. *)
query_events(q, after) ==
    LET found == {r \in Matching(auditRows, q) :
                     after = <<>> \/ Before(cursor_after(r), after)}
        many == Cardinality(found)
    IN  [i \in 1..(IF many > page_size(q) THEN page_size(q) + 1 ELSE many) |->
           CHOOSE r \in found : Rank(found, r) = i - 1]

-----------------------------------------------------------------------------
(* What a reader is owed, from the grant check the rest of the server makes and
   the tree, not from the SQL. *)

MaySee(r) ==
    /\ allows(AuditGrants, r.path, IF r.kind \in CONNECTION_KINDS THEN "manage" ELSE "read")
    /\ r.kind = "value.path_added" => allows(AuditGrants, r.counterpart, "read")

Concerns(r, p) ==
    \/ path_eq(r.path, p)
    \/ r.kind = "subtree.read" /\ is_at_or_below(p, r.path)
    \/ r.kind = "values.listed" /\ path_eq(parent_path(p), r.path)

Owed(rows, q) ==
    {r.id : r \in {s \in rows : /\ MaySee(s)
                                /\ q.element # NoPath => Concerns(s, q.element)
                                /\ push_filters(s, q)}}

(* The rows owed at every moment since the scroll began, after a change. *)
Watch(rows) ==
    auditScroll' = [auditScroll EXCEPT !.steady =
        IF auditScroll.stage \in {"paging", "counting"}
        THEN @ \cap Owed(rows, auditScroll.query) ELSE @]

NoScroll == [stage |-> "idle", query |-> <<>>, cursor |-> <<>>, seen |-> <<>>,
             steady |-> {}, counts |-> <<>>]

-----------------------------------------------------------------------------
AuditInit ==
    /\ auditClock = 0
    /\ auditRows = {} /\ auditOpen = {} /\ auditNextId = 1
    /\ auditPending = {} /\ auditCalls = 0 /\ auditKept = {}
    /\ auditSweep = -1
    /\ auditScroll = NoScroll

AuditTick ==
    /\ auditClock < AuditMaxTime
    /\ auditClock' = auditClock + 1
    /\ UNCHANGED <<auditRows, auditOpen, auditNextId, auditPending, auditCalls, auditKept,
                   auditSweep, auditScroll>>

(* A call reads the clock, and who is calling and on which version; what it records lands later, or never. *)
Capture(act) ==
    /\ auditCalls < AuditMaxCalls /\ Cardinality(auditPending) < AuditMaxPending
    /\ auditCalls' = auditCalls + 1
    /\ auditPending' = auditPending \cup {[n |-> auditCalls, act |-> act, at |-> auditClock]}
    /\ UNCHANGED <<auditClock, auditRows, auditOpen, auditNextId, auditKept, auditSweep,
                   auditScroll>>

Access(call, id) == [n |-> call.n, act |-> call.act, at |-> call.at, id |-> id]

(* record and record_best_effort: one statement, its own transaction.  An id is
   drawn from the sequence even when the row turns out to exist. *)
Record(call) ==
    LET new == EventRow(call.act, call.at, auditNextId)
        same == {r \in auditRows : new.digest # <<>> /\ r.digest = new.digest}
        rows == (auditRows \ same) \cup
                (IF same = {} THEN {new} ELSE {Bumped(r, new) : r \in same})
    IN  /\ ~ RecordsInTransaction(call.act.kind)
        /\ auditPending' = auditPending \ {call}
        /\ auditRows' = rows
        /\ auditNextId' = auditNextId + 1
        /\ auditKept' = auditKept \cup
               {Access(call, IF same = {} THEN new.id ELSE (CHOOSE r \in same : TRUE).id)}
        /\ Watch(rows)
        /\ UNCHANGED <<auditClock, auditOpen, auditCalls, auditSweep>>

(* record_in: the rows are written inside the transaction that changes the store. *)
RecordIn(call) ==
    LET acts == Events(call.act)
        Id(i) == auditNextId + i - 1
    IN  /\ RecordsInTransaction(call.act.kind)
        /\ auditPending' = auditPending \ {call}
        /\ auditOpen' = auditOpen \cup
               {[rows |-> {EventRow(acts[i], call.at, Id(i)) : i \in 1..Len(acts)},
                 kept |-> {Access([call EXCEPT !.act = acts[i]], Id(i)) : i \in 1..Len(acts)}]}
        /\ auditNextId' = auditNextId + Len(acts)
        /\ UNCHANGED <<auditClock, auditRows, auditCalls, auditKept, auditSweep, auditScroll>>

CommitOpen(o) ==
    LET rows == auditRows \cup o.rows
    IN  /\ auditOpen' = auditOpen \ {o}
        /\ auditRows' = rows
        /\ auditKept' = auditKept \cup o.kept
        /\ Watch(rows)
        /\ UNCHANGED <<auditClock, auditNextId, auditPending, auditCalls, auditSweep>>

RollbackOpen(o) ==
    /\ auditOpen' = auditOpen \ {o}
    /\ UNCHANGED <<auditClock, auditRows, auditNextId, auditPending, auditCalls, auditKept,
                   auditSweep, auditScroll>>

(* The insert fails: a change or a secret access fails with it, a read does not. *)
RecordFails(call) ==
    /\ auditPending' = auditPending \ {call}
    /\ UNCHANGED <<auditClock, auditRows, auditOpen, auditNextId, auditCalls, auditKept,
                   auditSweep, auditScroll>>

-----------------------------------------------------------------------------
(* The sweep: at startup, then every interval, whatever became of the last. *)

sweep_audit_trail ==
    /\ auditSweep = -1
    /\ auditClock > AuditRetention
    /\ auditSweep' = auditClock - AuditRetention
    /\ UNCHANGED <<auditClock, auditRows, auditOpen, auditNextId, auditPending, auditCalls,
                   auditKept, auditScroll>>

(* Mutant: a row is kept until it is one past the retention. *)
ExpiredALittleMore(r) == r.last < auditSweep - 1

Expired(r) == r.last < auditSweep

delete_before ==
    LET rows == {r \in auditRows : ~ Expired(r)}
        ids == {r.id : r \in rows}
    IN  /\ auditSweep # -1
        /\ auditSweep' = -1
        /\ auditRows' = rows
        /\ auditKept' = {w \in auditKept : w.id \in ids}
        /\ Watch(rows)
        /\ UNCHANGED <<auditClock, auditOpen, auditNextId, auditPending, auditCalls>>

SweepFails ==
    /\ auditSweep # -1
    /\ auditSweep' = -1
    /\ UNCHANGED <<auditClock, auditRows, auditOpen, auditNextId, auditPending, auditCalls,
                   auditKept, auditScroll>>

-----------------------------------------------------------------------------
(* The reader. *)

TakePage(q, scroll) ==
    LET found == query_events(q, scroll.cursor)
        page == SubSeq(found, 1, IF Len(found) > page_size(q) THEN page_size(q)
                                 ELSE Len(found))
        more == Len(found) > page_size(q)
    IN  [scroll EXCEPT !.stage = IF q.counts /\ scroll.cursor = <<>> THEN "counting"
                                 ELSE IF more THEN "paging" ELSE "done",
                       !.cursor = IF more THEN cursor_after(page[Len(page)]) ELSE @,
                       !.seen = @ \o [i \in 1..Len(page) |-> page[i].id]]

UnchangedTrail ==
    UNCHANGED <<auditClock, auditRows, auditOpen, auditNextId, auditPending, auditCalls,
                auditKept, auditSweep>>

query_audit_trail(q) ==
    /\ auditScroll.stage = "idle"
    /\ auditScroll' =
          IF ~ validate(q) THEN auditScroll
          ELSE IF granted_prefixes("read") \cup granted_prefixes("manage") = {}
          THEN [NoScroll EXCEPT !.stage = "done", !.query = q]
          ELSE TakePage(q, [NoScroll EXCEPT !.query = q, !.steady = Owed(auditRows, q)])
    /\ UnchangedTrail

(* The counts of a first page are a statement of their own. *)
count_events ==
    /\ auditScroll.stage = "counting"
    /\ auditScroll' = [auditScroll EXCEPT
          !.stage = IF auditScroll.cursor = <<>> THEN "done" ELSE "paging",
          !.counts = <<Cardinality({r \in auditRows : push_scope(r, auditScroll.query)}),
                       Cardinality(Matching(auditRows, auditScroll.query))>>]
    /\ UnchangedTrail

NextPage ==
    /\ auditScroll.stage = "paging"
    /\ auditScroll' = TakePage(auditScroll.query, auditScroll)
    /\ UnchangedTrail

AuditNext ==
    \/ AuditTick
    \/ \E act \in AuditActs : Capture(act)
    \/ \E call \in auditPending : Record(call) \/ RecordIn(call) \/ RecordFails(call)
    \/ \E o \in auditOpen : CommitOpen(o) \/ RollbackOpen(o)
    \/ sweep_audit_trail
    \/ delete_before
    \/ SweepFails
    \/ \E q \in AuditQueries : query_audit_trail(q)
    \/ count_events
    \/ NextPage

AuditSpec == AuditInit /\ [][AuditNext]_auditVars

-----------------------------------------------------------------------------
(* Every recorded access is counted once, in the row of its own kind, caller,
   protocol version, path and window; the row's last-seen time is the latest of
   the accesses it stands for.  coalesce_digest and the upsert of insert_events,
   with accesses that land out of order and around sweeps. *)
WindowsCountTheirAccesses ==
    \A w \in auditKept :
        LET window == {x \in auditKept :
                          IF coalesces(w.act.kind)
                          THEN /\ x.act.kind = w.act.kind
                               /\ x.act.actor.subject = w.act.actor.subject
                               /\ x.act.actor.version = w.act.actor.version
                               /\ path_eq(x.act.path, w.act.path)
                               /\ x.at \div AuditWindow = w.at \div AuditWindow
                          ELSE x = w}
        IN  \E r \in auditRows :
               /\ r.id = w.id
               /\ r.count = Cardinality(window)
               /\ r.version = w.act.actor.version
               /\ \A x \in window : x.id = r.id /\ x.at <= r.last
               /\ \E x \in window : x.at = r.last

(* A scroll returns no event twice, and by its last page it has returned every
   event its reader was owed from the first page to the last, whatever was
   recorded, bumped or swept meanwhile.  The keyset of query_events, and the SQL
   scope against the grant check and the tree. *)
ScrollsAreComplete ==
    /\ Cardinality(Range(auditScroll.seen)) = Len(auditScroll.seen)
    /\ auditScroll.stage = "done" => auditScroll.steady \subseteq Range(auditScroll.seen)

(* No page holds an event the reader's grants do not cover: an alias event needs
   read on both of its paths, a connection event manage.  push_scope. *)
PagesRespectGrants ==
    [][\A r \in auditRows :
          r.id \in Range(auditScroll'.seen) \ Range(auditScroll.seen) => MaySee(r)]_auditVars

(* A row past its retention. *)
Stale(r) == r.last < auditClock - AuditRetention

(* Whenever rows are past the retention, a time comes at which none is: they are
   swept or, bumped, no longer past it, however many sweeps fail on the way.
   sweep_audit_trail logs a failed delete_before and tries again next period. *)
ExpiredRowsAreSwept ==
    (\E r \in auditRows : Stale(r)) ~> (\A r \in auditRows : ~ Stale(r))
=============================================================================
