----------------------------- MODULE ValueReads -----------------------------
(***************************************************************************)
(* The reads of the configuration tree                                     *)
(* (crates/sovereign-config-server/src/values/service.rs): a listing and   *)
(* a list of a value's paths take two statements each, with no transaction *)
(* around them, while writers commit in between.  A writer is its commit:  *)
(* ValueStore has the statements.                                          *)
(***************************************************************************)
EXTENDS Grants, SequencesExt

CONSTANTS
    ReadSpellings,      \* the paths writers spell
    ReadSelections,     \* the paths readers ask for
    ReadGrants,         \* the reader's grants
    ReadMaxWrites       \* bound on the commits

VARIABLES
    readRows,       \* configuration_paths: [path, content, created]
    readClasses,    \* content id -> classification, for every id ever stored
    readWrites,     \* how many commits there have been
    readCall        \* the reader's call

readVars == <<readRows, readClasses, readWrites, readCall>>

-----------------------------------------------------------------------------
(* The ancestors of the rows a caller may read, each spelled as its earliest
   row spells it. *)

upsert_ancestor(paths, f, created, display) ==
    LET held == {e \in paths : e.fold = f}
        new == [fold |-> f, created |-> created, display |-> display]
    IN  IF \A e \in held : \/ created < e.created
                           \/ created = e.created /\ bytes_less(display, e.display)
        THEN (paths \ held) \cup {new}
        ELSE paths

add_parent_paths(paths, row) ==
    FoldSet(LAMBDA f, acc : upsert_ancestor(acc, f, row.created, SubSeq(row.path, 1, Len(f))),
            paths, ancestors(fold(row.path)))

readable(p) == allows(ReadGrants, fold(p), "read")

path_candidates == {r \in readRows : readable(r.path)}

masked_content(class) == IF class = "secret" THEN "masked" ELSE "text"

-----------------------------------------------------------------------------
NoRead == [op |-> "none", stage |-> "idle", path |-> Root, groups |-> {}, spaces |-> {},
         id |-> 0, reply |-> {}, held |-> {}, steady |-> {}]

ReadInit ==
    /\ readRows = {} /\ readClasses = <<>> /\ readWrites = 0
    /\ readCall = NoRead

(* What was stored at some moment of the call, and at every moment of it. *)
Observe(rows) ==
    readCall' = [readCall EXCEPT
        !.held = IF readCall.stage = "reading" THEN @ \cup rows ELSE @,
        !.steady = IF readCall.stage = "reading" THEN @ \cap rows ELSE @]

Commit(rows, classes) ==
    /\ readWrites < ReadMaxWrites
    /\ readWrites' = readWrites + 1
    /\ readRows' = rows /\ readClasses' = classes
    /\ Observe(rows)

Row(p, id) == [path |-> p, content |-> id, created |-> readWrites]

Free(p) == \A r \in readRows : ~ paths_collide(fold(r.path), fold(p))

CommitCreate(p, class) ==
    Free(p) /\ Commit(readRows \cup {Row(p, Len(readClasses) + 1)}, Append(readClasses, class))

CommitAlias(source, p) ==
    Free(p) /\ Commit(readRows \cup {Row(p, source.content)}, readClasses)

CommitReclassify(r, class) ==
    /\ \A s \in readRows : s.content = r.content => s = r
    /\ readClasses[r.content] # class
    /\ Commit(readRows, [readClasses EXCEPT ![r.content] = class])

CommitDelete(r) == Commit(readRows \ {r}, readClasses)

-----------------------------------------------------------------------------
(* list_values: candidates first, then the contents of the ones directly below
   the selection. *)

BeginRead(op, p) ==
    [NoRead EXCEPT !.op = op, !.stage = "reading", !.path = p,
                 !.held = readRows, !.steady = readRows]

Replied(call, reply) == [call EXCEPT !.stage = "replied", !.reply = reply]

direct(p) == {r \in path_candidates : parent_path(fold(r.path)) = fold(p)}

list_values(p) ==
    LET spaces == FoldSet(LAMBDA r, acc : add_parent_paths(acc, r), {}, path_candidates)
        call == [BeginRead("list", p) EXCEPT !.groups = path_candidates, !.spaces = spaces]
    IN  /\ readCall.stage = "idle"
        /\ parse_selection(p)
        /\ readCall' = IF direct(p) = {} THEN Replied(call, {}) ELSE call
        /\ UNCHANGED <<readRows, readClasses, readWrites>>

(* Mutant: the aliases found under the path, whatever value it holds by then. *)
AliasesByPath(row) ==
    LET own == {h \in readCall.groups : fold(h.path) = fold(row.path)}
    IN  {g.path : g \in {h \in readCall.groups : /\ \E o \in own : h.content = o.content
                                                 /\ fold(h.path) # fold(row.path)}}

alias_paths(row) ==
    {g.path : g \in {h \in readCall.groups : /\ h.content = row.content
                                             /\ fold(h.path) # fold(row.path)}}

listed_values ==
    LET asked == {fold(g.path) : g \in {h \in readCall.groups :
                     parent_path(fold(h.path)) = fold(readCall.path)}}
    IN  /\ readCall.stage = "reading" /\ readCall.op = "list"
        /\ readCall' = Replied(readCall,
              {[path |-> r.path, content |-> r.content,
                shown |-> masked_content(readClasses[r.content]),
                class |-> readClasses[r.content], aliases |-> alias_paths(r)] :
                  r \in {s \in readRows : fold(s.path) \in asked}})
        /\ UNCHANGED <<readRows, readClasses, readWrites>>

(* get_sub_tree: one statement, and the check covers the whole subtree. *)
get_sub_tree(p) ==
    /\ readCall.stage = "idle"
    /\ authorize(ReadGrants, p, {"read"}, TRUE) = "OK"
    /\ readCall' = Replied(BeginRead("tree", p),
          {[path |-> r.path, content |-> r.content,
            shown |-> masked_content(readClasses[r.content]),
            class |-> readClasses[r.content], aliases |-> {}] :
              r \in {s \in readRows : sql_at_or_below(fold(s.path), fold(p))}})
    /\ UNCHANGED <<readRows, readClasses, readWrites>>

(* list_value_paths: the content at the path, then the paths of that content. *)
list_value_paths(p) ==
    /\ readCall.stage = "idle"
    /\ authorize(ReadGrants, p, {"read"}, FALSE) = "OK"
    /\ \E r \in readRows :
          /\ path_eq(r.path, p)
          /\ readCall' = [BeginRead("paths", p) EXCEPT !.id = r.content]
    /\ UNCHANGED <<readRows, readClasses, readWrites>>

paths_of_content ==
    /\ readCall.stage = "reading" /\ readCall.op = "paths"
    /\ readCall' = Replied(readCall,
          {[path |-> r.path, content |-> r.content] :
              r \in {s \in readRows : s.content = readCall.id /\ readable(s.path)}})
    /\ UNCHANGED <<readRows, readClasses, readWrites>>

ReadAnswered ==
    /\ readCall.stage = "replied"
    /\ readCall' = NoRead
    /\ UNCHANGED <<readRows, readClasses, readWrites>>

ReadNext ==
    \/ \E p \in ReadSpellings :
          \/ \E class \in {"plain", "secret"} : CommitCreate(p, class)
          \/ \E r \in readRows : CommitAlias(r, p)
    \/ \E r \in readRows :
          \/ CommitDelete(r)
          \/ \E class \in {"plain", "secret"} : CommitReclassify(r, class)
    \/ \E p \in ReadSelections : list_values(p) \/ get_sub_tree(p) \/ list_value_paths(p)
    \/ listed_values
    \/ paths_of_content
    \/ ReadAnswered

-----------------------------------------------------------------------------
(* Everything a reply reports is readable by the caller and was stored, at that
   path and for that content, at some moment of the call; an alias reported
   beside a value was a path of that same value, whichever value its path held
   before or after; nothing that stood through the whole call is missing; a
   secret is masked; and an ancestor is spelled as the earliest readable row
   below it spells it.  list_values and list_value_paths, which read twice. *)
RepliesAreFaithful ==
    readCall.stage = "replied" =>
        LET Held(p, id) == \E r \in readCall.held : r.path = p /\ r.content = id
            Below(r) == CASE readCall.op = "list" -> parent_path(fold(r.path)) = fold(readCall.path)
                          [] readCall.op = "tree" -> is_at_or_below(r.path, readCall.path)
                          [] readCall.op = "paths" -> r.content = readCall.id
        IN  /\ \A v \in readCall.reply :
                  /\ readable(v.path) /\ Held(v.path, v.content)
                  /\ readCall.op # "paths" =>
                        /\ v.class = "secret" <=> v.shown = "masked"
                        /\ \A a \in v.aliases :
                              readable(a) /\ Held(a, v.content) /\ ~ path_eq(a, v.path)
            /\ \A r \in readCall.steady : readable(r.path) /\ Below(r) =>
                  \E v \in readCall.reply :
                     /\ v.path = r.path /\ v.content = r.content
                     /\ readCall.op = "list" =>
                           \A s \in readCall.steady :
                              s.content = r.content /\ s # r /\ readable(s.path)
                                 => s.path \in v.aliases
            /\ \A e \in readCall.spaces :
                  \E r \in readCall.groups :
                     /\ e.fold \in ancestors(fold(r.path))
                     /\ e.display = SubSeq(r.path, 1, Len(e.fold))
                     /\ \A s \in readCall.groups :
                           e.fold \in ancestors(fold(s.path)) => r.created <= s.created
=============================================================================
