------------------------------ MODULE WebAudit ------------------------------
(***************************************************************************)
(* The audit view's endless list (sovereign-config-web: audit).  The feed  *)
(* decides which page may be asked for and which reply may be drawn; the   *)
(* route, the filter form, the observer under the last row and the retry   *)
(* button ask it.                                                          *)
(***************************************************************************)
EXTENDS Integers, Sequences, FiniteSets

CONSTANTS
  FeedForms,       \* what the filter form may hold
  FeedPages,       \* bound: pages of one query's answer
  FeedMaxRestarts  \* bound: queries begun or abandoned

VARIABLES
  feed,            \* the AuditFeed
  feedRows,        \* the pages drawn, in order
  feedFlights,     \* requests: [generation, query, cursor]
  feedView         \* [mode, due, shown, form, armed]

feedCells == <<feed, feedRows, feedFlights, feedView>>

KindGroups == {"changes", "secrets", "connections", "reads"}
FeedModes == {"whole", "value"}

\* Which boxes are ticked when a mode is first shown.
shown_by_default(mode) == IF mode = "value" THEN KindGroups ELSE KindGroups \ {"reads"}

\* build_query: each text is "" (no filter), "fits" or "refused".  A value's history
\* ignores the path field; every group ticked is spelt as no restriction.
filter_errors(mode, form) ==
  {field \in {"text", "actor", "protocol"} : form[field] = "refused"}
    \cup (IF mode = "whole" /\ form.path = "refused" THEN {"path"} ELSE {})
    \cup (IF form.backwards THEN {"until"} ELSE {})
    \cup (IF form.groups = {} THEN {"kinds"} ELSE {})

build_query(mode, form) ==
  [mode |-> mode, path |-> IF mode = "value" THEN "" ELSE form.path, text |-> form.text,
   actor |-> form.actor, protocol |-> form.protocol,
   kinds |-> IF form.groups = KindGroups THEN {} ELSE form.groups]

NoQuery == build_query("whole", [path |-> "", text |-> "", actor |-> "", protocol |-> "", groups |-> {}])

FeedInit ==
  /\ feed = [generation |-> 0, active |-> FALSE, query |-> NoQuery, cursor |-> 1, more |-> FALSE,
             state |-> "idle", counted |-> {}]
  /\ feedRows = <<>>
  /\ feedFlights = {}
  /\ feedView = [mode |-> "off", due |-> 0, shown |-> "none", armed |-> FALSE,
                 form |-> CHOOSE form \in FeedForms : form.groups = shown_by_default("whole")]

\* A page is named by its place in the query's answer, as its cursor does.
request_page == [generation |-> feed'.generation, query |-> feed'.query, cursor |-> feed'.cursor]

restart(query) ==
  /\ feed.generation < FeedMaxRestarts
  /\ feed' = [generation |-> feed.generation + 1, active |-> TRUE, query |-> query, cursor |-> 1,
              more |-> FALSE, state |-> "loading", counted |-> {}]

\* The old rows go before the new query's first page is asked for.
start_feed(query) ==
  /\ restart(query)
  /\ feedRows' = <<>>
  /\ feedFlights' = feedFlights \cup {request_page}

invalidate ==
  /\ feed.generation < FeedMaxRestarts
  /\ feed' = [feed EXCEPT !.generation = @ + 1, !.active = FALSE, !.cursor = 1, !.more = FALSE,
                          !.state = "idle", !.counted = {}]
  /\ feedRows' = <<>>
  /\ UNCHANGED feedFlights

\* What the form asks for replaces the list; a form the service would refuse
\* empties it.
form_query(mode, form) ==
  IF filter_errors(mode, form) = {} THEN start_feed(build_query(mode, form)) ELSE invalidate

----------------------------------------------------------------------------
\* Navigation changes the route and the form at once: coming to another mode than
\* the last one shown resets the form.  The list follows when refresh_views has got
\* as far as load_audit, which looks at the route again.
reset_filters(mode) ==
  CHOOSE reset \in FeedForms :
    reset.groups = shown_by_default(mode) /\ reset.path = "" /\ reset.text = ""

render_audit_route(mode) ==
  /\ feedView.due < 2
  /\ feedView' = [feedView EXCEPT !.mode = mode, !.due = @ + 1,
       !.shown = IF mode \in FeedModes THEN mode ELSE @,
       !.form = IF mode \notin FeedModes \/ feedView.shown = mode THEN @ ELSE reset_filters(mode)]
  /\ UNCHANGED <<feed, feedRows, feedFlights>>

load_audit ==
  /\ feedView.due > 0
  /\ feedView' = [feedView EXCEPT !.due = @ - 1, !.armed = FALSE]
  /\ IF feedView.mode \in FeedModes THEN form_query(feedView.mode, feedView.form) ELSE invalidate

\* Logging out.
reset_audit ==
  /\ invalidate
  /\ feedView' = [feedView EXCEPT !.armed = FALSE]

\* The list already shows this query, loaded or loading.
is_showing(query) == feed.active /\ feed.state # "failed" /\ feed.query = query

apply_filters(form) ==
  /\ feedView.mode # "off"
  /\ IF filter_errors(feedView.mode, form) = {} /\ is_showing(build_query(feedView.mode, form))
     THEN feedView' = [feedView EXCEPT !.form = form] /\ UNCHANGED <<feed, feedRows, feedFlights>>
     ELSE form_query(feedView.mode, form) /\ feedView' = [feedView EXCEPT !.form = form, !.armed = FALSE]

\* The observer sees the sentinel below the last row.
advance ==
  /\ feedView.armed
  /\ feed.active /\ feed.state = "idle" /\ feed.more
  /\ feed' = [feed EXCEPT !.state = "loading"]
  /\ feedFlights' = feedFlights \cup {request_page}
  /\ UNCHANGED <<feedRows, feedView>>

retry ==
  /\ feed.active /\ feed.state = "failed"
  /\ feed' = [feed EXCEPT !.state = "loading"]
  /\ feedFlights' = feedFlights \cup {request_page}
  /\ UNCHANGED <<feedRows, feedView>>

----------------------------------------------------------------------------
\* A reply, drawn if it is still the one awaited.  `outcome` is "more", "last", or
\* "failed": a page that could not be fetched, or not be drawn.
is_current(asked) == feed.active /\ asked.generation = feed.generation /\ feed.state = "loading"

settle(asked, outcome) ==
  feed' = IF outcome = "failed" THEN [feed EXCEPT !.state = "failed"]
          ELSE [feed EXCEPT !.state = IF outcome = "more" THEN "idle" ELSE "ended",
                            !.more = outcome = "more", !.cursor = asked.cursor + 1,
                            !.counted = IF asked.cursor = 1 THEN {asked.query} ELSE @]

append_events(asked) == Append(feedRows, [query |-> asked.query, page |-> asked.cursor])

Drawn(asked, outcome) ==
  /\ settle(asked, outcome)
  /\ feedRows' = IF outcome = "failed" THEN feedRows ELSE append_events(asked)
  /\ feedView' = [feedView EXCEPT !.armed = outcome = "more"]

\* Mutant: a reply is drawn while any is awaited.
DrawnWhenActive(asked, outcome) ==
  /\ asked \in feedFlights
  /\ outcome = "more" => asked.cursor < FeedPages
  /\ feedFlights' = feedFlights \ {asked}
  /\ IF feed.active /\ feed.state = "loading" THEN Drawn(asked, outcome) ELSE UNCHANGED <<feed, feedRows, feedView>>

fetch_page(asked, outcome) ==
  /\ asked \in feedFlights
  /\ outcome = "more" => asked.cursor < FeedPages
  /\ feedFlights' = feedFlights \ {asked}
  /\ IF is_current(asked) THEN Drawn(asked, outcome) ELSE UNCHANGED <<feed, feedRows, feedView>>

FeedNext ==
  \/ \E mode \in FeedModes \cup {"off"} : render_audit_route(mode)
  \/ load_audit
  \/ reset_audit
  \/ \E form \in FeedForms : apply_filters(form)
  \/ advance
  \/ retry
  \/ \E asked \in feedFlights, outcome \in {"more", "last", "failed"} : fetch_page(asked, outcome)

FeedSpec == FeedInit /\ [][FeedNext]_feedCells

----------------------------------------------------------------------------
\* The guarantees AuditFeed's documentation makes for the list, over replies in any
\* order: the rows are the current query's pages from the first on, none missing or
\* repeated; at most one reply can still be drawn, and it is the page that follows
\* the rows; a list with more to show is being watched; after the last page, and
\* when no list is shown, nothing is awaited.
AuditListIsItsQuery ==
  LET awaited == {asked \in feedFlights : is_current(asked)}
  IN /\ feedRows = [i \in 1..Len(feedRows) |-> [query |-> feed.query, page |-> i]]
     /\ feed.active => feed.cursor = Len(feedRows) + 1
     /\ ~feed.active => feedRows = <<>>
     /\ feed.counted \subseteq {feed.query}
     /\ feed.active /\ feed.state = "loading" => \E asked \in feedFlights : awaited = {asked}
     /\ ~(feed.active /\ feed.state = "loading") => awaited = {}
     /\ \A asked \in awaited : asked.query = feed.query /\ asked.cursor = Len(feedRows) + 1
     /\ feed.active /\ feed.more /\ feed.state = "idle" => feedView.armed
     /\ feed.active /\ feedView.due = 0 => feed.query.mode = feedView.mode
=============================================================================
