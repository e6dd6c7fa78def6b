------------------------------ MODULE WebPages ------------------------------
(***************************************************************************)
(* The browser page: its route, what each view shows, and the user actions *)
(* that load and change them (sovereign-config-web: route, configuration,  *)
(* connections, tree, value_rows, shell, lib).                             *)
(*                                                                         *)
(* A user action is a plan of steps.  A step runs until it awaits the      *)
(* service and goes on with the answer, and any other action may run in    *)
(* between.  A load remembers the generation it began with; here a task    *)
(* counts how often that generation was bumped by others since it began    *)
(* (0, 1, or 2 for more), which is all the code compares.                  *)
(*                                                                         *)
(* Whether a request is sent is decided by the slot the tokens are in      *)
(* (TOKENS), not by what the page says of the session: a refresh takes     *)
(* them out of it and puts new ones back, logout or no logout.             *)
(***************************************************************************)
EXTENDS Integers, Sequences

CONSTANTS
  PageTasks,       \* user actions in flight at once
  PagePaths,       \* configuration paths there is a route for
  PageFirst,       \* routes a page may be opened at
  PageMaxActions,  \* bound: requests the user makes in a behaviour
  PageMaxRefreshes \* bound: access tokens that expire in a behaviour

VARIABLES
  page,            \* what is on the page; `text` is JSON as loaded, `typed` as edited
  pageTask,        \* the actions in flight
  pageActions      \* how many there have been

pageVars == <<page, pageTask, pageActions>>

\* Route; an audit route is one here whatever it is the trail of.
PageRoutes == PagePaths \cup {"connections", "downloads", "audit"}

\* Nothing is shown yet, and the page's start is about to load it.  `dialog` is the confirmation on
\* screen and `armed` says that its target has not been taken by a confirmation yet; `slot` says
\* that TOKENS holds any, `refreshes` how many more access tokens expire, and `revived` that
\* a refresh filled the slot after logout.
BlankPage(first, refreshes) ==
  [route |-> first, logged |-> TRUE, slot |-> TRUE, refreshes |-> refreshes, revived |-> FALSE, json |-> FALSE,
   rows |-> {}, text |-> {}, typed |-> FALSE, edited |-> FALSE, draft |-> "hidden",
   secret |-> {}, tree |-> FALSE, listing |-> FALSE, beneath |-> {}, estate |-> FALSE,
   url |-> {}, leaving |-> {}, minting |-> FALSE, dialog |-> "none", armed |-> FALSE]

\* `token` is what a request under way goes out with: none, one held, or one being
\* refreshed; `left` that the session ended since the credential asked for was made.
NoPlan == [plan |-> <<>>, awaits |-> "none", route |-> "", json |-> FALSE, bumps |-> 0,
           token |-> "none", left |-> FALSE]

\* Everything the route shows, when the page starts and when it is navigated; what
\* a change has to read again.
start_views == <<"configuration", "connections", "audit", "tree">>
refresh_views == <<"configuration", "connections", "downloads", "audit", "tree">>
reload_configuration == <<"configuration", "tree">>

PageInit ==
  /\ page \in {BlankPage(route, n) : route \in PageFirst, n \in 0..PageMaxRefreshes}
  /\ pageTask = [t \in PageTasks |->
       IF t = (CHOOSE u \in PageTasks : TRUE)
       THEN [NoPlan EXCEPT !.plan = start_views, !.awaits = "spawned"] ELSE NoPlan]
  /\ pageActions = 0

----------------------------------------------------------------------------
\* The pieces.  `w` is the whole world, [page, task]: a step is a function of it,
\* because one answer runs on through several steps before the next await.

World == [page |-> page, task |-> pageTask]
Becomes(w) == page' = w.page /\ pageTask' = w.task

Configuration(w) == w.page.route \in PagePaths

\* Everyone who remembers one of these generations sees it move.
Bumped(w, t, generation) ==
  [w EXCEPT !.task = [u \in PageTasks |->
     IF u # t /\ w.task[u].awaits \in generation
     THEN [w.task[u] EXCEPT !.bumps = IF @ < 2 THEN @ + 1 ELSE 2]
     ELSE w.task[u]]]

ConfigurationLoads == {"configuration", "reveal"}
ConnectionLoads == {"connections"}
TreeLoads == {"tree"}

hide_new_value_row(w) == [w EXCEPT !.page.draft = "hidden"]

\* A padlock that goes with its row goes with what it had revealed.
clear_value_rows(w) == [w EXCEPT !.page.rows = {}, !.page.edited = FALSE, !.page.secret = {}]

set_loaded_textarea(w, read) == [w EXCEPT !.page.text = read, !.page.typed = FALSE]

clear_values(w) == set_loaded_textarea(clear_value_rows(hide_new_value_row(w)), {})

update_configuration_mode(w) == IF w.page.json THEN hide_new_value_row(w) ELSE w

lock_all_secret_fields(w) == [w EXCEPT !.page.secret = {}]

\* An error shuts every padlock, the new row's among them.
show_error(w) == lock_all_secret_fields(w)

\* The session is left while the connections are read again for a credential just
\* made, before its URL is shown.
Left(w) ==
  [w EXCEPT !.task = [u \in PageTasks |->
     LET task == w.task[u]
     IN IF task.awaits = "connections" /\ task.plan # <<>> /\ Head(task.plan) = "url"
        THEN [task EXCEPT !.left = TRUE] ELSE task]]

has_unsaved_edits(w) == w.page.draft = "filled" \/ w.page.edited \/ w.page.typed

\* The table under a path's values lists the connections rooted there.
render_path_connections(w) ==
  IF Configuration(w)
  THEN [w EXCEPT !.page.beneath = IF w.page.listing THEN {w.page.route} ELSE {}]
  ELSE w

Awaiting(w, t, step) ==
  [w EXCEPT !.task[t].awaits = step, !.task[t].bumps = 0, !.task[t].token = "none",
            !.task[t].route = IF step \in ConfigurationLoads THEN w.page.route ELSE "",
            !.task[t].json = step = "configuration" /\ w.page.json]

\* A request begins with MemoryAuthentication::access_token, which takes the tokens
\* out of their slot: `access` says whether they are "good", to be refreshed
\* ("stale"), or past that ("over").
page_access_token(w, t, access) ==
  IF ~w.page.slot THEN w
  ELSE IF access = "good"
  THEN [w EXCEPT !.task[t].token = "held"]
  ELSE [w EXCEPT !.page.slot = FALSE, !.page.refreshes = @ - 1,
                 !.task[t].token = IF access = "stale" THEN "refreshing" ELSE "none"]

Asking(w, t, step, access) == page_access_token(Awaiting(w, t, step), t, access)

load_current_configuration(w, t, access) ==
  LET cleared == clear_values(Bumped(w, t, ConfigurationLoads))
  IN IF Configuration(w)
     THEN Asking(update_configuration_mode(cleared), t, "configuration", access)
     ELSE cleared

load_current_connections(w, t, access) ==
  LET bumped == [Bumped(w, t, ConnectionLoads) EXCEPT !.task[t].bumps = 0]
  IN IF w.page.route = "connections"
     THEN Asking([bumped EXCEPT !.page.estate = FALSE], t, "connections", access)
     ELSE bumped

\* The installers are public: no token is asked for.
load_downloads(w, t) == IF w.page.route = "downloads" THEN Awaiting(w, t, "downloads") ELSE w

\* logged_in: while the tokens are out of their slot, being refreshed, the page
\* takes itself to be logged out.
load_tree(w, t, access) ==
  LET bumped == Bumped(w, t, TreeLoads)
  IN IF w.page.slot
     THEN Asking(bumped, t, "tree", access)
     ELSE render_path_connections([bumped EXCEPT !.page.listing = FALSE, !.page.tree = FALSE])

\* Mutant: the URL is shown whatever became of the page during the reload.
OpenRegardless(w, t) ==
  [w EXCEPT !.page.url = {[left |-> w.task[t].left]}, !.task[t].left = FALSE]

open_connection_url_dialog(w, t) ==
  IF w.task[t].bumps = 0
  THEN [w EXCEPT !.page.url = {[left |-> w.task[t].left]}, !.task[t].left = FALSE]
  ELSE [w EXCEPT !.task[t].left = FALSE]

\* One step of a plan.  A request of the service has no effect on the page until
\* it is answered.  load_audit awaits nothing: its fetch is WebAudit's.
Advance(w, t, access) ==
  IF w.task[t].awaits # "none" \/ w.task[t].plan = <<>> THEN w
  ELSE LET step == Head(w.task[t].plan)
           rest == [w EXCEPT !.task[t].plan = Tail(@)]
       IN CASE step = "configuration" -> load_current_configuration(rest, t, access)
            [] step = "connections" -> load_current_connections(rest, t, access)
            [] step = "downloads" -> load_downloads(rest, t)
            [] step = "audit" -> rest
            [] step = "tree" -> load_tree(rest, t, access)
            [] step = "url" -> open_connection_url_dialog(rest, t)
            [] step = "error" -> show_error(rest)
            [] OTHER -> Asking(rest, t, step, access)

\* On until the next await, or the end: no plan has more steps than five.
Continue(w, t, access) ==
  LET Step(v) == Advance(v, t, access)
      ran == Step(Step(Step(Step(Step(w)))))
  IN IF ran.task[t].awaits = "none" /\ ran.task[t].plan = <<>>
     THEN [ran EXCEPT !.task[t] = NoPlan]
     ELSE ran

----------------------------------------------------------------------------
\* Answers.

\* A rendered listing replaces the rows and puts the new value's row away.
render_listing(w, route) == [hide_new_value_row(clear_value_rows(w)) EXCEPT !.page.rows = {route}]

\* load_configuration after its read: the generation must be the one it began.
configuration_answered(w, t, ok) ==
  LET read == w.task[t]
  IN IF read.bumps # 0 THEN w
     ELSE IF ~ok THEN show_error(w)
     ELSE IF read.json THEN set_loaded_textarea(w, {read.route})
     ELSE render_listing(w, read.route)

connections_answered(w, t, ok) ==
  IF w.task[t].bumps # 0 \/ w.page.route # "connections" THEN w
  ELSE IF ok THEN [w EXCEPT !.page.estate = TRUE] ELSE show_error(w)

\* A failed connection listing keeps the last good one; so does a failed tree.
tree_answered(w, t, listed, drawn) ==
  IF w.task[t].bumps # 0 THEN w
  ELSE render_path_connections([w EXCEPT !.page.listing = @ \/ listed, !.page.tree = @ \/ drawn])

reveal_answered(w, t, ok) ==
  IF w.task[t].bumps # 0 \/ w.page.route # w.task[t].route THEN w
  ELSE IF ok THEN [w EXCEPT !.page.secret = {w.task[t].route}] ELSE show_error(w)

\* Whichever confirmation of that kind is on screen by then is closed.
close_dialog(w, kind) ==
  IF w.page.dialog = kind THEN [w EXCEPT !.page.dialog = "none", !.page.armed = FALSE] ELSE w

\* A refused change stops its plan at the message, except that a failed rotation or
\* revocation shows what the service now holds first.
change_answered(w, t, ok) ==
  LET closed == close_dialog(w, w.task[t].awaits)
  IN IF ok THEN closed ELSE [closed EXCEPT !.task[t].plan = <<"error">>]

mint_answered(w, t, ok) ==
  LET done == [close_dialog(w, w.task[t].awaits) EXCEPT !.page.minting = FALSE]
  IN IF ok THEN done
     ELSE [done EXCEPT !.task[t].plan =
             CASE w.task[t].awaits = "create" -> <<"error">>
               [] w.task[t].awaits = "rotate" -> <<"connections", "error">>
               [] OTHER -> <<"connections", "tree", "error">>]

\* access_token, after refresh_tokens: new tokens go into the slot, and so do the
\* old ones when the provider could not be asked, whatever happened to the session.
tokens_refreshed(t, outcome) ==
  /\ pageTask[t].token = "refreshing"
  /\ LET filled == outcome \in {"refreshed", "unavailable"}
     IN Becomes([World EXCEPT !.page.slot = @ \/ filled,
                              !.page.revived = @ \/ (filled /\ ~page.logged),
                              !.task[t].token = IF outcome = "refreshed" THEN "held" ELSE "none"])
  /\ UNCHANGED pageActions

\* A request made without a token fails before it is sent.  `drawn` matters to a
\* tree alone, `access` to the next request.
Answer(t, ok, access, drawn) ==
  /\ pageTask[t].awaits \notin {"none", "spawned"} /\ pageTask[t].token # "refreshing"
  /\ ok \/ drawn => pageTask[t].token = "held"
  /\ drawn => pageTask[t].awaits = "tree"
  /\ LET step == pageTask[t].awaits
         applied == CASE step = "configuration" -> configuration_answered(World, t, ok)
                      [] step = "connections" -> connections_answered(World, t, ok)
                      [] step = "tree" -> tree_answered(World, t, ok, drawn)
                      [] step = "downloads" -> World
                      [] step = "reveal" -> reveal_answered(World, t, ok)
                      [] step \in {"save", "delete", "alias"} -> change_answered(World, t, ok)
                      [] OTHER -> mint_answered(World, t, ok)
     IN Becomes(Continue([applied EXCEPT !.task[t].awaits = "none", !.task[t].token = "none"], t, access))
  /\ UNCHANGED pageActions

\* spawn_local only queues the action; it first runs once its handler is done.
spawn_local(w, t, plan) == [w EXCEPT !.task[t] = [NoPlan EXCEPT !.plan = plan, !.awaits = "spawned"]]

FirstPoll(t, access) ==
  /\ pageTask[t].awaits = "spawned"
  /\ Becomes(Continue([World EXCEPT !.task[t].awaits = "none"], t, access))
  /\ UNCHANGED pageActions

----------------------------------------------------------------------------
\* The user.  A dialog on screen is modal: nothing behind it can be reached, except
\* that Back and Forward are the browser's own.

Within == page.leaving = {} /\ page.url = {} /\ pageActions < PageMaxActions
Ready == Within /\ page.dialog = "none"

\* Which of the idle places an action takes makes no difference.
Act(t, w, plan) ==
  /\ pageTask[t] = NoPlan
  /\ t = CHOOSE u \in PageTasks : pageTask[u] = NoPlan
  /\ pageActions < PageMaxActions
  /\ pageActions' = pageActions + 1
  /\ Becomes(spawn_local(w, t, plan))

\* A touch of the page itself asks the service for nothing, and is not counted.
Touch(w) ==
  /\ Becomes(w)
  /\ UNCHANGED pageActions

\* render_route shows the new route's page and redraws what is held for it.
render_route(w, route) == render_path_connections([w EXCEPT !.page.route = route])

navigate_with(t, route) ==
  Act(t, render_route([World EXCEPT !.page.url = {}, !.page.leaving = {}], route), refresh_views)

open_unsaved_dialog(route) == Touch([World EXCEPT !.page.leaving = {route}])

\* A link, a tree node and the path selector ask before an unsaved edit is torn down.
guarded_navigate(t, route) ==
  /\ Ready
  /\ IF has_unsaved_edits(World) THEN open_unsaved_dialog(route) ELSE navigate_with(t, route)

\* Back and Forward cannot be refused: the address is put back first, and the same
\* question asked.
popstate(t, route) ==
  /\ pageActions < PageMaxActions
  /\ IF has_unsaved_edits(World) THEN open_unsaved_dialog(route) ELSE navigate_with(t, route)

keep_editing ==
  /\ page.leaving # {}
  /\ Touch([World EXCEPT !.page.leaving = {}])

discard_changes(t) == \E route \in page.leaving : navigate_with(t, route)

toggle_json_mode(t) ==
  Ready /\ Act(t, update_configuration_mode([World EXCEPT !.page.json = ~@]), <<"configuration">>)

\* Typing into the JSON editor disowns the load that is filling it.
edit_json ==
  /\ Ready /\ page.json /\ page.route \in PagePaths
  /\ Touch([Bumped(World, "nobody", ConfigurationLoads) EXCEPT !.page.text = {}, !.page.typed = TRUE])

edit_row ==
  Ready /\ page.rows # {} /\ Touch([World EXCEPT !.page.edited = TRUE])

\* Shown, filled in, and put away again.
show_new_value_row ==
  /\ Ready /\ ~page.json /\ page.route \in PagePaths
  /\ Touch([World EXCEPT !.page.draft = "empty"])
edit_new_value ==
  Ready /\ page.draft = "empty" /\ Touch([World EXCEPT !.page.draft = "filled"])
cancel_new_value ==
  Ready /\ page.draft # "hidden" /\ Touch(hide_new_value_row(World))

\* What fails its validation is not sent and changes nothing here.
save_json_subtree(t) ==
  /\ Ready /\ page.json /\ (page.typed \/ page.text # {})
  /\ Act(t, World, <<"save">> \o reload_configuration)
save_new_value(t) ==
  Ready /\ page.draft = "filled" /\ Act(t, World, <<"save">> \o reload_configuration)
save_existing_value(t) ==
  Ready /\ page.rows # {} /\ Act(t, World, <<"save">> \o reload_configuration)

\* The field is emptied before the request goes out, which makes an edit of a
\* revealed one; an empty field is refused on the spot.
save_existing_secret(t) ==
  /\ Ready /\ page.rows # {}
  /\ IF page.edited \/ page.secret # {}
     THEN Act(t, [World EXCEPT !.page.edited = TRUE], <<"save">> \o reload_configuration)
     ELSE Touch(show_error(World))

\* The field is locked as soon as its reveal begins.
lock_secret_field(w) == [w EXCEPT !.page.secret = {}]
reveal_existing_secret(t) ==
  Ready /\ page.rows # {} /\ Act(t, lock_secret_field(World), <<"reveal">>)
close_padlock ==
  Ready /\ page.secret # {} /\ Touch(lock_secret_field(World))

\* The confirmations.  Confirming takes the target, so that a second click asks for
\* nothing; the dialog stays until the answer, and may be put away before it.
Opens(kind) == Touch([World EXCEPT !.page.dialog = kind, !.page.armed = TRUE])
row_actions == Ready /\ page.rows # {}
connection_row == Ready /\ IF page.route \in PagePaths THEN page.beneath # {} ELSE page.estate

open_delete == row_actions /\ Opens("delete")
open_add_path == row_actions /\ Opens("alias")
open_create_connection == Ready /\ Opens("create")
open_connection_dialog ==
  /\ connection_row
  /\ \E kind \in {"rotate", "revoke"} : Opens(kind)
cancel_dialog ==
  Within /\ page.dialog # "none" /\ Touch(close_dialog(World, page.dialog))

Confirmed(kind) == Within /\ page.dialog = kind /\ page.armed
Taken == [World EXCEPT !.page.armed = FALSE]

delete_selected_value(t) ==
  Confirmed("delete") /\ Act(t, Taken, <<"delete">> \o reload_configuration)
add_selected_path(t) ==
  Confirmed("alias") /\ Act(t, Taken, <<"alias">> \o reload_configuration)

\* Create, rotate and revoke exclude one another.
create_connection(t) ==
  /\ Confirmed("create") /\ ~page.minting
  /\ Act(t, [Taken EXCEPT !.page.minting = TRUE], <<"create", "connections", "url", "tree">>)
rotate_connection(t) ==
  /\ Confirmed("rotate") /\ ~page.minting
  /\ Act(t, [Taken EXCEPT !.page.minting = TRUE], <<"rotate", "connections", "url", "tree">>)
revoke_connection(t) ==
  /\ Confirmed("revoke") /\ ~page.minting
  /\ Act(t, [Taken EXCEPT !.page.minting = TRUE], <<"revoke", "connections", "tree">>)

discard_connection_url ==
  page.leaving = {} /\ page.url # {} /\ Touch([World EXCEPT !.page.url = {}])

\* The logout handler disowns every load in flight, empties every view and the slot.
logout_page ==
  /\ page.logged /\ page.leaving = {} /\ page.url = {} /\ page.dialog = "none"
  /\ LET disowned == Bumped(World, "nobody", ConfigurationLoads \cup ConnectionLoads \cup TreeLoads)
         emptied == clear_values(disowned)
     IN Touch([Left(emptied) EXCEPT !.page.logged = FALSE, !.page.slot = FALSE, !.page.url = {}, !.page.estate = FALSE,
                                    !.page.beneath = {}, !.page.listing = FALSE, !.page.tree = FALSE])

\* The handlers the page installs.
install_configuration_actions(t) ==
  \/ toggle_json_mode(t)
  \/ save_json_subtree(t)
  \/ save_new_value(t)
  \/ delete_selected_value(t)
  \/ add_selected_path(t)

render_value_row(t) ==
  \/ save_existing_value(t)
  \/ save_existing_secret(t)
  \/ reveal_existing_secret(t)

install_connections_actions(t) ==
  \/ create_connection(t)
  \/ rotate_connection(t)
  \/ revoke_connection(t)

\* What may be found of the tokens in the slot.
Accesses == IF page.slot /\ page.refreshes > 0 THEN {"good", "stale", "over"} ELSE {"good"}

PageNext ==
  \/ \E t \in PageTasks :
       \/ \E ok, drawn \in BOOLEAN, access \in Accesses : Answer(t, ok, access, drawn)
       \/ \E access \in Accesses : FirstPoll(t, access)
       \/ \E outcome \in {"refreshed", "unavailable", "rejected"} : tokens_refreshed(t, outcome)
       \/ \E route \in PageRoutes : guarded_navigate(t, route)
       \/ \E route \in PageRoutes : popstate(t, route)
       \/ discard_changes(t)
       \/ install_configuration_actions(t)
       \/ render_value_row(t)
       \/ install_connections_actions(t)
  \/ keep_editing
  \/ edit_json
  \/ edit_row
  \/ show_new_value_row
  \/ edit_new_value
  \/ cancel_new_value
  \/ open_delete
  \/ open_add_path
  \/ open_create_connection
  \/ open_connection_dialog
  \/ cancel_dialog
  \/ close_padlock
  \/ discard_connection_url
  \/ logout_page

----------------------------------------------------------------------------
\* An action that was clicked has not run its first step yet.
Settled == \A t \in PageTasks : pageTask[t].awaits # "spawned"

\* What is read is of the route and of the session it is shown under.
ShownWhereItBelongs ==
  /\ page.rows \cup page.text \cup page.secret \subseteq {page.route}
  /\ page.route \in PagePaths => page.beneath \subseteq {page.route}
  /\ ~page.logged /\ ~page.revived =>
        /\ page.rows = {} /\ page.text = {} /\ page.secret = {} /\ page.beneath = {}
        /\ ~page.estate /\ ~page.tree
  /\ \A url \in page.url : ~url.left

\* A load that begins clears what was typed, so text that an answer puts in its
\* place was typed after that answer was asked for.
KeepsWhatWasTyped == page.typed => page'.text = {}

\* docs/web-ui.md:11: what is on the page belongs to the route in its address and to
\* the session it was read under, whatever order answers come in.  Values, JSON text
\* and a revealed secret were read for the path shown, and no answer replaces text
\* typed since it was asked for.  After logout nothing that was read is on the page,
\* unless a refresh under way at logout put its tokens back (access_token; the run
\* WebLogout shows it), and no one-time URL opens whose credential had been made
\* by then (load_current_configuration, load_current_connections, load_tree,
\* reveal_existing_secret, create_connection, the logout handler).
ViewsShowTheirRoute ==
  [](Settled => ShownWhereItBelongs) /\ [][KeepsWhatWasTyped]_pageVars
=============================================================================
