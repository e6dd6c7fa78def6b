----------------------------- MODULE WebSession -----------------------------
(***************************************************************************)
(* The browser's login: the PKCE redirect, the tokens held in memory, the  *)
(* refresh token kept in the tab's session storage, and what every         *)
(* authenticated call does to have an access token                         *)
(* (sovereign-config-web: session, transport, browser, lib).               *)
(*                                                                         *)
(* The page is one thread, but each user action is a future of its own:    *)
(* while one awaits the identity provider, others run.  Leaving the page   *)
(* drops them all; session storage survives.                               *)
(***************************************************************************)
EXTENDS Integers, FiniteSets

CONSTANTS
  WebTasks,       \* user actions that may be in flight at once
  WebMaxLogins, WebMaxTokens, WebMaxActions

VARIABLES
  webTokens,      \* TOKENS: {} or one record [login, refresh, fresh]
  webStorage,     \* session storage: [refresh, pkce], each {} or one item
  webTask,        \* each action: [stage, kind, held, got]
  webPage,        \* "open", or "away" at the identity provider
  webProvider,    \* [issued, live, spent, codes, ended, logins]
  webPast         \* what has happened: "lost", "reused", "logout"

webVars == <<webTokens, webStorage, webTask, webPage, webProvider, webPast>>

NoTask == [stage |-> "idle", kind |-> "none", held |-> {}, got |-> {}]

WebInit ==
  /\ webTokens = {}
  /\ webStorage = [refresh |-> {}, pkce |-> {}]
  /\ webTask = [t \in WebTasks |-> NoTask]
  /\ webPage = "away"
  /\ webProvider = [issued |-> 0, live |-> {}, spent |-> {}, states |-> 0, codes |-> {},
                    ended |-> {}, logins |-> 0, actions |-> 0]
  /\ webPast = {}

Stage(t, stage) == webTask' = [webTask EXCEPT ![t].stage = stage]
Hold(t, stage, tokens) == webTask' = [webTask EXCEPT ![t].stage = stage, ![t].held = tokens]
Ends(t) == webTask' = [webTask EXCEPT ![t] = NoTask]
InStage(t, stage) == webPage = "open" /\ webTask[t].stage = stage

Refreshing == {t \in WebTasks : webTask[t].stage \in {"refreshing", "rotated", "refused"}}

\* Everything in memory goes with the page.  A refresh token the provider may
\* already have replaced is lost with it.
PageDropped ==
  webPast' = IF Refreshing # {} THEN webPast \cup {"lost"} ELSE webPast

----------------------------------------------------------------------------
\* Coming and going.

\* restore_tokens: the stored refresh token, with no access token, unless its
\* eight hours are over, when it is removed.
Restorable == {kept \in webStorage.refresh : kept.login \notin webProvider.ended}
restore_tokens == {[login |-> kept.login, refresh |-> kept.refresh, fresh |-> FALSE] : kept \in Restorable}

\* Loading the page.  `returned` is the state parameter of an OIDC callback, if the
\* URL is one.  A callback whose state this tab still expects goes on to exchange
\* its code; the stored state and verifier are consumed either way.
start(t, returned) ==
  /\ webProvider.actions < WebMaxActions
  /\ PageDropped
  /\ webPage' = "open"
  /\ webTokens' = restore_tokens
  /\ webTask' = [u \in WebTasks |->
       IF u # t THEN NoTask
       ELSE [stage |-> IF returned # {} /\ returned = webStorage.pkce THEN "exchange" ELSE "open",
             kind |-> "status", held |-> returned, got |-> {}]]
  /\ webStorage' = [refresh |-> Restorable,
                    pkce |-> IF returned = {} THEN webStorage.pkce ELSE {}]
  /\ webProvider' = [webProvider EXCEPT !.actions = @ + 1]

\* begin_login: remember a fresh state and verifier, and leave for the provider,
\* which will return to this tab with a code for that state.
begin_login ==
  /\ webPage = "open"
  /\ webProvider.logins < WebMaxLogins
  /\ webPage' = "away"
  /\ PageDropped
  /\ webTask' = [t \in WebTasks |-> NoTask]
  /\ webProvider' = [webProvider EXCEPT !.states = @ + 1, !.logins = @ + 1, !.codes = @ \cup {webProvider.states + 1}]
  /\ webStorage' = [webStorage EXCEPT !.pkce = {webProvider.states + 1}]
  /\ webTokens' = {}

\* persist_refresh_token: the pair's refresh token and its login's end.
persist_refresh_token(pair) ==
  webStorage' = [webStorage EXCEPT !.refresh =
                   {[login |-> tokens.login, refresh |-> tokens.refresh] : tokens \in pair}]

\* finish_login: the code buys a first pair of tokens, which replace whatever the
\* tab holds; a refusal or an unreachable provider leaves it as it is.
finish_login(t, ok) ==
  /\ InStage(t, "exchange")
  /\ Stage(t, "open")
  /\ LET code == webTask[t].held
         token == webProvider.issued + 1
     IN IF ok /\ code \subseteq webProvider.codes
        THEN /\ webProvider.issued < WebMaxTokens
             /\ webProvider' = [webProvider EXCEPT !.issued = token, !.live = @ \cup {token},
                                                   !.codes = @ \ code]
             /\ webTokens' = {[login |-> webProvider.logins, refresh |-> token, fresh |-> TRUE]}
             /\ persist_refresh_token(webTokens')
             /\ webPast' = webPast \ {"logout"}
        ELSE UNCHANGED <<webTokens, webStorage, webProvider, webPast>>
  /\ UNCHANGED webPage

clear_persisted_refresh_token == webStorage' = [webStorage EXCEPT !.refresh = {}]

clear_browser_session ==
  /\ webTokens' = {}
  /\ clear_persisted_refresh_token

logout ==
  /\ webPage = "open"
  /\ clear_browser_session
  /\ webPast' = webPast \cup {"logout"}
  /\ UNCHANGED <<webTask, webPage, webProvider>>

----------------------------------------------------------------------------
\* refresh_status negotiates, then asks who is logged in; any other action calls
\* an operation.  Both begin with access_token.

\* A handshake that fails leaves the session as it is.
Session_open(t) ==
  /\ InStage(t, "open")
  /\ \/ Stage(t, "token")
     \/ Ends(t)
  /\ UNCHANGED <<webTokens, webStorage, webPage, webProvider, webPast>>

value_client(t) ==
  /\ InStage(t, "idle")
  /\ webProvider.actions < WebMaxActions
  /\ webTask' = [webTask EXCEPT ![t] = [stage |-> "token", kind |-> "call", held |-> {}, got |-> {}]]
  /\ webProvider' = [webProvider EXCEPT !.actions = @ + 1]
  /\ UNCHANGED <<webTokens, webStorage, webPage, webPast>>

\* What refresh_status does with "unauthenticated", whoever said it; a view only
\* reports it.
Unauthenticated(t) ==
  /\ Ends(t)
  /\ IF webTask[t].kind = "status"
     THEN clear_browser_session
     ELSE UNCHANGED <<webTokens, webStorage>>

\* Mutant: a refresh leaves the tokens where they are.
AccessTokenBorrowed(t) ==
  /\ InStage(t, "token")
  /\ \/ /\ webTokens = {}
        /\ Unauthenticated(t)
     \/ \E tokens \in webTokens :
          \/ tokens.fresh /\ Stage(t, "calling") /\ UNCHANGED <<webTokens, webStorage>>
          \/ /\ ~tokens.fresh /\ tokens.login \in webProvider.ended
             /\ webTokens' = {} /\ clear_persisted_refresh_token /\ Ends(t)
          \/ /\ ~tokens.fresh /\ tokens.login \notin webProvider.ended
             /\ Hold(t, "refreshing", webTokens) /\ UNCHANGED <<webTokens, webStorage>>
  /\ UNCHANGED <<webPage, webProvider, webPast>>

\* MemoryAuthentication::access_token: the tokens leave their slot for as long as
\* the decision about them takes.
access_token(t) ==
  /\ InStage(t, "token")
  /\ \/ /\ webTokens = {}
        /\ Unauthenticated(t)
     \/ \E tokens \in webTokens :
          \/ tokens.fresh /\ Stage(t, "calling") /\ UNCHANGED <<webTokens, webStorage>>
          \/ /\ ~tokens.fresh /\ tokens.login \in webProvider.ended
             /\ webTokens' = {} /\ clear_persisted_refresh_token /\ Ends(t)
          \/ /\ ~tokens.fresh /\ tokens.login \notin webProvider.ended
             /\ Hold(t, "refreshing", webTokens) /\ webTokens' = {} /\ UNCHANGED webStorage
  /\ UNCHANGED <<webPage, webProvider, webPast>>

\* The provider answers a refresh: it rotates a token it honours, and refuses one
\* it has already replaced or has revoked.
token_endpoint(t) ==
  /\ InStage(t, "refreshing")
  /\ \E tokens \in webTask[t].held :
       IF tokens.refresh \in webProvider.live
       THEN /\ webProvider.issued < WebMaxTokens
            /\ LET token == webProvider.issued + 1
               IN /\ webProvider' = [webProvider EXCEPT !.issued = token,
                       !.live = (@ \ {tokens.refresh}) \cup {token}, !.spent = @ \cup {tokens.refresh}]
                  /\ webTask' = [webTask EXCEPT ![t].stage = "rotated",
                       ![t].got = {[tokens EXCEPT !.refresh = token, !.fresh = TRUE]}]
            /\ UNCHANGED webPast
       ELSE /\ Stage(t, "refused")
            /\ webPast' = IF tokens.refresh \in webProvider.spent THEN webPast \cup {"reused"} ELSE webPast
            /\ UNCHANGED webProvider
  /\ UNCHANGED <<webTokens, webStorage, webPage>>

\* refresh_tokens ends well: the pair is persisted and put back in its slot.
refresh_tokens(t) ==
  /\ InStage(t, "rotated")
  /\ webTokens' = webTask[t].got
  /\ persist_refresh_token(webTask[t].got)
  /\ Stage(t, "calling")
  /\ UNCHANGED <<webPage, webProvider, webPast>>

\* classify_refresh_error: invalid_grant is "unauthenticated", and what is
\* persisted goes; anything else, and no answer at all, is "unavailable", and the
\* tokens that were tried are put back.
refresh_refused(t) ==
  /\ InStage(t, "refused")
  /\ IF webTask[t].kind = "status"
     THEN clear_browser_session
     ELSE clear_persisted_refresh_token /\ UNCHANGED webTokens
  /\ Ends(t)
  /\ UNCHANGED <<webPage, webProvider, webPast>>

refresh_unavailable(t) ==
  /\ t \in Refreshing /\ webPage = "open"
  /\ webTokens' = webTask[t].held
  /\ Ends(t)
  /\ webPast' = IF webTask[t].stage = "rotated" THEN webPast \cup {"lost"} ELSE webPast
  /\ UNCHANGED <<webStorage, webPage, webProvider>>

\* The service's answer.  Only refresh_status acts on "unauthenticated".
call_answered(t) ==
  /\ InStage(t, "calling")
  /\ \/ Ends(t) /\ UNCHANGED <<webTokens, webStorage>>
     \/ webTask[t].kind = "status" /\ Unauthenticated(t)
  /\ UNCHANGED <<webPage, webProvider, webPast>>

----------------------------------------------------------------------------
\* Time, and the provider's own decisions.  mark_token_stale, after a telemetry
\* export was answered 401, ages the access token in the same way.

AccessExpires ==
  /\ \E tokens \in webTokens : tokens.fresh
  /\ webTokens' = {[tokens EXCEPT !.fresh = FALSE] : tokens \in webTokens}
  /\ UNCHANGED <<webStorage, webTask, webPage, webProvider, webPast>>

LoginEnds(login) ==
  /\ login \notin webProvider.ended
  /\ webProvider' = [webProvider EXCEPT !.ended = @ \cup {login}]
  /\ UNCHANGED <<webTokens, webStorage, webTask, webPage, webPast>>

ProviderRevokes ==
  /\ webProvider.live # {}
  /\ webProvider' = [webProvider EXCEPT !.live = {}]
  /\ UNCHANGED <<webTokens, webStorage, webTask, webPage, webPast>>

WebNext ==
  \/ \E t \in WebTasks :
       \/ \E returned \in {{}} \cup {{state} : state \in 1..webProvider.states} : start(t, returned)
       \/ \E ok \in BOOLEAN : finish_login(t, ok)
       \/ Session_open(t)
       \/ value_client(t)
       \/ access_token(t)
       \/ token_endpoint(t)
       \/ refresh_tokens(t)
       \/ refresh_refused(t)
       \/ refresh_unavailable(t)
       \/ call_answered(t)
  \/ begin_login
  \/ logout
  \/ AccessExpires
  \/ \E login \in 1..webProvider.logins : LoginEnds(login)
  \/ ProviderRevokes

WebSpec == WebInit /\ [][WebNext]_webVars

----------------------------------------------------------------------------
\* MemoryAuthentication takes the tokens out of their slot before it awaits the
\* provider, so no two actions refresh with the same token: the provider sees a
\* replaced refresh token again only when its answer was lost, or when the page was
\* left while one was awaited.
ReuseNeedsALostAnswer ==
  "reused" \in webPast => "lost" \in webPast

\* docs/web-ui.md:7: "logout, absolute refresh expiry, or definitive refresh
\* rejection require a new PKCE authorization".  After the logout handler has run,
\* and until another login has finished, the tab holds no token.
LogoutNeedsANewLogin ==
  "logout" \in webPast => webTokens = {} /\ webStorage.refresh = {}
=============================================================================
