-------------------------- MODULE AuthentikAdapter --------------------------
(***************************************************************************)
(* The Authentik implementation of the identity-provider contract          *)
(* (sovereign-config-authentik): each operation as the REST requests it    *)
(* makes, one attempt each, and the class of failure each outcome of HTTP  *)
(* becomes.  Compared with the contract, IdentityProvider.                 *)
(*                                                                         *)
(* Authentik itself is outside the repository: it is modelled by what the  *)
(* client sends it and by the outcomes the client tells apart.  It may     *)
(* refuse any request, hide an account, and refuse a delete it has applied.*)
(***************************************************************************)
EXTENDS Integers, FiniteSets

CONSTANTS
  AdpUsernames, AdpNames, AdpMaxCalls

VARIABLES
  adpUsers,     \* Authentik's users: [pk, username, key, name, attributes, groups]
  adpFresh,     \* the next primary key or app password
  adpCall,      \* the operation being performed, and its request
  adpLate,      \* calls answered as unknown, and whether their request is on its way
  adpAnswer,    \* how the last operation was answered
  adpCalls      \* the operations performed

adpVars == <<adpUsers, adpFresh, adpCall, adpLate, adpAnswer, adpCalls>>

adpIdle == [op |-> "none"]

--------------------------------------------------------------------------
(* The requests. *)

\* What Authentik does with a PATCH of a user: only the fields sent change.
patched(user, body) ==
  [field \in DOMAIN user |-> IF field \in DOMAIN body THEN body[field] ELSE user[field]]

patch_user(users, pk, body) == {IF u.pk = pk THEN patched(u, body) ELSE u : u \in users}

\* set_managed_attributes: the name and the whole attributes, grants included.
set_managed_attributes(call) == [name |-> call.name, attributes |-> TRUE]

\* add_user_to_group: the groups alone.
add_user_to_group(call) == [groups |-> TRUE]

\* rename_user: the name alone.
rename_user(call) == [name |-> call.name]

\* create_service_account, set_credential_secret, delete_user.
create_service_account(users, call, fresh) ==
  IF \E u \in users : u.username = call.target THEN users
  ELSE users \union {[pk |-> fresh, username |-> call.target, key |-> fresh,
                      name |-> "none", attributes |-> FALSE, groups |-> FALSE]}

set_credential_secret(users, call, fresh) == patch_user(users, call.target, [key |-> fresh])

delete_user(users, call) == {u \in users : u.pk # call.target}

Handled(users, call, fresh) ==
  CASE call.op = "create_account"      -> create_service_account(users, call, fresh)
    [] call.op = "grant"               -> patch_user(users, call.target, set_managed_attributes(call))
    [] call.op = "assign_browse_group" -> patch_user(users, call.target, add_user_to_group(call))
    [] call.op = "rename_account"      -> patch_user(users, call.target, rename_user(call))
    [] call.op = "replace_credential"  -> set_credential_secret(users, call, fresh)
    [] call.op = "delete_account"      -> delete_user(users, call)
    [] OTHER                           -> users

Takes(call) == call.op \in {"create_account", "replace_credential"}

\* find_user_by_username: exact matches only.
find_user_by_username(users, username) == {u.pk : u \in {v \in users : v.username = username}}

\* find_app_password_identifiers: the app passwords of exactly that user; an
\* account has the one it was created with, so they are told by the account.
find_app_password_identifiers(users, username) ==
  {u.pk : u \in {v \in users : v.username = username}}

Matches(users, call) ==
  CASE call.op = "find_account"     -> find_user_by_username(users, call.target)
    [] call.op = "find_credentials" -> find_app_password_identifiers(users, call.target)
    [] OTHER                        -> {}

--------------------------------------------------------------------------
(* Failures. *)

\* classify_transport: what a request that got no response is told as.
classify_transport(error) ==
  CASE error = "timeout"  -> "ambiguous"
    [] error \in {"connect", "builder", "request"} -> "unavailable"
    [] error = "redirect" -> "invalid"
    [] OTHER              -> "ambiguous"

\* Mutant: a server error is taken for a call that was not applied.
classify_status_5xx_unavailable(status) ==
  CASE status = 404         -> "not_found"
    [] status \in 400..499  -> "rejected"
    [] status \in 300..399  -> "invalid"
    [] OTHER                -> "unavailable"

\* classify_status: what a response without success proves of the call.
classify_status(status) ==
  CASE status = 404         -> "not_found"
    [] status \in 400..499  -> "rejected"
    [] status \in 300..399  -> "invalid"
    [] OTHER                -> "ambiguous"

\* expect_success, and the strict decoding of what a response carries.
expect_success(status, body) ==
  IF status # 200 THEN classify_status(status)
  ELSE CASE body = "timeout" -> "ambiguous"
         [] body \in {"long", "broken", "malformed"} -> "invalid"
         [] body = "good" -> "ok"

--------------------------------------------------------------------------

AdpInit ==
  /\ adpUsers = {} /\ adpFresh = 1 /\ adpCall = adpIdle /\ adpLate = {}
  /\ adpAnswer = [op |-> "none", answer |-> "none"] /\ adpCalls = 0

ByName == [op : {"create_account", "find_account", "find_credentials"}, target : AdpUsernames]

ByPk(pks) ==
  [op : {"assign_browse_group", "replace_credential", "delete_account"}, target : pks]
    \union [op : {"grant", "rename_account"}, target : pks, name : AdpNames]

\* An operation begins; its first request is not yet sent.
Invoke(call) ==
  /\ adpCall = adpIdle /\ adpCalls < AdpMaxCalls
  /\ adpCall' = [call |-> call, op |-> call.op, applied |-> FALSE, found |-> {},
                 at |-> IF call.op = "assign_browse_group" THEN "group" ELSE "sending"]
  /\ adpCalls' = adpCalls + 1
  /\ UNCHANGED <<adpUsers, adpFresh, adpLate, adpAnswer>>

Answered(answer) ==
  /\ adpAnswer' = [op |-> adpCall.op, answer |-> answer, found |-> adpCall.found]
  /\ adpCall' = adpIdle
  /\ adpLate' = IF answer \in {"ambiguous", "invalid"} /\ ~adpCall.applied
                THEN adpLate \union {[call |-> adpCall.call, number |-> adpCalls,
                                      sent |-> adpCall.at = "sending"]}
                ELSE adpLate
  /\ UNCHANGED <<adpUsers, adpFresh, adpCalls>>

\* user_id: an account identifier is a number; one (0) that is none is refused
\* before anything is sent.  A credential's identifier is sent as it is.
user_id(call) == call.op = "replace_credential" \/ call.target # 0

\* Refused before anything is sent: by user_id, or, in replace_credential, because
\* no password can be generated.
refused_unsent ==
  /\ adpCall # adpIdle /\ adpCall.at \in {"group", "sending"}
  /\ \/ ~user_id(adpCall.call) /\ Answered("rejected")
     \/ adpCall.op = "replace_credential" /\ Answered("unavailable")

\* call: a request that never reached Authentik, or that timed out with its
\* fate unknown.
undelivered ==
  /\ adpCall # adpIdle /\ adpCall.at \in {"group", "sending"} /\ user_id(adpCall.call)
  /\ \E error \in {"timeout", "connect", "request"} : Answered(classify_transport(error))

\* find_group_by_name: no such group, two of them, a response like any other,
\* or the one group, with which the account is patched next.
find_group_by_name ==
  /\ adpCall # adpIdle /\ adpCall.at = "group" /\ user_id(adpCall.call)
  /\ \/ Answered("not_found")
     \/ \E status \in {200, 302, 429, 500}, body \in {"long", "broken", "malformed"} :
          Answered(expect_success(status, body))
     \/ /\ adpCall' = [adpCall EXCEPT !.at = "sending"]
        /\ UNCHANGED <<adpUsers, adpFresh, adpLate, adpAnswer, adpCalls>>

Reaches(call) ==
  IF call.op = "create_account" THEN \A u \in adpUsers : u.username # call.target
  ELSE call.op \in {"find_account", "find_credentials"} \/ \E u \in adpUsers : u.pk = call.target

\* Authentik handles the request, on what it holds at that moment.
handled ==
  /\ adpCall # adpIdle /\ adpCall.at = "sending" /\ user_id(adpCall.call)
  /\ IF Reaches(adpCall.call)
     THEN /\ adpUsers' = Handled(adpUsers, adpCall.call, adpFresh)
          /\ adpFresh' = IF Takes(adpCall) THEN adpFresh + 1 ELSE adpFresh
          /\ \E status \in {200, 500} \union (IF adpCall.op = "delete_account" THEN {403, 404} ELSE {}) :
               adpCall' = [call |-> adpCall.call, op |-> adpCall.op, applied |-> TRUE,
                           found |-> Matches(adpUsers, adpCall.call), at |-> "handled", status |-> status]
     ELSE /\ adpCall' = [call |-> adpCall.call, op |-> adpCall.op, applied |-> FALSE, found |-> {},
                         at |-> "handled",
                         status |-> IF adpCall.op = "create_account" THEN 400 ELSE 404]
          /\ UNCHANGED <<adpUsers, adpFresh>>
  /\ UNCHANGED <<adpLate, adpAnswer, adpCalls>>

\* Authentik refuses, redirects or fails without having done anything.
unhandled ==
  /\ adpCall # adpIdle /\ adpCall.at = "sending" /\ user_id(adpCall.call)
  /\ \E status \in {302, 403, 429, 500} :
       adpCall' = [call |-> adpCall.call, op |-> adpCall.op, applied |-> FALSE, found |-> {},
                   at |-> "handled", status |-> status]
  /\ UNCHANGED <<adpUsers, adpFresh, adpLate, adpAnswer, adpCalls>>

\* The connection drops before the response.
connection_drops ==
  /\ adpCall # adpIdle /\ adpCall.at = "handled"
  /\ adpCall' = [adpCall EXCEPT !.at = "dropped"]
  /\ UNCHANGED <<adpUsers, adpFresh, adpLate, adpAnswer, adpCalls>>

\* The response comes back, and is read to its end; or the caller stops waiting,
\* or the connection dropped, which reqwest tells as an error of the request.
responded ==
  /\ adpCall # adpIdle
  /\ \/ /\ adpCall.at = "handled"
        /\ \/ \E body \in {"good", "long", "broken", "malformed", "timeout"} :
                Answered(expect_success(adpCall.status, body))
           \/ \E error \in {"timeout", "other"} : Answered(classify_transport(error))
     \/ adpCall.at = "dropped" /\ Answered(classify_transport("request"))

\* A request whose caller stopped waiting reaches Authentik after all.
handled_late(late) ==
  /\ late.sent
  /\ adpUsers' = Handled(adpUsers, late.call, adpFresh)
  /\ adpFresh' = IF Takes(late.call) THEN adpFresh + 1 ELSE adpFresh
  /\ adpLate' = adpLate \ {late}
  /\ UNCHANGED <<adpCall, adpAnswer, adpCalls>>

AdpNext ==
  \/ \E call \in ByName \union ByPk(0..(adpFresh - 1)) : Invoke(call)
  \/ refused_unsent \/ undelivered \/ find_group_by_name \/ handled \/ unhandled
  \/ connection_drops \/ responded
  \/ \E late \in adpLate : handled_late(late)

AdpSpec == AdpInit /\ [][AdpNext]_adpVars

--------------------------------------------------------------------------
(* Properties. *)

\* What the contract sees of Authentik's users and of a request under way.
Contract == INSTANCE IdentityProvider WITH
  IdpUsernames <- AdpUsernames, IdpNames <- AdpNames, IdpMaxCalls <- AdpMaxCalls,
  idpAccounts <- {[id |-> u.pk, username |-> u.username, secret |-> u.key, name |-> u.name,
                   granted |-> u.attributes, grouped |-> u.groups] : u \in adpUsers},
  idpFresh <- adpFresh,
  idpCall <- IF adpCall = adpIdle THEN adpIdle
             ELSE [call |-> adpCall.call, op |-> adpCall.op, applied |-> adpCall.applied,
                   found |-> adpCall.found],
  idpLate <- {[call |-> late.call, number |-> late.number] : late \in adpLate},
  idpAnswer <- adpAnswer, idpCalls <- adpCalls

\* The adapter keeps the identity provider's contract: each operation has the
\* effect the contract gives it, at most once, and no failure it reports claims
\* that a call was not applied which was, a delete excepted.  "The request could
\* not be delivered, so it was definitively not applied" (ProviderError::Unavailable),
\* against what classify_transport makes of a connection dropped after delivery.
AdapterKeepsTheContract == Contract!IdpSpec

\* A connection that dropped after the request was handled, told as Unavailable.
TellsOfDroppedConnection ==
  adpCall # adpIdle /\ adpCall.at = "dropped" /\ Answered("unavailable")

\* A dropped connection is the only way out of the contract: every other step of
\* the adapter is a step of the contract or changes nothing it speaks of, so success,
\* Rejected, NotFound, Ambiguous and Invalid, and an Unavailable for a request that
\* never arrived, mean what the contract says (AuthentikProvider, classify_transport,
\* classify_status, expect_success).
OnlyDroppedConnectionsBreakTheContract ==
  /\ Contract!IdpInit
  /\ [][\/ UNCHANGED adpVars
        \/ Contract!IdpNext
        \/ TellsOfDroppedConnection]_(Contract!idpVars)

============================================================================
