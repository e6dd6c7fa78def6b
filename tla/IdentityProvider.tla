-------------------------- MODULE IdentityProvider --------------------------
(***************************************************************************)
(* What an identity provider promises a managed connection                 *)
(* (sovereign-config-identity): the operations of ManagedIdentityProvider  *)
(* on the accounts it holds, as the in-memory provider of fake.rs performs *)
(* them, and what each ProviderError says of a call that failed.           *)
(*                                                                         *)
(* A call is one attempt: it is asked, takes effect at most once, at some  *)
(* moment, and is answered.  An answer that leaves the outcome unknown may *)
(* come before the effect.                                                 *)
(***************************************************************************)
EXTENDS Integers, FiniteSets

CONSTANTS
  IdpUsernames,  \* the usernames accounts are created under
  IdpNames,      \* the display names a grant or a rename gives
  IdpMaxCalls    \* bound: the calls made

VARIABLES
  idpAccounts,   \* the accounts: [id, username, secret, name, granted, grouped]
  idpFresh,      \* the next identifier or secret
  idpCall,       \* the call being made
  idpLate,       \* calls answered as unknown that may yet take effect
  idpAnswer,     \* how the last call was answered
  idpCalls       \* the calls made so far

idpVars == <<idpAccounts, idpFresh, idpCall, idpLate, idpAnswer, idpCalls>>

\* ProviderError::ALL, and definitely_not_applied.
ProviderErrors == {"not_found", "rejected", "unavailable", "ambiguous", "invalid"}

definitely_not_applied == {"rejected", "unavailable"}

NoCallMade == [op |-> "none"]

Unanswered == [op |-> "none", answer |-> "none"]

--------------------------------------------------------------------------
(* What each operation does to the accounts, and what it finds.  The       *)
(* target of a call is a username or the identifier of an account.         *)

Existing(accounts, id) == {a \in accounts : a.id = id}

Called(accounts, username) == {a \in accounts : a.username = username}

\* create_account: refused when the username is taken; no grant, no name.
create_account_effect(accounts, call, fresh) ==
  IF Called(accounts, call.target) # {} THEN accounts
  ELSE accounts \union {[id |-> fresh, username |-> call.target, secret |-> fresh,
                         name |-> "none", granted |-> FALSE, grouped |-> FALSE]}

\* grant: the whole grant is replaced, and the account takes the name.
grant_effect(accounts, call) ==
  {IF a.id = call.target THEN [a EXCEPT !.name = call.name, !.granted = TRUE] ELSE a : a \in accounts}

\* assign_browse_group: membership only.
assign_browse_group_effect(accounts, call) ==
  {IF a.id = call.target THEN [a EXCEPT !.grouped = TRUE] ELSE a : a \in accounts}

\* rename_account: the name only; the grant and the credential stay.
rename_account_effect(accounts, call) ==
  {IF a.id = call.target THEN [a EXCEPT !.name = call.name] ELSE a : a \in accounts}

\* replace_credential: the previous secret stops working.
replace_credential_effect(accounts, call, fresh) ==
  {IF a.id = call.target THEN [a EXCEPT !.secret = fresh] ELSE a : a \in accounts}

\* delete_account: the account, and with it its credential.
delete_account_effect(accounts, call) == accounts \ Existing(accounts, call.target)

Draws(call) == call.op \in {"create_account", "replace_credential"}

Effect(accounts, call, fresh) ==
  CASE call.op = "create_account"      -> create_account_effect(accounts, call, fresh)
    [] call.op = "grant"               -> grant_effect(accounts, call)
    [] call.op = "assign_browse_group" -> assign_browse_group_effect(accounts, call)
    [] call.op = "rename_account"      -> rename_account_effect(accounts, call)
    [] call.op = "replace_credential"  -> replace_credential_effect(accounts, call, fresh)
    [] call.op = "delete_account"      -> delete_account_effect(accounts, call)
    [] OTHER                           -> accounts

\* find_account, find_credentials: what is called exactly that username.
Found(accounts, call) ==
  IF call.op \in {"find_account", "find_credentials"}
  THEN {a.id : a \in Called(accounts, call.target)} ELSE {}

\* Operation: the calls a caller makes.
ByUsername == [op : {"create_account", "find_account", "find_credentials"}, target : IdpUsernames]

ByIdentifier(ids) ==
  [op : {"assign_browse_group", "replace_credential", "delete_account"}, target : ids]
    \union [op : {"grant", "rename_account"}, target : ids, name : IdpNames]

Targeted(accounts, call) ==
  IF call.op \in {"create_account", "find_account", "find_credentials"} THEN TRUE
  ELSE Existing(accounts, call.target) # {}

\* What a failure may say, given whether the call took effect.  A delete
\* settles nothing by the class of its failure.
Says(call, error) ==
  error \in definitely_not_applied \union {"not_found"} =>
    call.op = "delete_account" \/ ~call.applied

--------------------------------------------------------------------------

IdpInit ==
  /\ idpAccounts = {} /\ idpFresh = 1 /\ idpCall = NoCallMade /\ idpLate = {}
  /\ idpAnswer = Unanswered /\ idpCalls = 0

\* A caller makes its next call, on an identifier it was once given or on one
\* (0) this provider never issued.
Ask(asked) ==
  /\ idpCall = NoCallMade /\ idpCalls < IdpMaxCalls
  /\ idpCall' = [call |-> asked, op |-> asked.op, applied |-> FALSE, found |-> {}]
  /\ idpCalls' = idpCalls + 1
  /\ UNCHANGED <<idpAccounts, idpFresh, idpLate, idpAnswer>>

\* run: the call takes effect, on what exists at that moment.
Apply ==
  /\ idpCall # NoCallMade /\ ~idpCall.applied
  /\ Targeted(idpAccounts, idpCall.call)
  /\ idpCall.op = "create_account" => Called(idpAccounts, idpCall.call.target) = {}
  /\ idpAccounts' = Effect(idpAccounts, idpCall.call, idpFresh)
  /\ idpFresh' = IF Draws(idpCall) THEN idpFresh + 1 ELSE idpFresh
  /\ idpCall' = [idpCall EXCEPT !.applied = TRUE, !.found = Found(idpAccounts, idpCall.call)]
  /\ UNCHANGED <<idpLate, idpAnswer, idpCalls>>

\* The caller is answered: with success, which means the effect, or with a
\* class of failure.  The unknown classes leave a call that may still apply.
Told(answer) ==
  /\ idpCall # NoCallMade
  /\ IF answer = "ok" THEN idpCall.applied ELSE Says(idpCall, answer)
  /\ idpAnswer' = [op |-> idpCall.op, answer |-> answer, found |-> idpCall.found]
  /\ idpCall' = NoCallMade
  /\ idpLate' = IF answer \in {"ambiguous", "invalid"} /\ ~idpCall.applied
                THEN idpLate \union {[call |-> idpCall.call, number |-> idpCalls]} ELSE idpLate
  /\ UNCHANGED <<idpAccounts, idpFresh, idpCalls>>

ApplyLate(late) ==
  /\ idpLate' = idpLate \ {late}
  /\ idpAccounts' = Effect(idpAccounts, late.call, idpFresh)
  /\ idpFresh' = IF Draws(late.call) THEN idpFresh + 1 ELSE idpFresh
  /\ UNCHANGED <<idpCall, idpAnswer, idpCalls>>

IdpNext ==
  \/ \E asked \in ByUsername \union ByIdentifier(0..(idpFresh - 1)) : Ask(asked)
  \/ Apply
  \/ \E answer \in ProviderErrors \union {"ok"} : Told(answer)
  \/ \E late \in idpLate : ApplyLate(late)

IdpSpec == IdpInit /\ [][IdpNext]_idpVars

============================================================================
