----------------------------- MODULE NameRepair -----------------------------
(***************************************************************************)
(* The startup repair of the managed connections' names                    *)
(* (crates/sovereign-config-server/src/managed/repair.rs): every account   *)
(* is renamed at the identity provider, and once the tokens minted under   *)
(* the old names have expired the audit trail is rewritten.  Connections   *)
(* go on being used and revoked, steps fail, and servers stop and start.   *)
(*                                                                         *)
(* A name is one of "none" (the trail then shows the subject), "old" (the  *)
(* generated username), "oldMarked" and "current" (the marked display      *)
(* name).  A narrative is the name at its head.                            *)
(***************************************************************************)
EXTENDS Naturals, FiniteSets

CONSTANTS
    RepairServers,        \* server processes sharing the database
    RepairAccounts,       \* managed connections that exist before the repair
    TokenLifetime,        \* access_token_validity of the provider
    ClockLeeway,          \* how much longer the server accepts a token
    TRAIL_REPAIR_DELAY,
    RepairMaxTime,        \* bound on the clock
    RepairMaxTokens,      \* bound on the tokens alive at once
    RepairMaxRows         \* bound on the rows of the trail

ASSUME RepairDelayOutlivesTokens ==
    /\ {TRAIL_REPAIR_DELAY, TokenLifetime, ClockLeeway, RepairMaxTime} \subseteq Nat
    /\ TRAIL_REPAIR_DELAY > TokenLifetime + ClockLeeway

VARIABLES
    repairClock,
    repairConn,       \* "live", "revoking", or "gone" (its row deleted)
    repairNamed,      \* the provider's name for the account: "username" or "display"
    repairTokens,     \* tokens in use
    repairRows,       \* rows of audit_events by managed accounts
    repairStep,       \* each server's progress through repair_actor_names
    repairDone        \* the managed_name_repair row

repairVars == <<repairClock, repairConn, repairNamed, repairTokens, repairRows, repairStep,
                repairDone>>

-----------------------------------------------------------------------------
(* The trail. *)

superseded == {"old", "oldMarked"}

shownAs(name) == IF name = "none" THEN "subject" ELSE name

(* The UPDATE of rename_actors, for the accounts of one listing. *)
rename_actors(rows, accounts) ==
    {IF /\ r.account \in accounts
        /\ r.name = "none" \/ r.name \in superseded
        /\ r.head = shownAs(r.name)
     THEN [account |-> r.account, name |-> "current", head |-> "current",
           kept |-> IF r.kept = <<>> THEN <<r.name, r.head>> ELSE r.kept]
     ELSE r : r \in rows}

is_live(a) == repairConn[a] = "live"

list_accounts == {a \in RepairAccounts : repairConn[a] # "gone"}

-----------------------------------------------------------------------------
Asleep == [at |-> "off", left |-> {}, named |-> TRUE, wake |-> 0]

RepairInit ==
    /\ repairClock = 0
    /\ repairConn = [a \in RepairAccounts |-> "live"]
    /\ repairNamed = [a \in RepairAccounts |-> "username"]
    /\ repairTokens = {} /\ repairRows = {}
    /\ repairStep = [s \in RepairServers |-> Asleep]
    /\ repairDone = FALSE

RepairTick ==
    /\ repairClock < RepairMaxTime
    /\ repairClock' = repairClock + 1
    /\ repairTokens' = {t \in repairTokens : t.until >= repairClock'}
    /\ UNCHANGED <<repairConn, repairNamed, repairRows, repairStep, repairDone>>

(* The scope mapping signs the account's name as it is now; before the mapping
   was deployed a token carried the username or no name. *)
MintToken(a, name) ==
    /\ repairConn[a] # "gone"
    /\ Cardinality(repairTokens) < RepairMaxTokens
    /\ name \in IF repairNamed[a] = "display" THEN {"current"} ELSE {"none"} \cup superseded
    /\ repairTokens' = repairTokens \cup
          {[account |-> a, name |-> name, until |-> repairClock + TokenLifetime + ClockLeeway]}
    /\ UNCHANGED <<repairClock, repairConn, repairNamed, repairRows, repairStep, repairDone>>

(* An authenticated call records an access: a row of its own, or one more access
   of a row of the same account. *)
RecordAccess(t) ==
    /\ \/ /\ Cardinality(repairRows) < RepairMaxRows
          /\ repairRows' = repairRows \cup
                {[account |-> t.account, name |-> t.name, head |-> shownAs(t.name),
                  kept |-> <<>>]}
       \/ \E r \in repairRows :
             /\ r.account = t.account
             /\ repairRows' = (repairRows \ {r}) \cup
                   {[r EXCEPT !.name = IF t.name = "none" THEN @ ELSE t.name,
                              !.head = shownAs(t.name)]}
    /\ UNCHANGED <<repairClock, repairConn, repairNamed, repairTokens, repairStep, repairDone>>

(* A revocation starts, and later deletes the connection's row. *)
RevokeConnection(a) ==
    /\ repairConn[a] # "gone"
    /\ repairConn' = [repairConn EXCEPT ![a] = IF @ = "live" THEN "revoking" ELSE "gone"]
    /\ UNCHANGED <<repairClock, repairNamed, repairTokens, repairRows, repairStep, repairDone>>

-----------------------------------------------------------------------------
(* repair_actor_names, spawned once per start. *)

Go(s, step) ==
    /\ repairStep' = [repairStep EXCEPT ![s] = step]
    /\ UNCHANGED <<repairClock, repairConn, repairTokens>>

(* name_repair_completed, then the listing of rename_accounts: a completed repair,
   or a marker that cannot be read, ends it; a listing that cannot be read leaves
   the accounts unnamed, and the trail is still repaired. *)
repair_actor_names(s) ==
    /\ repairStep[s].at = "off"
    /\ ~ repairDone
    /\ \/ Go(s, [at |-> "naming", left |-> {a \in list_accounts : is_live(a)},
                 named |-> TRUE, wake |-> 0])
       \/ Go(s, [at |-> "naming", left |-> {}, named |-> FALSE, wake |-> 0])
    /\ UNCHANGED <<repairNamed, repairRows, repairDone>>

(* One account: named, already deleted at the provider, or failing, which holds
   the repair open and the rest are still named. *)
rename_account(s, a) ==
    LET left == [repairStep[s] EXCEPT !.left = @ \ {a}]
    IN  /\ repairStep[s].at = "naming" /\ a \in repairStep[s].left
        /\ \/ /\ repairConn[a] # "gone"
              /\ repairNamed' = [repairNamed EXCEPT ![a] = "display"]
              /\ Go(s, left)
           \/ /\ repairConn[a] # "live"
              /\ Go(s, left) /\ UNCHANGED repairNamed
           \/ Go(s, [left EXCEPT !.named = FALSE]) /\ UNCHANGED repairNamed
        /\ UNCHANGED <<repairRows, repairDone>>

Sleep(s) ==
    /\ repairStep[s].at = "naming" /\ repairStep[s].left = {}
    /\ Go(s, [repairStep[s] EXCEPT !.at = "sleeping",
                                   !.wake = repairClock + TRAIL_REPAIR_DELAY])
    /\ UNCHANGED <<repairNamed, repairRows, repairDone>>

(* Mutant: no wait for the tokens minted under the old names. *)
AtOnce(s) == repairStep[s].at = "sleeping"

Awake(s) == repairStep[s].at = "sleeping" /\ repairClock >= repairStep[s].wake

(* The trail is repaired with a fresh listing, whatever became of the naming. *)
rename_actors_in_trail(s) ==
    /\ Awake(s)
    /\ \/ /\ repairRows' = rename_actors(repairRows, list_accounts)
          /\ Go(s, IF repairStep[s].named THEN [repairStep[s] EXCEPT !.at = "completing"]
                   ELSE [Asleep EXCEPT !.at = "ended"])
       \/ Go(s, [Asleep EXCEPT !.at = "ended"]) /\ UNCHANGED repairRows
    /\ UNCHANGED <<repairNamed, repairDone>>

complete_name_repair(s) ==
    /\ repairStep[s].at = "completing"
    /\ repairDone' \in {TRUE, repairDone}
    /\ Go(s, [Asleep EXCEPT !.at = "ended"])
    /\ UNCHANGED <<repairNamed, repairRows>>

(* The process stops wherever it was, and starts again. *)
Restart(s) ==
    /\ repairStep[s].at # "off"
    /\ Go(s, Asleep)
    /\ UNCHANGED <<repairNamed, repairRows, repairDone>>

RepairNext ==
    \/ RepairTick
    \/ \E a \in RepairAccounts : \E name \in {"none", "old", "oldMarked", "current"} :
          MintToken(a, name)
    \/ \E t \in repairTokens : RecordAccess(t)
    \/ \E a \in RepairAccounts : RevokeConnection(a)
    \/ \E s \in RepairServers :
          \/ repair_actor_names(s)
          \/ \E a \in RepairAccounts : rename_account(s, a)
          \/ Sleep(s)
          \/ rename_actors_in_trail(s)
          \/ complete_name_repair(s)
          \/ Restart(s)

RepairSpec == RepairInit /\ [][RepairNext]_repairVars

-----------------------------------------------------------------------------
(* Once the repair is recorded as complete, and for ever after, no event of a
   connection still in use is under a name its account has stopped carrying.  The
   one exception is the documented one: a row whose narrative opens with another
   name than the row's, which two tokens with different names leave behind when
   they share a row.  repair_actor_names, with its delay against tokens already
   minted, its partial failures, its restarts and a second server doing the same. *)
CompletedRepairNamesEveryone ==
    repairDone => \A r \in repairRows :
        is_live(r.account) => r.name = "current" \/ r.head # shownAs(r.name)
=============================================================================
