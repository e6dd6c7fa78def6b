------------------------- MODULE ManagedConnections -------------------------
(***************************************************************************)
(* Managed connections: create, rotate and revoke                          *)
(* (crates/sovereign-config-server/src/managed/service.rs,                 *)
(* provisioning.rs, store.rs), against an identity provider that keeps the *)
(* contract of crates/sovereign-config-identity/src/lib.rs.                *)
(*                                                                         *)
(* A connection is a row in the database and a service account at the      *)
(* provider, and no transaction spans the two.  One action is one database *)
(* statement or one provider call; calls interleave between any two.       *)
(***************************************************************************)
EXTENDS Naturals, Sequences

CONSTANTS Calls,    \* the concurrent calls
          Conns,    \* the connection identifiers create may draw
          NoConn,   \* the connection of an idle call
          MaxKey,   \* bound on the credentials generated per connection
          Faults    \* what may go wrong around the calls

FaultKinds == {"lost_commit",    \* a statement applied, its acknowledgement lost
               "cancel",         \* a caller that hangs up, a server that stops
               "vanish",         \* an account deleted at the provider by hand
               "late_replace",   \* a credential replaced after its call gave up
               "stall",          \* a database step that outlives the rotation lease
               "early_revoke"}   \* a revocation before its creation is settled

ASSUME ManagedAssumption ==
    /\ NoConn \notin Conns
    /\ MaxKey \in Nat \ {0}
    /\ Faults \subseteq FaultKinds

VARIABLES row,       \* managed_connections, by connection
          trail,     \* the audit events recorded on each connection
          used,      \* the identifiers drawn so far
          account,   \* the provider's service accounts; key 0 is no account
          late,      \* requests given up on, which the provider may yet apply
          minted,    \* the last credential generated for each connection
          url,       \* the credential of the last URL reported to a caller
          call       \* what each call is doing

store == <<row, trail>>
provider == <<account, late>>
vars == <<row, trail, used, account, late, minted, url, call>>

-----------------------------------------------------------------------------
NoRow == [state |-> "none", account |-> FALSE, credential |-> FALSE, leased |-> FALSE]
NewRow == [NoRow EXCEPT !.state = "provisioning"]
Absent == [key |-> 0, granted |-> FALSE]
NewAccount == [key |-> 1, granted |-> FALSE]
Began(pc, c, k) == [pc |-> pc, conn |-> c, key |-> k, tries |-> 0]
Idle == Began("idle", NoConn, 0)

CREATE_RECONCILIATION_ATTEMPTS == 3

CreateRequest == [kind |-> "create", key |-> 1]
DeleteRequest == [kind |-> "delete", key |-> 0]
ReplaceRequest(k) == [kind |-> "replace", key |-> k]

Live(c) == account[c].key # 0

Init ==
    /\ row = [c \in Conns |-> NoRow]
    /\ trail = [c \in Conns |-> <<>>]
    /\ used = {}
    /\ account = [c \in Conns |-> Absent]
    /\ late = [c \in Conns |-> {}]
    /\ minted = [c \in Conns |-> 1]
    /\ url = [c \in Conns |-> 0]
    /\ call = [p \in Calls |-> Idle]

At(p, pc) == call[p].pc = pc

To(p, pc) == call' = [call EXCEPT ![p] = IF pc = "idle" THEN Idle ELSE [@ EXCEPT !.pc = pc]]

-----------------------------------------------------------------------------
(* The database.  A statement succeeds, fails, or succeeds unheard.        *)

DbOutcomes == {"ok", "failed"} \cup {o \in {"lost"} : "lost_commit" \in Faults}

Execute(c, new, events, out) ==
    /\ row' = IF out = "failed" THEN row ELSE [row EXCEPT ![c] = new]
    /\ trail' = IF out = "failed" THEN trail ELSE [trail EXCEPT ![c] = @ \o events]

(* transition_state and transition_state_recorded: a compare-and-set that  *)
(* records its event in the same transaction, and only when it moved.      *)
transition_state(c, expected, state, events, out) ==
    IF row[c].state = expected
    THEN Execute(c, [row[c] EXCEPT !.state = state], events, out)
    ELSE UNCHANGED store

Moved(c, expected, out) == row[c].state = expected /\ out = "ok"

delete_connection(c, out) == Execute(c, NoRow, <<>>, out)

(* Mutant: a revocation recorded by every call that ends one. *)
delete_connection_recorded_always(c, out) == Execute(c, NoRow, <<"revoked">>, out)

(* The row is deleted whatever its state, and recorded if it was there. *)
delete_connection_recorded(c, out) ==
    IF row[c] = NoRow THEN UNCHANGED store ELSE Execute(c, NoRow, <<"revoked">>, out)

(* record_provider_user and record_credential_identifier update a row that *)
(* may be gone by then, and do not look whether it was there.              *)
Recorded(r, field) == IF r = NoRow THEN r ELSE [r EXCEPT ![field] = TRUE]

-----------------------------------------------------------------------------
(* The provider.  A failure that is not definite may have been applied,    *)
(* and may yet be.                                                         *)

MayApply(c, request, applied) ==
    \/ UNCHANGED provider
    \/ account' = [account EXCEPT ![c] = applied] /\ UNCHANGED late
    \/ late' = [late EXCEPT ![c] = @ \cup {request}] /\ UNCHANGED account

(* An abandoned request lands. *)
Land(c) ==
    /\ \E r \in late[c] :
          /\ r.kind = "replace" => "late_replace" \in Faults
          /\ late' = [late EXCEPT ![c] = @ \ {r}]
          /\ account' = [account EXCEPT ![c] =
                CASE r.kind = "create" -> NewAccount
                  [] r.kind = "delete" -> Absent
                  [] r.kind = "replace" -> IF Live(c) THEN [@ EXCEPT !.key = r.key] ELSE @]
    /\ UNCHANGED <<store, used, minted, url, call>>

Vanish(c) ==
    /\ "vanish" \in Faults
    /\ Live(c)
    /\ account' = [account EXCEPT ![c] = Absent]
    /\ UNCHANGED <<store, used, late, minted, url, call>>

-----------------------------------------------------------------------------
(* create *)

insert_provisioning(p) ==
    /\ At(p, "idle")
    /\ \E c \in Conns \ used, out \in DbOutcomes :
          /\ used' = used \cup {c}
          /\ Execute(c, NewRow, <<>>, out)
          /\ call' = [call EXCEPT ![p] = IF out = "ok" THEN Began("create", c, 0) ELSE Idle]
    /\ UNCHANGED <<provider, minted, url>>

create_account(p) ==
    /\ At(p, "create")
    /\ LET c == call[p].conn
       IN  \/ /\ account' = [account EXCEPT ![c] = NewAccount]
              /\ UNCHANGED late
              /\ To(p, "record_user")
           \/ UNCHANGED provider /\ To(p, "drop")               \* a definite failure
           \/ MayApply(c, CreateRequest, NewAccount) /\ To(p, "probe")
    /\ UNCHANGED <<store, used, minted, url>>

record_provider_user(p) ==
    /\ At(p, "record_user")
    /\ \E out \in DbOutcomes :
          /\ Execute(call[p].conn, Recorded(row[call[p].conn], "account"), <<>>, out)
          /\ To(p, IF out = "ok" THEN "find" ELSE "compensate")
    /\ UNCHANGED <<provider, used, minted, url>>

(* Exactly one credential is expected of the new account. *)
find_credentials(p) ==
    /\ At(p, "find")
    /\ \/ Live(call[p].conn) /\ To(p, "record_credential")
       \/ To(p, "compensate")
    /\ UNCHANGED <<store, provider, used, minted, url>>

record_credential_identifier(p) ==
    /\ At(p, "record_credential")
    /\ \E out \in DbOutcomes :
          /\ Execute(call[p].conn, Recorded(row[call[p].conn], "credential"), <<>>, out)
          /\ To(p, IF out = "ok" THEN "grant" ELSE "compensate")
    /\ UNCHANGED <<provider, used, minted, url>>

(* The browsing group assigned next grants nothing and fails nothing. *)
grant(p) ==
    /\ At(p, "grant")
    /\ LET c == call[p].conn
           Granted == IF Live(c) THEN [account[c] EXCEPT !.granted = TRUE] ELSE Absent
       IN  \/ /\ Live(c)
              /\ account' = [account EXCEPT ![c] = Granted]
              /\ To(p, "complete")
           \/ /\ account' \in {account, [account EXCEPT ![c] = Granted]}
              /\ To(p, "compensate")
    /\ UNCHANGED <<store, used, late, minted, url>>

complete_provisioning(p) ==
    /\ At(p, "complete")
    /\ LET c == call[p].conn
       IN  \E out \in DbOutcomes :
              /\ transition_state(c, "provisioning", "active", <<"created">>, out)
              /\ IF Moved(c, "provisioning", out)
                 THEN url' = [url EXCEPT ![c] = 1] /\ To(p, "idle")
                 ELSE UNCHANGED url /\ To(p, "compensate")
    /\ UNCHANGED <<provider, used, minted>>

(* NotFound is trusted here: the account was made moments ago. *)
compensate_created_account(p) ==
    /\ At(p, "compensate")
    /\ LET c == call[p].conn
       IN  \/ account' = [account EXCEPT ![c] = Absent] /\ UNCHANGED late /\ To(p, "discard")
           \/ MayApply(c, DeleteRequest, Absent) /\ To(p, "cleanup")
    /\ UNCHANGED <<store, used, minted, url>>

discard_row(p) ==
    /\ At(p, "discard")
    /\ \E out \in DbOutcomes :
          /\ delete_connection(call[p].conn, out)
          /\ To(p, IF out = "ok" THEN "idle" ELSE "cleanup")
    /\ UNCHANGED <<provider, used, minted, url>>

drop_row(p) ==
    /\ At(p, "drop")
    /\ \E out \in DbOutcomes : delete_connection(call[p].conn, out)
    /\ To(p, "idle")
    /\ UNCHANGED <<provider, used, minted, url>>

cleanup_required(p) ==
    /\ At(p, "cleanup")
    /\ \E out \in DbOutcomes :
          transition_state(call[p].conn, "provisioning", "cleanup_required", <<>>, out)
    /\ To(p, "idle")
    /\ UNCHANGED <<provider, used, minted, url>>

(* Mutant: probes that never give up. *)
recover_without_end(p) ==
    /\ At(p, "probe")
    /\ \/ Live(call[p].conn) /\ To(p, "compensate")
       \/ ~Live(call[p].conn) /\ call' = [call EXCEPT ![p].tries = @ + 1]
    /\ UNCHANGED <<store, provider, used, minted, url>>

(* One probe of recover_ambiguous_create, by the generated username. *)
recover_ambiguous_create(p) ==
    /\ At(p, "probe")
    /\ LET c == call[p].conn
           n == call[p].tries + 1
       IN  \/ Live(c) /\ To(p, "compensate")
           \/ /\ ~Live(c)
              /\ call' = [call EXCEPT ![p] = [@ EXCEPT !.tries = n,
                             !.pc = IF n < CREATE_RECONCILIATION_ATTEMPTS THEN "probe" ELSE "cleanup"]]
           \/ To(p, "cleanup")
    /\ UNCHANGED <<store, provider, used, minted, url>>

-----------------------------------------------------------------------------
(* rotate *)

(* An attempt that may still be waiting for the provider holds the lease;  *)
(* the lease is six provider timeouts long, so only a stalled database     *)
(* step can outlast it.                                                    *)
RotatingAt(c, pcs) == \E p \in Calls : call[p].conn = c /\ call[p].pc \in pcs

LeaseExpires(c) ==
    /\ row[c].leased
    /\ ~RotatingAt(c, {"replace", "confirm"})
    /\ "stall" \in Faults \/ ~RotatingAt(c, {"rotated", "settle_current", "settle_gone"})
    /\ row' = [row EXCEPT ![c].leased = FALSE]
    /\ UNCHANGED <<trail, used, provider, minted, url, call>>

(* Mutant: an ambiguous rotation retried without waiting for its lease. *)
RotatableAtOnce(r) == r.state \in {"active", "rotation_unknown"} /\ r.credential

Rotatable(r) ==
    /\ r.state = "active" \/ (r.state = "rotation_unknown" /\ ~r.leased)
    /\ r.credential

(* Marks the row before the provider is called. *)
begin_rotation(p) ==
    /\ At(p, "idle")
    /\ \E c \in Conns, out \in DbOutcomes :
          /\ Rotatable(row[c])
          /\ minted[c] < MaxKey
          /\ minted' = [minted EXCEPT ![c] = @ + 1]
          /\ Execute(c, [row[c] EXCEPT !.state = "rotation_unknown", !.leased = TRUE], <<>>, out)
          /\ call' = [call EXCEPT ![p] = IF out = "ok" THEN Began("replace", c, minted[c] + 1) ELSE Idle]
    /\ UNCHANGED <<used, provider, url>>

replace_credential(p) ==
    /\ At(p, "replace")
    /\ LET c == call[p].conn
           replaced == IF Live(c) THEN [account[c] EXCEPT !.key = call[p].key] ELSE Absent
       IN  \/ /\ Live(c)
              /\ account' = [account EXCEPT ![c] = replaced]
              /\ UNCHANGED late
              /\ To(p, "rotated")
           \/ ~Live(c) /\ UNCHANGED provider /\ To(p, "settle_gone")      \* NotFound
           \/ UNCHANGED provider /\ To(p, "confirm")                      \* Rejected
           \/ UNCHANGED provider /\ To(p, "settle_current")               \* Unavailable
           \/ MayApply(c, ReplaceRequest(call[p].key), replaced) /\ To(p, "idle")
    /\ UNCHANGED <<store, used, minted, url>>

(* A refusal is settled by whether the credential still exists. *)
confirm_credential(p) ==
    /\ At(p, "confirm")
    /\ \/ To(p, IF Live(call[p].conn) THEN "settle_current" ELSE "settle_gone")
       \/ To(p, "idle")
    /\ UNCHANGED <<store, provider, used, minted, url>>

settle_failed_rotation(p) ==
    /\ call[p].pc \in {"settle_current", "settle_gone"}
    /\ \E out \in DbOutcomes :
          transition_state(call[p].conn, "rotation_unknown",
              IF At(p, "settle_gone") THEN "cleanup_required" ELSE "active", <<>>, out)
    /\ To(p, "idle")
    /\ UNCHANGED <<provider, used, minted, url>>

complete_rotation(p) ==
    /\ At(p, "rotated")
    /\ LET c == call[p].conn
       IN  \E out \in DbOutcomes :
              /\ transition_state(c, "rotation_unknown", "active", <<"rotated">>, out)
              /\ url' = IF Moved(c, "rotation_unknown", out)
                        THEN [url EXCEPT ![c] = call[p].key] ELSE url
    /\ To(p, "idle")
    /\ UNCHANGED <<provider, used, minted>>

-----------------------------------------------------------------------------
(* revoke *)

(* The outcome of the account's creation is not known yet. *)
Unsettled(c) ==
    \/ CreateRequest \in late[c]
    \/ RotatingAt(c, {"create", "record_user", "find", "record_credential", "grant", "complete",
                      "compensate", "discard", "drop", "cleanup", "probe"})

claim_for_revocation(p) ==
    /\ At(p, "idle")
    /\ \E c \in Conns, out \in DbOutcomes :
          /\ row[c] # NoRow
          /\ Unsettled(c) => "early_revoke" \in Faults
          /\ Execute(c, [row[c] EXCEPT !.state = "revoking"], <<>>, out)
          /\ call' = [call EXCEPT ![p] = IF out = "ok"
                         THEN Began(IF row[c].account THEN "delete" ELSE "lookup", c, 0) ELSE Idle]
    /\ UNCHANGED <<provider, used, minted, url>>

(* The row names no account: one is looked for by its username. *)
revocation_target(p) ==
    /\ At(p, "lookup")
    /\ \/ To(p, IF Live(call[p].conn) THEN "delete" ELSE "end")
       \/ To(p, "verify")
    /\ UNCHANGED <<store, provider, used, minted, url>>

(* Mutant: a refused deletion taken for a finished one. *)
delete_account_unconfirmed(p) ==
    /\ At(p, "delete")
    /\ \/ account' = [account EXCEPT ![call[p].conn] = Absent]
       \/ UNCHANGED account
    /\ To(p, "end")
    /\ UNCHANGED <<store, late, used, minted, url>>

(* No failure of a deletion says whether it happened. *)
delete_account_confirmed(p) ==
    /\ At(p, "delete")
    /\ LET c == call[p].conn
       IN  \/ account' = [account EXCEPT ![c] = Absent] /\ UNCHANGED late /\ To(p, "end")
           \/ MayApply(c, DeleteRequest, Absent) /\ To(p, "verify")
    /\ UNCHANGED <<store, used, minted, url>>

(* Only an empty credential list proves the account is gone. *)
credential_is_gone(p) ==
    /\ At(p, "verify")
    /\ \/ ~Live(call[p].conn) /\ To(p, "end")
       \/ To(p, "idle")
    /\ UNCHANGED <<store, provider, used, minted, url>>

end_revocation(p) ==
    /\ At(p, "end")
    /\ \E out \in DbOutcomes : delete_connection_recorded(call[p].conn, out)
    /\ To(p, "idle")
    /\ UNCHANGED <<provider, used, minted, url>>

-----------------------------------------------------------------------------
(* A call is dropped between two steps; a request it was waiting for may   *)
(* land all the same.                                                      *)
InFlight(p) ==
    CASE At(p, "create") -> {CreateRequest}
      [] At(p, "replace") -> {ReplaceRequest(call[p].key)}
      [] At(p, "compensate") \/ At(p, "delete") -> {DeleteRequest}
      [] OTHER -> {}

Cancel(p) ==
    /\ "cancel" \in Faults
    /\ ~At(p, "idle")
    /\ late' = [late EXCEPT ![call[p].conn] = @ \cup InFlight(p)]
    /\ To(p, "idle")
    /\ UNCHANGED <<store, used, account, minted, url>>

Create(p) ==
    \/ insert_provisioning(p) \/ create_account(p) \/ record_provider_user(p)
    \/ find_credentials(p) \/ record_credential_identifier(p) \/ grant(p)
    \/ complete_provisioning(p) \/ compensate_created_account(p) \/ discard_row(p)
    \/ drop_row(p) \/ cleanup_required(p) \/ recover_ambiguous_create(p)

Rotate(p) ==
    \/ begin_rotation(p) \/ replace_credential(p) \/ confirm_credential(p)
    \/ settle_failed_rotation(p) \/ complete_rotation(p)

Revoke(p) ==
    \/ claim_for_revocation(p) \/ revocation_target(p) \/ delete_account_confirmed(p)
    \/ credential_is_gone(p) \/ end_revocation(p)

Next ==
    \/ \E p \in Calls : Create(p) \/ Rotate(p) \/ Revoke(p) \/ Cancel(p)
    \/ \E c \in Conns : Land(c) \/ Vanish(c) \/ LeaseExpires(c)

Spec == Init /\ [][Next]_vars

-----------------------------------------------------------------------------
States == {"none", "provisioning", "active", "rotation_unknown", "cleanup_required", "revoking"}

Steps == {"idle", "create", "record_user", "find", "record_credential", "grant", "complete",
          "compensate", "discard", "drop", "cleanup", "probe",
          "replace", "confirm", "settle_current", "settle_gone", "rotated",
          "lookup", "delete", "verify", "end"}

Row == [state : States, account : BOOLEAN, credential : BOOLEAN, leased : BOOLEAN]
Account == [key : 0..MaxKey, granted : BOOLEAN]
Request == {CreateRequest, DeleteRequest} \cup {ReplaceRequest(k) : k \in 0..MaxKey}
Event == {"created", "rotated", "revoked"}
Call == [pc : Steps, conn : Conns \cup {NoConn}, key : 0..MaxKey,
         tries : 0..CREATE_RECONCILIATION_ATTEMPTS]

CallsOK ==
    /\ call \in [Calls -> Call]
    /\ \A p \in Calls : call[p].conn = NoConn <=> call[p].pc = "idle"
    /\ \A p \in Calls : call[p].tries < CREATE_RECONCILIATION_ATTEMPTS \/ call[p].pc = "cleanup"

(* The types of the rows, the accounts and the calls; a call has a         *)
(* connection while it runs, and one that has made its last probe for an   *)
(* account records that the connection needs cleaning up.                  *)
TypeOK ==
    /\ row \in [Conns -> Row]
    /\ trail \in [Conns -> Seq(Event)]
    /\ used \subseteq Conns
    /\ account \in [Conns -> Account]
    /\ late \in [Conns -> SUBSET Request]
    /\ minted \in [Conns -> 1..MaxKey]
    /\ url \in [Conns -> 0..MaxKey]
    /\ CallsOK

(* A live account always has someone to answer for it: a row that a        *)
(* revocation can find it by, or a call that is still undoing its          *)
(* creation.  Provisioning is compensated or left recoverable on every     *)
(* failure path, and a revocation deletes the row only on proof that the   *)
(* account is gone.                                                        *)
AccountsAreAccountedFor ==
    \A c \in Conns : Live(c) => row[c] # NoRow \/ RotatingAt(c, Steps)

(* When create or rotate reports a URL, that URL works: its account is     *)
(* live and granted, and its credential is the provider's current one.     *)
ReportedUrlsWork ==
    [][\A c \in Conns : url'[c] # url[c] =>
          account[c].key = url'[c] /\ account[c].granted /\ row'[c].state = "active"]_vars

(* While a connection is active, the last URL reported for it works: "the  *)
(* previous URL stays current" (service.rs) when a rotation fails, and     *)
(* "the previous URL is never claimed to be still valid" (authentication.md) *)
(* when its outcome is unknown.                                            *)
ActiveUrlsWork ==
    \A c \in Conns : row[c].state = "active" /\ url[c] # 0 => account[c].key = url[c]

-----------------------------------------------------------------------------
(* Every behaviour is one that ConnectionLifecycle allows: the trail tells *)
(* of each creation, rotation and revocation exactly once and in step with *)
(* the row, a claim for revocation is final, and no identifier returns.    *)
Lifecycle == INSTANCE ConnectionLifecycle
    WITH phase <- [c \in Conns |-> IF row[c] # NoRow THEN row[c].state
                                   ELSE IF c \in used THEN "gone" ELSE "none"],
         story <- trail

ImplementsLifecycle == Lifecycle!Spec
=============================================================================
