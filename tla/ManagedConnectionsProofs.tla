---------------------- MODULE ManagedConnectionsProofs ----------------------
(***************************************************************************)
(* Theorems about ManagedConnections, for any number of calls, connections *)
(* and credentials, and every combination of faults.                       *)
(***************************************************************************)
EXTENDS ManagedConnections, TLAPS

-----------------------------------------------------------------------------
(* Types. *)

(* What the records are made of. *)
LEMMA Constructors ==
    ASSUME ManagedAssumption
    PROVE  /\ NoRow \in Row /\ NewRow \in Row
           /\ Absent \in Account /\ NewAccount \in Account
           /\ Idle \in Call
           /\ CreateRequest \in Request /\ DeleteRequest \in Request
           /\ \A k \in 0..MaxKey : ReplaceRequest(k) \in Request
           /\ <<>> \in Seq(Event) /\ \A e \in Event : <<e>> \in Seq(Event)
  <1>1. NoRow \in Row /\ NewRow \in Row
    BY DEF Row, States, NoRow, NewRow
  <1>2. Absent \in Account /\ NewAccount \in Account
    BY DEF ManagedAssumption, Account, Absent, NewAccount
  <1>3. Idle \in Call
    BY DEF ManagedAssumption, Call, Steps, Idle, Began, CREATE_RECONCILIATION_ATTEMPTS
  <1>4. CreateRequest \in Request /\ DeleteRequest \in Request
    BY DEF ManagedAssumption, Request, CreateRequest, DeleteRequest
  <1>5. \A k \in 0..MaxKey : ReplaceRequest(k) \in Request
    BY DEF Request, ReplaceRequest
  <1>6. <<>> \in Seq(Event) /\ \A e \in Event : <<e>> \in Seq(Event)
    OBVIOUS
  <1> QED
    BY <1>1, <1>2, <1>3, <1>4, <1>5, <1>6

(* An assignment to a field of a row leaves a row. *)
LEMMA RowFields ==
    ASSUME NEW r \in Row
    PROVE  /\ \A s \in States : [r EXCEPT !.state = s] \in Row
           /\ [r EXCEPT !.account = TRUE] \in Row
           /\ [r EXCEPT !.credential = TRUE] \in Row
           /\ [r EXCEPT !.leased = FALSE] \in Row
           /\ [r EXCEPT !.state = "rotation_unknown", !.leased = TRUE] \in Row
  BY DEF Row, States

(* A statement leaves the table and the trail well typed, whatever becomes *)
(* of it.                                                                  *)
LEMMA ExecuteType ==
    ASSUME TypeOK, NEW c \in Conns, NEW r \in Row, NEW e \in Seq(Event), NEW out,
           Execute(c, r, e, out)
    PROVE  row' \in [Conns -> Row] /\ trail' \in [Conns -> Seq(Event)]
  BY DEF TypeOK, Execute

(* transition_state leaves the table and the trail well typed. *)
LEMMA TransitionType ==
    ASSUME TypeOK, NEW c \in Conns, NEW from, NEW to \in States, NEW e \in Seq(Event), NEW out,
           transition_state(c, from, to, e, out)
    PROVE  row' \in [Conns -> Row] /\ trail' \in [Conns -> Seq(Event)]
  <1>1. [row[c] EXCEPT !.state = to] \in Row
    BY RowFields DEF TypeOK
  <1>2. CASE Execute(c, [row[c] EXCEPT !.state = to], e, out)
    BY <1>1, <1>2, ExecuteType
  <1>3. CASE UNCHANGED store
    BY <1>3 DEF store, TypeOK
  <1> QED
    BY <1>2, <1>3 DEF transition_state

(* Moving a running call to another step keeps the calls well typed; after *)
(* cleanup there is none.                                                  *)
LEMMA ToType ==
    ASSUME TypeOK, ManagedAssumption, NEW p \in Calls, ~At(p, "idle"), NEW s \in Steps, To(p, s),
           At(p, "cleanup") => s = "idle"
    PROVE  CallsOK'
  <1>1. call[p] \in Call /\ call[p].conn # NoConn
    BY DEF TypeOK, CallsOK, At
  <1>2. CASE s = "idle"
    <2>1. Idle \in Call /\ Idle.conn = NoConn /\ Idle.pc = "idle" /\ Idle.tries = 0
      BY Constructors DEF Idle, Began
    <2> QED
      BY <1>2, <2>1 DEF TypeOK, CallsOK, To, CREATE_RECONCILIATION_ATTEMPTS
  <1>3. CASE s # "idle"
    <2> DEFINE new == [call[p] EXCEPT !.pc = s]
    <2>1. new \in Call /\ new.conn = call[p].conn /\ new.pc = s /\ new.tries = call[p].tries
      BY <1>1 DEF Call
    <2>2. call' = [call EXCEPT ![p] = new]
      BY <1>3 DEF To
    <2> HIDE DEF new
    <2> QED
      BY <1>1, <1>3, <2>1, <2>2 DEF TypeOK, CallsOK, At
  <1> QED
    BY <1>2, <1>3

(* What a running call works on. *)
LEMMA Running ==
    ASSUME TypeOK, ManagedAssumption, NEW p \in Calls, ~At(p, "idle")
    PROVE  /\ call[p].conn \in Conns
           /\ call[p].key \in 0..MaxKey
           /\ row[call[p].conn] \in Row
           /\ account[call[p].conn] \in Account
           /\ account \in [Conns -> Account]
           /\ late \in [Conns -> SUBSET Request]
  <1>1. call[p] \in Call /\ call[p].conn # NoConn
    BY DEF TypeOK, CallsOK, At
  <1>2. call[p].conn \in Conns /\ call[p].key \in 0..MaxKey
    BY <1>1 DEF Call
  <1> QED
    BY <1>2 DEF TypeOK

(* A call starts on a connection, or is turned away. *)
LEMMA StartType ==
    ASSUME TypeOK, ManagedAssumption, NEW p \in Calls, NEW c \in Conns, NEW k \in 0..MaxKey,
           NEW s \in Steps \ {"idle"}, NEW out,
           call' = [call EXCEPT ![p] = IF out = "ok" THEN Began(s, c, k) ELSE Idle]
    PROVE  CallsOK'
  <1>1. Began(s, c, k) \in Call /\ Began(s, c, k).conn # NoConn
        /\ Began(s, c, k).pc # "idle" /\ Began(s, c, k).tries = 0
    BY DEF Began, Call, ManagedAssumption, CREATE_RECONCILIATION_ATTEMPTS
  <1>2. Idle \in Call /\ Idle.conn = NoConn /\ Idle.pc = "idle" /\ Idle.tries = 0
    BY Constructors DEF Idle, Began
  <1> QED
    BY <1>1, <1>2 DEF TypeOK, CallsOK, CREATE_RECONCILIATION_ATTEMPTS

(* Marking a row that may be gone. *)
LEMMA RecordedType ==
    ASSUME NEW r \in Row
    PROVE  Recorded(r, "account") \in Row /\ Recorded(r, "credential") \in Row
  BY RowFields DEF Recorded

(* Every step of create. *)
LEMMA CreateType ==
    ASSUME TypeOK, ManagedAssumption, NEW p \in Calls, Create(p)
    PROVE  TypeOK'
  <1>1. ASSUME insert_provisioning(p) PROVE TypeOK'
    <2>1. PICK c \in Conns \ used, out \in DbOutcomes :
                 /\ used' = used \cup {c}
                 /\ Execute(c, NewRow, <<>>, out)
                 /\ call' = [call EXCEPT ![p] = IF out = "ok" THEN Began("create", c, 0) ELSE Idle]
      BY <1>1 DEF insert_provisioning
    <2>2. "create" \in Steps \ {"idle"} /\ 0 \in 0..MaxKey
      BY DEF Steps, ManagedAssumption
    <2>3. CallsOK'
      BY <2>1, <2>2, StartType
    <2>4. row' \in [Conns -> Row] /\ trail' \in [Conns -> Seq(Event)]
      BY <2>1, ExecuteType, Constructors
    <2> QED
      BY <1>1, <2>1, <2>3, <2>4 DEF insert_provisioning, TypeOK, provider
  <1>2. ASSUME create_account(p) PROVE TypeOK'
    <2>1. ~At(p, "idle")
      BY <1>2 DEF create_account, At
    <2>2. CallsOK'
      BY <1>2, <2>1, ToType DEF create_account, Steps, At
    <2>3. account' \in [Conns -> Account] /\ late' \in [Conns -> SUBSET Request]
      BY <1>2, <2>1, Running, Constructors DEF create_account, MayApply, provider
    <2> QED
      BY <1>2, <2>2, <2>3 DEF create_account, TypeOK, store
  <1>3. ASSUME record_provider_user(p) PROVE TypeOK'
    <2>1. ~At(p, "idle")
      BY <1>3 DEF record_provider_user, At
    <2>2. CallsOK'
      BY <1>3, <2>1, ToType DEF record_provider_user, Steps, At
    <2>3. PICK out \in DbOutcomes : Execute(call[p].conn, Recorded(row[call[p].conn], "account"), <<>>, out)
      BY <1>3 DEF record_provider_user
    <2>4. row' \in [Conns -> Row] /\ trail' \in [Conns -> Seq(Event)]
      BY <2>1, <2>3, Running, Constructors, ExecuteType, RecordedType
    <2> QED
      BY <1>3, <2>2, <2>4 DEF record_provider_user, TypeOK, provider
  <1>4. ASSUME find_credentials(p) PROVE TypeOK'
    <2>1. ~At(p, "idle")
      BY <1>4 DEF find_credentials, At
    <2>2. CallsOK'
      BY <1>4, <2>1, ToType DEF find_credentials, Steps, At
    <2> QED
      BY <1>4, <2>2 DEF find_credentials, TypeOK, store, provider
  <1>5. ASSUME record_credential_identifier(p) PROVE TypeOK'
    <2>1. ~At(p, "idle")
      BY <1>5 DEF record_credential_identifier, At
    <2>2. CallsOK'
      BY <1>5, <2>1, ToType DEF record_credential_identifier, Steps, At
    <2>3. PICK out \in DbOutcomes : Execute(call[p].conn, Recorded(row[call[p].conn], "credential"), <<>>, out)
      BY <1>5 DEF record_credential_identifier
    <2>4. row' \in [Conns -> Row] /\ trail' \in [Conns -> Seq(Event)]
      BY <2>1, <2>3, Running, Constructors, ExecuteType, RecordedType
    <2> QED
      BY <1>5, <2>2, <2>4 DEF record_credential_identifier, TypeOK, provider
  <1>6. ASSUME grant(p) PROVE TypeOK'
    <2>1. ~At(p, "idle")
      BY <1>6 DEF grant, At
    <2>2. CallsOK'
      BY <1>6, <2>1, ToType DEF grant, Steps, At
    <2>3. account' \in [Conns -> Account] /\ late' \in [Conns -> SUBSET Request]
      <3>1. [account[call[p].conn] EXCEPT !.granted = TRUE] \in Account
        BY <2>1, Running DEF Account
      <3> QED
        BY <1>6, <2>1, <3>1, Running, Constructors DEF grant
    <2> QED
      BY <1>6, <2>2, <2>3 DEF grant, TypeOK, store
  <1>7. ASSUME complete_provisioning(p) PROVE TypeOK'
    <2>1. ~At(p, "idle")
      BY <1>7 DEF complete_provisioning, At
    <2>2. CallsOK'
      BY <1>7, <2>1, ToType DEF complete_provisioning, Steps, At
    <2>3. PICK out \in DbOutcomes : transition_state(call[p].conn, "provisioning", "active", <<"created">>, out)
      BY <1>7 DEF complete_provisioning
    <2>4. "active" \in States /\ <<"created">> \in Seq(Event)
      BY Constructors DEF States, Event
    <2>5. row' \in [Conns -> Row] /\ trail' \in [Conns -> Seq(Event)]
      BY <2>1, <2>3, <2>4, Running, TransitionType
    <2>6. url' \in [Conns -> 0..MaxKey]
      <3>1. url \in [Conns -> 0..MaxKey] /\ 1 \in 0..MaxKey
        BY DEF TypeOK, ManagedAssumption
      <3> QED
        BY <1>7, <2>1, <3>1, Running DEF complete_provisioning
    <2> QED
      BY <1>7, <2>2, <2>5, <2>6 DEF complete_provisioning, TypeOK, provider
  <1>8. ASSUME compensate_created_account(p) PROVE TypeOK'
    <2>1. ~At(p, "idle")
      BY <1>8 DEF compensate_created_account, At
    <2>2. CallsOK'
      BY <1>8, <2>1, ToType DEF compensate_created_account, Steps, At
    <2>3. account' \in [Conns -> Account] /\ late' \in [Conns -> SUBSET Request]
      BY <1>8, <2>1, Running, Constructors DEF compensate_created_account, MayApply, provider
    <2> QED
      BY <1>8, <2>2, <2>3 DEF compensate_created_account, TypeOK, store
  <1>9. ASSUME discard_row(p) PROVE TypeOK'
    <2>1. ~At(p, "idle")
      BY <1>9 DEF discard_row, At
    <2>2. CallsOK'
      BY <1>9, <2>1, ToType DEF discard_row, Steps, At
    <2>3. PICK out \in DbOutcomes : Execute(call[p].conn, NoRow, <<>>, out)
      BY <1>9 DEF discard_row, delete_connection
    <2>4. row' \in [Conns -> Row] /\ trail' \in [Conns -> Seq(Event)]
      BY <2>1, <2>3, Running, Constructors, ExecuteType
    <2> QED
      BY <1>9, <2>2, <2>4 DEF discard_row, TypeOK, provider
  <1>10. ASSUME drop_row(p) PROVE TypeOK'
    <2>1. ~At(p, "idle")
      BY <1>10 DEF drop_row, At
    <2>2. CallsOK'
      BY <1>10, <2>1, ToType DEF drop_row, Steps, At
    <2>3. PICK out \in DbOutcomes : Execute(call[p].conn, NoRow, <<>>, out)
      BY <1>10 DEF drop_row, delete_connection
    <2>4. row' \in [Conns -> Row] /\ trail' \in [Conns -> Seq(Event)]
      BY <2>1, <2>3, Running, Constructors, ExecuteType
    <2> QED
      BY <1>10, <2>2, <2>4 DEF drop_row, TypeOK, provider
  <1>11. ASSUME cleanup_required(p) PROVE TypeOK'
    <2>1. ~At(p, "idle")
      BY <1>11 DEF cleanup_required, At
    <2>2. CallsOK'
      BY <1>11, <2>1, ToType DEF cleanup_required, Steps, At
    <2>3. PICK out \in DbOutcomes : transition_state(call[p].conn, "provisioning", "cleanup_required", <<>>, out)
      BY <1>11 DEF cleanup_required
    <2>4. "cleanup_required" \in States /\ <<>> \in Seq(Event)
      BY Constructors DEF States, Event
    <2>5. row' \in [Conns -> Row] /\ trail' \in [Conns -> Seq(Event)]
      BY <2>1, <2>3, <2>4, Running, TransitionType
    <2> QED
      BY <1>11, <2>2, <2>5 DEF cleanup_required, TypeOK, provider
  <1>12. ASSUME recover_ambiguous_create(p) PROVE TypeOK'
    <2>1. ~At(p, "idle")
      BY <1>12 DEF recover_ambiguous_create, At
    <2>2. CallsOK'
      <3>1. CASE To(p, "compensate") \/ To(p, "cleanup")
        BY <1>12, <2>1, <3>1, ToType DEF recover_ambiguous_create, Steps, At
      <3>2. CASE ~(To(p, "compensate") \/ To(p, "cleanup"))
        <4> DEFINE n == call[p].tries + 1
                   s == IF n < CREATE_RECONCILIATION_ATTEMPTS THEN "probe" ELSE "cleanup"
        <4>1. call' = [call EXCEPT ![p] = [call[p] EXCEPT !.tries = n, !.pc = s]]
          BY <1>12, <3>2 DEF recover_ambiguous_create
        <4>2. /\ call[p] \in Call /\ call[p].conn # NoConn
              /\ call[p].tries < CREATE_RECONCILIATION_ATTEMPTS
          BY <1>12, <2>1 DEF TypeOK, CallsOK, recover_ambiguous_create, At
        <4>3. /\ n \in 0..CREATE_RECONCILIATION_ATTEMPTS /\ s \in Steps \ {"idle"}
              /\ n < CREATE_RECONCILIATION_ATTEMPTS \/ s = "cleanup"
          BY <4>2 DEF Call, Steps, CREATE_RECONCILIATION_ATTEMPTS
        <4> HIDE DEF n, s
        <4>4. [call[p] EXCEPT !.tries = n, !.pc = s] \in Call
          BY <4>2, <4>3 DEF Call
        <4>5. /\ [call[p] EXCEPT !.tries = n, !.pc = s].conn = call[p].conn
              /\ [call[p] EXCEPT !.tries = n, !.pc = s].pc # "idle"
              /\ \/ [call[p] EXCEPT !.tries = n, !.pc = s].tries < CREATE_RECONCILIATION_ATTEMPTS
                 \/ [call[p] EXCEPT !.tries = n, !.pc = s].pc = "cleanup"
          BY <4>2, <4>3 DEF Call
        <4> QED
          BY <4>1, <4>2, <4>4, <4>5 DEF TypeOK, CallsOK
      <3> QED
        BY <3>1, <3>2
    <2> QED
      BY <1>12, <2>2 DEF recover_ambiguous_create, TypeOK, store, provider
  <1> QED
    BY <1>1, <1>2, <1>3, <1>4, <1>5, <1>6, <1>7, <1>8, <1>9, <1>10, <1>11, <1>12 DEF Create

(* Every step of rotate. *)
LEMMA RotateType ==
    ASSUME TypeOK, ManagedAssumption, NEW p \in Calls, Rotate(p)
    PROVE  TypeOK'
  <1>1. ASSUME begin_rotation(p) PROVE TypeOK'
    <2>1. PICK c \in Conns, out \in DbOutcomes :
                 /\ Rotatable(row[c])
                 /\ minted[c] < MaxKey
                 /\ minted' = [minted EXCEPT ![c] = @ + 1]
                 /\ Execute(c, [row[c] EXCEPT !.state = "rotation_unknown", !.leased = TRUE], <<>>, out)
                 /\ call' = [call EXCEPT ![p] =
                                IF out = "ok" THEN Began("replace", c, minted[c] + 1) ELSE Idle]
      BY <1>1 DEF begin_rotation
    <2>2. minted[c] + 1 \in 1..MaxKey /\ minted[c] + 1 \in 0..MaxKey
      BY <2>1 DEF TypeOK, ManagedAssumption
    <2>3. "replace" \in Steps \ {"idle"}
      BY DEF Steps
    <2>4. CallsOK'
      BY <2>1, <2>2, <2>3, StartType
    <2>5. [row[c] EXCEPT !.state = "rotation_unknown", !.leased = TRUE] \in Row
      BY RowFields DEF TypeOK
    <2>6. row' \in [Conns -> Row] /\ trail' \in [Conns -> Seq(Event)]
      BY <2>1, <2>5, ExecuteType, Constructors
    <2> QED
      BY <1>1, <2>1, <2>2, <2>4, <2>6 DEF begin_rotation, TypeOK, provider
  <1>2. ASSUME replace_credential(p) PROVE TypeOK'
    <2>1. ~At(p, "idle")
      BY <1>2 DEF replace_credential, At
    <2>2. CallsOK'
      BY <1>2, <2>1, ToType DEF replace_credential, Steps, At
    <2>3. account' \in [Conns -> Account] /\ late' \in [Conns -> SUBSET Request]
      <3>1. [account[call[p].conn] EXCEPT !.key = call[p].key] \in Account
        BY <2>1, Running DEF Account
      <3> QED
        BY <1>2, <2>1, <3>1, Running, Constructors DEF replace_credential, MayApply, provider
    <2> QED
      BY <1>2, <2>2, <2>3 DEF replace_credential, TypeOK, store
  <1>3. ASSUME confirm_credential(p) PROVE TypeOK'
    <2>1. ~At(p, "idle")
      BY <1>3 DEF confirm_credential, At
    <2>2. CallsOK'
      BY <1>3, <2>1, ToType DEF confirm_credential, Steps, At
    <2> QED
      BY <1>3, <2>2 DEF confirm_credential, TypeOK, store, provider
  <1>4. ASSUME settle_failed_rotation(p) PROVE TypeOK'
    <2>1. ~At(p, "idle")
      BY <1>4 DEF settle_failed_rotation, At
    <2>2. CallsOK'
      BY <1>4, <2>1, ToType DEF settle_failed_rotation, Steps, At
    <2>3. PICK out \in DbOutcomes : transition_state(call[p].conn, "rotation_unknown", (IF At(p, "settle_gone") THEN "cleanup_required" ELSE "active"), <<>>, out)
      BY <1>4 DEF settle_failed_rotation
    <2>4. (IF At(p, "settle_gone") THEN "cleanup_required" ELSE "active") \in States /\ <<>> \in Seq(Event)
      BY Constructors DEF States, Event
    <2>5. row' \in [Conns -> Row] /\ trail' \in [Conns -> Seq(Event)]
      BY <2>1, <2>3, <2>4, Running, TransitionType
    <2> QED
      BY <1>4, <2>2, <2>5 DEF settle_failed_rotation, TypeOK, provider
  <1>5. ASSUME complete_rotation(p) PROVE TypeOK'
    <2>1. ~At(p, "idle")
      BY <1>5 DEF complete_rotation, At
    <2>2. CallsOK'
      BY <1>5, <2>1, ToType DEF complete_rotation, Steps, At
    <2>3. PICK out \in DbOutcomes : transition_state(call[p].conn, "rotation_unknown", "active", <<"rotated">>, out)
      BY <1>5 DEF complete_rotation
    <2>4. "active" \in States /\ <<"rotated">> \in Seq(Event)
      BY Constructors DEF States, Event
    <2>5. row' \in [Conns -> Row] /\ trail' \in [Conns -> Seq(Event)]
      BY <2>1, <2>3, <2>4, Running, TransitionType
    <2>6. url' \in [Conns -> 0..MaxKey]
      BY <1>5, <2>1, Running DEF complete_rotation, TypeOK, ManagedAssumption
    <2> QED
      BY <1>5, <2>2, <2>5, <2>6 DEF complete_rotation, TypeOK, provider
  <1> QED
    BY <1>1, <1>2, <1>3, <1>4, <1>5 DEF Rotate

(* Every step of revoke. *)
LEMMA RevokeType ==
    ASSUME TypeOK, ManagedAssumption, NEW p \in Calls, Revoke(p)
    PROVE  TypeOK'
  <1>1. ASSUME claim_for_revocation(p) PROVE TypeOK'
    <2>1. PICK c \in Conns, out \in DbOutcomes :
                 /\ row[c] # NoRow
                 /\ Unsettled(c) => "early_revoke" \in Faults
                 /\ Execute(c, [row[c] EXCEPT !.state = "revoking"], <<>>, out)
                 /\ call' = [call EXCEPT ![p] = IF out = "ok"
                       THEN Began(IF row[c].account THEN "delete" ELSE "lookup", c, 0) ELSE Idle]
      BY <1>1 DEF claim_for_revocation
    <2>2. (IF row[c].account THEN "delete" ELSE "lookup") \in Steps \ {"idle"} /\ 0 \in 0..MaxKey
      BY DEF Steps, ManagedAssumption
    <2>3. CallsOK'
      BY <2>1, <2>2, StartType
    <2>4. [row[c] EXCEPT !.state = "revoking"] \in Row
      BY RowFields DEF TypeOK, States
    <2>5. row' \in [Conns -> Row] /\ trail' \in [Conns -> Seq(Event)]
      BY <2>1, <2>4, ExecuteType, Constructors
    <2> QED
      BY <1>1, <2>1, <2>3, <2>5 DEF claim_for_revocation, TypeOK, provider
  <1>2. ASSUME revocation_target(p) PROVE TypeOK'
    <2>1. ~At(p, "idle")
      BY <1>2 DEF revocation_target, At
    <2>2. CallsOK'
      BY <1>2, <2>1, ToType DEF revocation_target, Steps, At
    <2> QED
      BY <1>2, <2>2 DEF revocation_target, TypeOK, store, provider
  <1>3. ASSUME delete_account_confirmed(p) PROVE TypeOK'
    <2>1. ~At(p, "idle")
      BY <1>3 DEF delete_account_confirmed, At
    <2>2. CallsOK'
      BY <1>3, <2>1, ToType DEF delete_account_confirmed, Steps, At
    <2>3. account' \in [Conns -> Account] /\ late' \in [Conns -> SUBSET Request]
      BY <1>3, <2>1, Running, Constructors DEF delete_account_confirmed, MayApply, provider
    <2> QED
      BY <1>3, <2>2, <2>3 DEF delete_account_confirmed, TypeOK, store
  <1>4. ASSUME credential_is_gone(p) PROVE TypeOK'
    <2>1. ~At(p, "idle")
      BY <1>4 DEF credential_is_gone, At
    <2>2. CallsOK'
      BY <1>4, <2>1, ToType DEF credential_is_gone, Steps, At
    <2> QED
      BY <1>4, <2>2 DEF credential_is_gone, TypeOK, store, provider
  <1>5. ASSUME end_revocation(p) PROVE TypeOK'
    <2>1. ~At(p, "idle")
      BY <1>5 DEF end_revocation, At
    <2>2. CallsOK'
      BY <1>5, <2>1, ToType DEF end_revocation, Steps, At
    <2>3. PICK out \in DbOutcomes :
             UNCHANGED store \/ Execute(call[p].conn, NoRow, <<"revoked">>, out)
      BY <1>5 DEF end_revocation, delete_connection_recorded
    <2>4. <<"revoked">> \in Seq(Event)
      BY Constructors DEF Event
    <2>5. CASE UNCHANGED store
      BY <1>5, <2>2, <2>5 DEF end_revocation, TypeOK, store, provider
    <2>6. CASE Execute(call[p].conn, NoRow, <<"revoked">>, out)
      <3>1. row' \in [Conns -> Row] /\ trail' \in [Conns -> Seq(Event)]
        BY <2>1, <2>4, <2>6, Running, Constructors, ExecuteType
      <3> QED
        BY <1>5, <2>2, <3>1 DEF end_revocation, TypeOK, provider
    <2> QED
      BY <2>3, <2>5, <2>6
  <1> QED
    BY <1>1, <1>2, <1>3, <1>4, <1>5 DEF Revoke

(* A dropped call leaves the types alone. *)
LEMMA CancelType ==
    ASSUME TypeOK, ManagedAssumption, NEW p \in Calls, Cancel(p)
    PROVE  TypeOK'
  <1>1. CallsOK'
    BY ToType DEF Cancel, Steps, At
  <1>2. InFlight(p) \subseteq Request
    BY Running, Constructors DEF Cancel, InFlight
  <1> QED
    BY <1>1, <1>2 DEF Cancel, TypeOK, store

(* What happens around the calls. *)
LEMMA OutsideType ==
    ASSUME TypeOK, ManagedAssumption, NEW c \in Conns, Land(c) \/ Vanish(c) \/ LeaseExpires(c)
    PROVE  TypeOK'
  <1>1. CASE Land(c)
    <2>1. PICK r \in late[c] :
             /\ r.kind = "replace" => "late_replace" \in Faults
             /\ late' = [late EXCEPT ![c] = @ \ {r}]
             /\ account' = [account EXCEPT ![c] =
                   CASE r.kind = "create" -> NewAccount
                     [] r.kind = "delete" -> Absent
                     [] r.kind = "replace" -> IF Live(c) THEN [@ EXCEPT !.key = r.key] ELSE @]
      BY <1>1 DEF Land
    <2>2. account[c] \in Account /\ r \in Request
      BY DEF TypeOK
    <2>3. r.key \in 0..MaxKey /\ r.kind \in {"create", "delete", "replace"}
      BY <2>2 DEF Request, CreateRequest, DeleteRequest, ReplaceRequest, ManagedAssumption
    <2>4. [account[c] EXCEPT !.key = r.key] \in Account
      BY <2>2, <2>3 DEF Account
    <2>5. PICK a \in Account : account' = [account EXCEPT ![c] = a]
      BY <2>1, <2>2, <2>3, <2>4, Constructors
    <2>6. late' \in [Conns -> SUBSET Request]
      BY <2>1 DEF TypeOK
    <2> QED
      BY <1>1, <2>5, <2>6 DEF Land, TypeOK, CallsOK, store
  <1>2. CASE Vanish(c)
    BY <1>2, Constructors DEF Vanish, TypeOK, CallsOK, store
  <1>3. CASE LeaseExpires(c)
    <2>1. row[c] \in Row
      BY DEF TypeOK
    <2> QED
      BY <1>3, <2>1, RowFields DEF LeaseExpires, TypeOK, CallsOK, provider
  <1> QED
    BY <1>1, <1>2, <1>3

(* The lease, the state and the recorded identifiers of every row, the     *)
(* accounts at the provider, the abandoned requests and the calls keep     *)
(* their types through every statement, provider call and fault.           *)
THEOREM TypeCorrect == Spec => []TypeOK
  <1> USE ManagedAssumption
  <1>1. Init => TypeOK
    <2> SUFFICES ASSUME Init PROVE TypeOK
      OBVIOUS
    <2>1. 1 \in 1..MaxKey /\ 0 \in 0..MaxKey
      BY DEF ManagedAssumption
    <2>2. Idle.conn = NoConn /\ Idle.pc = "idle" /\ Idle.tries = 0
      BY DEF Idle, Began
    <2> QED
      BY <2>1, <2>2, Constructors DEF Init, TypeOK, CallsOK, CREATE_RECONCILIATION_ATTEMPTS
  <1>2. TypeOK /\ [Next]_vars => TypeOK'
    <2> SUFFICES ASSUME TypeOK, [Next]_vars PROVE TypeOK'
      OBVIOUS
    <2>1. CASE UNCHANGED vars
      BY <2>1 DEF vars, TypeOK, CallsOK
    <2>2. ASSUME NEW p \in Calls, Create(p) PROVE TypeOK'
      BY <2>2, CreateType
    <2>3. ASSUME NEW p \in Calls, Rotate(p) PROVE TypeOK'
      BY <2>3, RotateType
    <2>4. ASSUME NEW p \in Calls, Revoke(p) PROVE TypeOK'
      BY <2>4, RevokeType
    <2>5. ASSUME NEW p \in Calls, Cancel(p) PROVE TypeOK'
      BY <2>5, CancelType
    <2>6. ASSUME NEW c \in Conns, Land(c) \/ Vanish(c) \/ LeaseExpires(c) PROVE TypeOK'
      BY <2>6, OutsideType
    <2> QED
      BY <2>1, <2>2, <2>3, <2>4, <2>5, <2>6 DEF Next
  <1> QED
    BY <1>1, <1>2, PTL DEF Spec

-----------------------------------------------------------------------------
(* Accounts.  A row may be deleted only when its account is gone and no    *)
(* creation can bring it back, and an account may appear only while a row  *)
(* holds its place.  Both rest on who is at work on a connection: one      *)
(* creation at most, and no revocation beside it.                          *)

Creating == {"create", "record_user", "find", "record_credential", "grant", "complete",
             "compensate", "discard", "drop", "cleanup", "probe"}
Revoking == {"lookup", "delete", "verify", "end"}

(* The creation of the account may still land. *)
Pending(c) == CreateRequest \in late[c]

(* What a connection's row says of its account. *)
Accounted ==
    \A c \in Conns :
        /\ row[c].state = "none" => row[c] = NoRow
        /\ c \notin used => row[c] = NoRow
        /\ Live(c) \/ Pending(c) => row[c] # NoRow
        /\ ~(Live(c) /\ Pending(c))

(* What a call at work on a connection may rely on. *)
Relied(p) ==
    LET c == call[p].conn
    IN  /\ call[p].pc # "idle" => c \in used
        /\ call[p].pc \in (Creating \ {"probe", "cleanup"}) \cup Revoking => ~Pending(c)
        /\ call[p].pc \in {"create", "discard", "drop", "end"} => ~Live(c)
        /\ call[p].pc = "create" => row[c] # NoRow

(* A creation works alone. *)
Apart(p, q) ==
    call[p].conn = call[q].conn /\ call[p].pc \in Creating =>
        call[q].pc \notin Creating \cup Revoking

AccountsInv ==
    /\ Accounted
    /\ \A p \in Calls : Relied(p)
    /\ \A p, q \in Calls : p # q => Apart(p, q)

(* A step of call p on connection c leaves everything else alone. *)
Frame(p, c) ==
    /\ \A q \in Calls \ {p} : call'[q] = call[q]
    /\ \A d \in Conns \ {c} : row'[d] = row[d] /\ account'[d] = account[d] /\ late'[d] = late[d]
    /\ used' = used \cup {c}
    /\ call'[p].pc # "idle" => call'[p].conn = c

(* Only its creation brings an account, only the end of a creation or of a *)
(* revocation takes a row away.                                            *)
Owned(p, c) ==
    /\ (Live(c)' /\ ~Live(c)) \/ (Pending(c)' /\ ~Pending(c)) =>
          call[p].pc = "create" /\ call[p].conn = c
    /\ row'[c] = NoRow /\ row[c] # NoRow =>
          call[p].pc \in {"discard", "drop", "end"} /\ call[p].conn = c

(* A creation starts on a fresh identifier, a revocation beside none. *)
Starts(p, c) ==
    /\ call'[p].pc \in Creating =>
          c \notin used \/ (call[p].pc \in Creating /\ call[p].conn = c)
    /\ call'[p].pc \in Revoking =>
          \/ call[p].pc \in Revoking /\ call[p].conn = c
          \/ \A q \in Calls : call[q].conn = c => call[q].pc \notin Creating

AccountedAt(c) ==
    /\ row[c].state = "none" => row[c] = NoRow
    /\ Live(c) \/ Pending(c) => row[c] # NoRow
    /\ ~(Live(c) /\ Pending(c))

(* What a step must show of its own call and connection. *)
LEMMA LocalStep ==
    ASSUME TypeOK, ManagedAssumption, AccountsInv, NEW p \in Calls, NEW c \in Conns,
           Frame(p, c), Owned(p, c), Starts(p, c), AccountedAt(c)', Relied(p)'
    PROVE  AccountsInv'
  <1>1. Accounted'
    <2> SUFFICES ASSUME NEW d \in Conns
                 PROVE  AccountedAt(d)' /\ (d \notin used' => row'[d] = NoRow)
      BY DEF Accounted, AccountedAt
    <2>1. CASE d = c
      BY <2>1 DEF Frame
    <2>2. CASE d # c
      BY <2>2 DEF Frame, AccountsInv, Accounted, AccountedAt, Live, Pending
    <2> QED
      BY <2>1, <2>2
  <1>2. ASSUME NEW q \in Calls PROVE Relied(q)'
    <2>1. CASE q = p
      BY <2>1
    <2>2. CASE q # p /\ call[q].conn # c /\ call[q].pc # "idle"
      <3>1. call[q].conn \in Conns /\ call'[q] = call[q] /\ Relied(q)
        BY <2>2, Running DEF Frame, AccountsInv, At
      <3> QED
        BY <2>2, <3>1 DEF Frame, Relied, Live, Pending
    <2>4. CASE q # p /\ call[q].pc = "idle"
      <3>1. call'[q] = call[q]
        BY <2>4 DEF Frame
      <3> QED
        BY <2>4, <3>1 DEF Relied, Creating, Revoking
    <2>3. CASE q # p /\ call[q].conn = c /\ call[q].pc # "idle"
      <3>1. call'[q] = call[q] /\ Relied(q) /\ Apart(p, q) /\ Apart(q, p)
        BY <2>3 DEF Frame, AccountsInv
      <3>2. c \in used'
        BY DEF Frame
      <3>3. call[q].pc \in Creating \cup Revoking => ~(call[p].pc = "create" /\ call[p].conn = c)
        BY <2>3, <3>1 DEF Apart, Creating
      <3>4. call[q].pc = "create" => ~(call[p].pc \in {"discard", "drop", "end"} /\ call[p].conn = c)
        BY <2>3, <3>1 DEF Apart, Creating, Revoking
      <3>5. call[q].pc \in (Creating \ {"probe", "cleanup"}) \cup Revoking => ~Pending(c)'
        BY <2>3, <3>1, <3>3 DEF Relied, Owned
      <3>6. call[q].pc \in {"create", "discard", "drop", "end"} => ~Live(c)'
        BY <2>3, <3>1, <3>3 DEF Relied, Owned, Creating, Revoking
      <3>7. call[q].pc = "create" => row'[c] # NoRow
        BY <2>3, <3>1, <3>4 DEF Relied, Owned
      <3> QED
        BY <2>3, <3>1, <3>2, <3>5, <3>6, <3>7 DEF Relied, Live, Pending
    <2> QED
      BY <2>1, <2>2, <2>3, <2>4
  <1>3. ASSUME NEW a \in Calls, NEW b \in Calls, a # b PROVE Apart(a, b)'
    <2>1. CASE a # p /\ b # p
      BY <1>3, <2>1 DEF Frame, AccountsInv, Apart
    <2>2. CASE a = p
      <3>1. call'[b] = call[b] /\ Relied(b) /\ Apart(p, b)
        BY <1>3, <2>2 DEF Frame, AccountsInv
      <3> QED
        BY <2>2, <3>1 DEF Apart, Frame, Starts, Relied, Creating, Revoking
    <2>3. CASE b = p
      <3>1. call'[a] = call[a] /\ Relied(a) /\ Apart(a, p)
        BY <1>3, <2>3 DEF Frame, AccountsInv
      <3> QED
        BY <2>3, <3>1 DEF Apart, Frame, Starts, Relied, Creating, Revoking
    <2> QED
      BY <2>1, <2>2, <2>3
  <1> QED
    BY <1>1, <1>2, <1>3 DEF AccountsInv

(* Where a call goes, and what the other calls do. *)
Goes(p, s) ==
    /\ call'[p].pc = s
    /\ s # "idle" => call'[p].conn = call[p].conn
    /\ \A q \in Calls \ {p} : call'[q] = call[q]

(* What To(p, s) does to the calls. *)
LEMMA ToStep ==
    ASSUME TypeOK, NEW p \in Calls, NEW s, To(p, s)
    PROVE  Goes(p, s)
  <1>1. call \in [Calls -> Call] /\ call[p] \in Call
    BY DEF TypeOK, CallsOK
  <1>2. CASE s = "idle"
    BY <1>1, <1>2 DEF Goes, To, Idle, Began
  <1>3. CASE s # "idle"
    BY <1>1, <1>3 DEF Goes, To, Call
  <1> QED
    BY <1>2, <1>3

(* The row stays, or stays away. *)
KeepsRow(c) ==
    /\ row'[c].state = "none" => row'[c] = NoRow
    /\ row'[c] = NoRow <=> row[c] = NoRow
    /\ \A d \in Conns \ {c} : row'[d] = row[d]

(* A step on an account already there, or not there, that keeps the row. *)
LEMMA QuietStep ==
    ASSUME TypeOK, ManagedAssumption, AccountsInv,
           NEW p \in Calls, NEW c \in Conns, call[p].conn = c, ~At(p, "idle"),
           NEW s \in Steps \ {"create"}, Goes(p, s),
           s \in Creating => call[p].pc \in Creating,
           s \in Revoking => call[p].pc \in Revoking,
           KeepsRow(c),
           \A d \in Conns \ {c} : account'[d] = account[d] /\ late'[d] = late[d],
           Live(c)' => Live(c),
           Pending(c)' => Pending(c),
           used' = used,
           s \in (Creating \ {"probe", "cleanup"}) \cup Revoking => ~Pending(c),
           s \in {"discard", "drop", "end"} => ~Live(c)'
    PROVE  AccountsInv'
  <1>1. Relied(p) /\ Accounted /\ c \in used
    BY DEF AccountsInv, Relied, At
  <1>2. /\ call'[p].pc = s
        /\ s # "idle" => call'[p].conn = c
        /\ \A q \in Calls \ {p} : call'[q] = call[q]
    BY DEF Goes
  <1>3. Frame(p, c)
    BY <1>1, <1>2 DEF Frame, KeepsRow
  <1>4. Owned(p, c)
    BY DEF Owned, KeepsRow
  <1>5. Starts(p, c)
    BY <1>2 DEF Starts
  <1>6. AccountedAt(c)'
    BY <1>1 DEF Accounted, AccountedAt, KeepsRow
  <1>7. Relied(p)'
    <2>1. CASE s = "idle"
      BY <1>2, <2>1 DEF Relied, Creating, Revoking
    <2>2. CASE s # "idle"
      BY <1>1, <1>2, <2>2 DEF Relied, Live, Pending
    <2> QED
      BY <2>1, <2>2
  <1> QED
    BY <1>3, <1>4, <1>5, <1>6, <1>7, LocalStep

(* A statement that leaves a row where there was one. *)
LEMMA ExecuteKeeps ==
    ASSUME TypeOK, Accounted, NEW c \in Conns, NEW r, NEW e, NEW out, Execute(c, r, e, out),
           r.state = "none" => r = NoRow,
           r = NoRow <=> row[c] = NoRow
    PROVE  KeepsRow(c)
  BY DEF TypeOK, Accounted, Execute, KeepsRow

(* transition_state neither makes a row nor removes one. *)
LEMMA TransitionKeeps ==
    ASSUME TypeOK, Accounted, NEW c \in Conns, NEW from, NEW to, from # "none", to # "none",
           NEW e, NEW out, transition_state(c, from, to, e, out)
    PROVE  KeepsRow(c)
  <1>1. row[c] \in Row /\ NoRow.state = "none"
    BY DEF TypeOK, NoRow
  <1>2. [row[c] EXCEPT !.state = to].state = to
    BY <1>1 DEF Row
  <1>3. CASE row[c].state = from
    BY <1>1, <1>2, <1>3, ExecuteKeeps DEF transition_state
  <1>4. CASE row[c].state # from
    BY <1>4 DEF transition_state, store, KeepsRow, Accounted
  <1> QED
    BY <1>3, <1>4

(* A step that only moves its call. *)
LEMMA MoveStep ==
    ASSUME TypeOK, ManagedAssumption, AccountsInv, NEW p \in Calls, ~At(p, "idle"),
           NEW s \in Steps \ {"create"}, Goes(p, s), UNCHANGED <<store, provider, used>>,
           s \in Creating => call[p].pc \in Creating,
           s \in Revoking => call[p].pc \in Revoking,
           s \in (Creating \ {"probe", "cleanup"}) \cup Revoking => ~Pending(call[p].conn),
           s \in {"discard", "drop", "end"} => ~Live(call[p].conn)
    PROVE  AccountsInv'
  <1> DEFINE c == call[p].conn
  <1>1. c \in Conns /\ Accounted
    BY Running DEF AccountsInv
  <1>2. /\ KeepsRow(c) /\ used' = used
        /\ \A d \in Conns \ {c} : account'[d] = account[d] /\ late'[d] = late[d]
        /\ account'[c] = account[c] /\ late'[c] = late[c]
    BY <1>1 DEF KeepsRow, Accounted, store, provider
  <1> QED
    BY <1>1, <1>2, QuietStep DEF Live, Pending

(* A step that writes the row and moves its call. *)
LEMMA WriteStep ==
    ASSUME TypeOK, ManagedAssumption, AccountsInv, NEW p \in Calls, ~At(p, "idle"),
           NEW s \in Steps \ {"create"}, Goes(p, s), UNCHANGED <<provider, used>>,
           KeepsRow(call[p].conn),
           s \in Creating => call[p].pc \in Creating,
           s \notin Revoking,
           s \in Creating \ {"probe", "cleanup"} => ~Pending(call[p].conn),
           s \notin {"discard", "drop"}
    PROVE  AccountsInv'
  <1> DEFINE c == call[p].conn
  <1>1. c \in Conns
    BY Running
  <1>2. /\ \A d \in Conns \ {c} : account'[d] = account[d] /\ late'[d] = late[d]
        /\ account'[c] = account[c] /\ late'[c] = late[c]
    BY DEF provider
  <1> QED
    BY <1>1, <1>2, QuietStep DEF Live, Pending, Revoking

(* The end of a creation or of a revocation takes the row away. *)
LEMMA EndStep ==
    ASSUME TypeOK, ManagedAssumption, AccountsInv, NEW p \in Calls,
           call[p].pc \in {"discard", "drop", "end"},
           NEW s \in {"idle", "cleanup"}, Goes(p, s), s = "cleanup" => call[p].pc = "discard",
           UNCHANGED <<provider, used>>,
           NEW e, NEW out, Execute(call[p].conn, NoRow, e, out)
    PROVE  AccountsInv'
  <1> ~At(p, "idle")
    BY DEF At
  <1>0. PICK c \in Conns : c = call[p].conn
    BY Running
  <1>1. c \in used /\ ~Live(c) /\ ~Pending(c) /\ Accounted
    BY <1>0 DEF AccountsInv, Relied, At, Creating, Revoking
  <1>2. /\ row'[c] \in {row[c], NoRow}
        /\ \A d \in Conns \ {c} : row'[d] = row[d]
    BY <1>0 DEF Execute, TypeOK
  <1>3. account' = account /\ late' = late /\ used' = used
    BY DEF provider
  <1>4. Frame(p, c)
    BY <1>0, <1>1, <1>2, <1>3 DEF Frame, Goes
  <1>5. Owned(p, c)
    BY <1>0, <1>1, <1>3 DEF Owned, Live, Pending
  <1>6. Starts(p, c)
    BY <1>0 DEF Starts, Goes, Creating, Revoking
  <1>7. AccountedAt(c)'
    BY <1>1, <1>2, <1>3 DEF AccountedAt, Accounted, Live, Pending, NoRow
  <1>8. Relied(p)'
    BY <1>0, <1>1, <1>3 DEF Relied, Goes, Creating, Revoking
  <1> QED
    BY <1>1, <1>4, <1>5, <1>6, <1>7, <1>8, LocalStep

(* Every step of create keeps the accounts accounted for. *)
LEMMA InsertAccounts ==
    ASSUME TypeOK, ManagedAssumption, AccountsInv, NEW p \in Calls, insert_provisioning(p)
    PROVE  AccountsInv'
  <1>1. PICK c \in Conns \ used, out \in DbOutcomes :
                 /\ used' = used \cup {c}
                 /\ Execute(c, NewRow, <<>>, out)
                 /\ call' = [call EXCEPT ![p] = IF out = "ok" THEN Began("create", c, 0) ELSE Idle]
    BY DEF insert_provisioning
  <1>2. Accounted /\ row[c] = NoRow /\ ~Live(c) /\ ~Pending(c)
    BY <1>1 DEF AccountsInv, Accounted
  <1>3. account' = account /\ late' = late
    BY DEF insert_provisioning, provider
  <1>4. /\ row'[c] = IF out = "failed" THEN NoRow ELSE NewRow
        /\ \A d \in Conns \ {c} : row'[d] = row[d]
    BY <1>1, <1>2 DEF Execute, TypeOK
  <1>5. NewRow # NoRow /\ NewRow.state = "provisioning"
    BY DEF NewRow, NoRow
  <1>6. /\ call'[p].pc = IF out = "ok" THEN "create" ELSE "idle"
        /\ call'[p].pc # "idle" => call'[p].conn = c
        /\ \A q \in Calls \ {p} : call'[q] = call[q]
    BY <1>1 DEF Began, Idle, TypeOK, CallsOK
  <1>7. Frame(p, c)
    BY <1>1, <1>3, <1>4, <1>6 DEF Frame
  <1>8. Owned(p, c)
    BY <1>2, <1>3 DEF Owned, Live, Pending
  <1>9. Starts(p, c)
    BY <1>1, <1>6 DEF Starts, Revoking
  <1>10. AccountedAt(c)'
    BY <1>2, <1>3, <1>4, <1>5 DEF AccountedAt, Live, Pending
  <1>11. Relied(p)'
    BY <1>1, <1>2, <1>3, <1>4, <1>5, <1>6 DEF Relied, Live, Pending, Creating, Revoking
  <1> QED
    BY <1>1, <1>7, <1>8, <1>9, <1>10, <1>11, LocalStep

(* A request to create the account is made while the row holds its place. *)
LEMMA RequestStep ==
    ASSUME TypeOK, ManagedAssumption, AccountsInv, NEW p \in Calls, At(p, "create"),
           NEW s \in {"idle", "record_user", "probe"}, Goes(p, s), UNCHANGED <<store, used>>,
           MayApply(call[p].conn, CreateRequest, NewAccount),
           s = "record_user" => UNCHANGED late
    PROVE  AccountsInv'
  <1> ~At(p, "idle")
    BY DEF At
  <1>0. PICK c \in Conns : c = call[p].conn
    BY Running
  <1>1. /\ c \in used /\ ~Live(c) /\ ~Pending(c) /\ row[c] # NoRow
        /\ Accounted
    BY <1>0 DEF AccountsInv, Relied, At, Creating
  <1>2. row' = row /\ used' = used
    BY DEF store
  <1>3. \A d \in Conns \ {c} : account'[d] = account[d] /\ late'[d] = late[d]
    BY <1>0 DEF MayApply, provider, TypeOK
  <1>4. ~(Live(c)' /\ Pending(c)')
    BY <1>0, <1>1 DEF MayApply, provider, TypeOK, Live, Pending
  <1>5. Frame(p, c)
    BY <1>0, <1>1, <1>2, <1>3 DEF Frame, Goes
  <1>6. Owned(p, c)
    BY <1>0, <1>2 DEF Owned, At
  <1>7. Starts(p, c)
    BY <1>0 DEF Starts, Goes, At, Creating, Revoking
  <1>8. AccountedAt(c)'
    BY <1>1, <1>2, <1>4 DEF AccountedAt, Accounted
  <1>9. Relied(p)'
    BY <1>0, <1>1, <1>2 DEF Relied, Goes, Creating, Revoking, Pending
  <1> QED
    BY <1>5, <1>6, <1>7, <1>8, <1>9, LocalStep

(* A request to delete an account, or to change one, creates none. *)
LEMMA AccountStep ==
    ASSUME TypeOK, ManagedAssumption, AccountsInv, NEW p \in Calls, ~At(p, "idle"),
           NEW s \in Steps \ {"create", "drop"}, Goes(p, s), UNCHANGED <<store, used>>,
           s \in Creating => call[p].pc \in Creating,
           s \in Revoking => call[p].pc \in Revoking,
           s \in (Creating \ {"probe", "cleanup"}) \cup Revoking => ~Pending(call[p].conn),
           NEW a \in Account, a.key # 0 => Live(call[p].conn),
           s \in {"discard", "end"} => a = Absent /\ account' = [account EXCEPT ![call[p].conn] = a],
           NEW r, r # CreateRequest, MayApply(call[p].conn, r, a)
    PROVE  AccountsInv'
  <1>0. PICK c \in Conns : c = call[p].conn
    BY Running
  <1>1. Accounted
    BY DEF AccountsInv
  <1>2. KeepsRow(c) /\ used' = used
    BY <1>1 DEF KeepsRow, Accounted, store
  <1>3. \A d \in Conns \ {c} : account'[d] = account[d] /\ late'[d] = late[d]
    BY <1>0 DEF MayApply, provider, TypeOK
  <1>4. (Live(c)' => Live(c)) /\ (Pending(c)' => Pending(c))
    BY <1>0 DEF MayApply, provider, TypeOK, Live, Pending
  <1>5. s \in {"discard", "end"} => ~Live(c)'
    <2>1. account \in [Conns -> Account] /\ Absent.key = 0
      BY DEF TypeOK, Absent
    <2>2. [account EXCEPT ![c] = Absent][c] = Absent
      BY <2>1
    <2>3. QED
      BY <1>0, <2>1, <2>2 DEF Live
  <1> QED
    BY <1>0, <1>2, <1>3, <1>4, <1>5, QuietStep

(* Recording an identifier neither makes a row nor removes one. *)
LEMMA RecordedKeeps ==
    ASSUME TypeOK, Accounted, NEW c \in Conns, NEW field \in {"account", "credential"}
    PROVE  /\ Recorded(row[c], field).state = "none" => Recorded(row[c], field) = NoRow
           /\ Recorded(row[c], field) = NoRow <=> row[c] = NoRow
  <1>1. row[c] \in Row /\ (row[c].state = "none" => row[c] = NoRow) /\ NoRow.state = "none"
    BY DEF TypeOK, Accounted, NoRow
  <1>2. /\ [row[c] EXCEPT !.account = TRUE].state = row[c].state
        /\ [row[c] EXCEPT !.credential = TRUE].state = row[c].state
    BY <1>1 DEF Row
  <1> QED
    BY <1>1, <1>2 DEF Recorded

(* Each step of create keeps every account accounted for. *)
LEMMA CreateAccounts ==
    ASSUME TypeOK, ManagedAssumption, AccountsInv, NEW p \in Calls, Create(p)
    PROVE  AccountsInv'
  <1>1. CASE insert_provisioning(p)
    BY <1>1, InsertAccounts
  <1>2. CASE create_account(p)
    <2>1. ~At(p, "idle") /\ Relied(p)
      BY <1>2 DEF create_account, At, AccountsInv
    <2>2. CASE UNCHANGED provider /\ To(p, "drop")
      BY <1>2, <2>1, <2>2, ToStep, MoveStep
      DEF create_account, At, Relied, Steps, Creating, Revoking
    <2>3. CASE /\ account' = [account EXCEPT ![call[p].conn] = NewAccount]
               /\ UNCHANGED late
               /\ To(p, "record_user")
      BY <1>2, <2>3, ToStep, RequestStep DEF create_account, MayApply
    <2>4. CASE MayApply(call[p].conn, CreateRequest, NewAccount) /\ To(p, "probe")
      BY <1>2, <2>4, ToStep, RequestStep DEF create_account
    <2> QED
      BY <1>2, <2>2, <2>3, <2>4 DEF create_account
  <1>3. CASE record_provider_user(p)
    <2>1. ~At(p, "idle") /\ Relied(p) /\ Accounted
      BY <1>3 DEF record_provider_user, At, AccountsInv
    <2>2. PICK out \in DbOutcomes :
             /\ Execute(call[p].conn, Recorded(row[call[p].conn], "account"), <<>>, out)
             /\ To(p, IF out = "ok" THEN "find" ELSE "compensate")
      BY <1>3 DEF record_provider_user
    <2>3. KeepsRow(call[p].conn)
      BY <2>1, <2>2, Running, RecordedKeeps, ExecuteKeeps
    <2> QED
      BY <1>3, <2>1, <2>2, <2>3, ToStep, WriteStep
      DEF record_provider_user, At, Relied, Steps, Creating, Revoking
  <1>4. CASE find_credentials(p)
    <2>1. ~At(p, "idle") /\ Relied(p)
      BY <1>4 DEF find_credentials, At, AccountsInv
    <2> QED
      BY <1>4, <2>1, ToStep, MoveStep
      DEF find_credentials, At, Relied, Steps, Creating, Revoking
  <1>5. CASE record_credential_identifier(p)
    <2>1. ~At(p, "idle") /\ Relied(p) /\ Accounted
      BY <1>5 DEF record_credential_identifier, At, AccountsInv
    <2>2. PICK out \in DbOutcomes :
             /\ Execute(call[p].conn, Recorded(row[call[p].conn], "credential"), <<>>, out)
             /\ To(p, IF out = "ok" THEN "grant" ELSE "compensate")
      BY <1>5 DEF record_credential_identifier
    <2>3. KeepsRow(call[p].conn)
      BY <2>1, <2>2, Running, RecordedKeeps, ExecuteKeeps
    <2> QED
      BY <1>5, <2>1, <2>2, <2>3, ToStep, WriteStep
      DEF record_credential_identifier, At, Relied, Steps, Creating, Revoking
  <1>6. CASE grant(p)
    <2>1. ~At(p, "idle") /\ Relied(p) /\ Accounted
      BY <1>6 DEF grant, At, AccountsInv
    <2>2. PICK c \in Conns : c = call[p].conn
      BY <2>1, Running
    <2>3. [account[c] EXCEPT !.granted = TRUE].key = account[c].key
      BY <2>1, <2>2, Running DEF Account
    <2>4. /\ \A d \in Conns \ {c} : account'[d] = account[d] /\ late'[d] = late[d]
          /\ Live(c)' => Live(c)
          /\ Pending(c)' => Pending(c)
      BY <1>6, <2>1, <2>2, <2>3, Running DEF grant, Live, Pending, Absent
    <2>5. KeepsRow(c) /\ used' = used
      BY <1>6, <2>1 DEF grant, KeepsRow, Accounted, store
    <2>6. PICK s \in {"complete", "compensate"} : To(p, s)
      BY <1>6 DEF grant
    <2>7. Goes(p, s)
      BY <2>6, ToStep
    <2>8. /\ s \in Steps \ {"create"} /\ s \notin Revoking /\ s \notin {"discard", "drop", "end"}
          /\ call[p].pc \in Creating /\ ~Pending(c)
      BY <1>6, <2>1, <2>2 DEF grant, At, Relied, Steps, Creating, Revoking
    <2> QED
      BY <2>1, <2>2, <2>4, <2>5, <2>7, <2>8, QuietStep
  <1>7. CASE complete_provisioning(p)
    <2>1. ~At(p, "idle") /\ Relied(p) /\ Accounted
      BY <1>7 DEF complete_provisioning, At, AccountsInv
    <2>2. PICK out \in DbOutcomes : transition_state(call[p].conn, "provisioning", "active", <<"created">>, out)
      BY <1>7 DEF complete_provisioning
    <2>3. KeepsRow(call[p].conn)
      BY <2>1, <2>2, Running, TransitionKeeps
    <2> QED
      BY <1>7, <2>1, <2>3, ToStep, WriteStep
      DEF complete_provisioning, At, Relied, Steps, Creating, Revoking
  <1>8. CASE compensate_created_account(p)
    <2>1. ~At(p, "idle") /\ Relied(p)
      BY <1>8 DEF compensate_created_account, At, AccountsInv
    <2>2. Absent \in Account /\ Absent.key = 0 /\ DeleteRequest # CreateRequest
      BY Constructors DEF Absent, DeleteRequest, CreateRequest
    <2>5. /\ call[p].pc \in Creating /\ ~Pending(call[p].conn)
          /\ {"discard", "cleanup"} \subseteq Steps \ ({"create", "drop", "end"} \cup Revoking)
          /\ UNCHANGED <<store, used>>
      BY <1>8, <2>1 DEF compensate_created_account, At, Relied, Steps, Creating, Revoking
    <2>3. CASE /\ account' = [account EXCEPT ![call[p].conn] = Absent]
               /\ UNCHANGED late /\ To(p, "discard")
      <3>1. Goes(p, "discard") /\ MayApply(call[p].conn, DeleteRequest, Absent)
        BY <2>3, ToStep DEF MayApply
      <3> QED
        BY <2>1, <2>2, <2>3, <2>5, <3>1, AccountStep
    <2>4. CASE MayApply(call[p].conn, DeleteRequest, Absent) /\ To(p, "cleanup")
      <3>1. Goes(p, "cleanup")
        BY <2>4, ToStep
      <3> QED
        BY <2>1, <2>2, <2>4, <2>5, <3>1, AccountStep
    <2> QED
      BY <1>8, <2>3, <2>4 DEF compensate_created_account
  <1>9. CASE discard_row(p)
    BY <1>9, ToStep, EndStep DEF discard_row, delete_connection, At
  <1>10. CASE drop_row(p)
    BY <1>10, ToStep, EndStep DEF drop_row, delete_connection, At
  <1>11. CASE cleanup_required(p)
    <2>1. ~At(p, "idle") /\ Relied(p) /\ Accounted
      BY <1>11 DEF cleanup_required, At, AccountsInv
    <2>2. PICK out \in DbOutcomes : transition_state(call[p].conn, "provisioning", "cleanup_required", <<>>, out)
      BY <1>11 DEF cleanup_required
    <2>3. KeepsRow(call[p].conn)
      BY <2>1, <2>2, Running, TransitionKeeps
    <2> QED
      BY <1>11, <2>1, <2>3, ToStep, WriteStep
      DEF cleanup_required, At, Relied, Steps, Creating, Revoking
  <1>12. CASE recover_ambiguous_create(p)
    <2>1. ~At(p, "idle") /\ Accounted
      BY <1>12 DEF recover_ambiguous_create, At, AccountsInv
    <2>2. CASE Live(call[p].conn) /\ To(p, "compensate")
      <3>1. ~Pending(call[p].conn)
        BY <2>1, <2>2, Running DEF Accounted
      <3> QED
        BY <1>12, <2>1, <2>2, <3>1, ToStep, MoveStep
        DEF recover_ambiguous_create, At, Steps, Creating, Revoking
    <2>3. CASE To(p, "cleanup")
      BY <1>12, <2>1, <2>3, ToStep, MoveStep
      DEF recover_ambiguous_create, At, Steps, Creating, Revoking
    <2>4. CASE ~(Live(call[p].conn) /\ To(p, "compensate")) /\ ~To(p, "cleanup")
      <3> DEFINE n == call[p].tries + 1
                 s == IF n < CREATE_RECONCILIATION_ATTEMPTS THEN "probe" ELSE "cleanup"
      <3>1. call' = [call EXCEPT ![p] = [call[p] EXCEPT !.tries = n, !.pc = s]]
        BY <1>12, <2>4 DEF recover_ambiguous_create
      <3>2. s \in {"probe", "cleanup"}
        OBVIOUS
      <3> HIDE DEF n, s
      <3>3. call \in [Calls -> Call] /\ call[p] \in Call
        BY DEF TypeOK, CallsOK
      <3>4. Goes(p, s)
        BY <3>1, <3>2, <3>3 DEF Goes, Call
      <3> QED
        BY <1>12, <2>1, <3>2, <3>4, MoveStep
        DEF recover_ambiguous_create, At, Steps, Creating, Revoking
    <2> QED
      BY <2>2, <2>3, <2>4
  <1> QED
    BY <1>1, <1>2, <1>3, <1>4, <1>5, <1>6, <1>7, <1>8, <1>9, <1>10, <1>11, <1>12 DEF Create

(* Every step of rotate keeps the accounts accounted for: it creates none. *)
LEMMA BeginAccounts ==
    ASSUME TypeOK, ManagedAssumption, AccountsInv, NEW p \in Calls, NEW c \in Conns, row[c] # NoRow,
           NEW s \in {"replace", "delete", "lookup"}, NEW k,
           NEW r, NEW out, Execute(c, r, <<>>, out), r.state # "none",
           call' = [call EXCEPT ![p] = IF out = "ok" THEN Began(s, c, k) ELSE Idle],
           UNCHANGED <<provider, used>>,
           s # "replace" => /\ ~Pending(c)
                            /\ \A q \in Calls : call[q].conn = c => call[q].pc \notin Creating
    PROVE  AccountsInv'
  <1>1. Accounted /\ c \in used
    BY DEF AccountsInv, Accounted
  <1>2. account' = account /\ late' = late /\ used' = used
    BY DEF provider
  <1>3. KeepsRow(c)
    <2>1. r # NoRow
      BY DEF NoRow
    <2> QED
      BY <1>1, <2>1, ExecuteKeeps
  <1>4. /\ call'[p].pc = IF out = "ok" THEN s ELSE "idle"
        /\ call'[p].pc # "idle" => call'[p].conn = c
        /\ \A q \in Calls \ {p} : call'[q] = call[q]
    BY DEF Began, Idle, TypeOK, CallsOK
  <1>5. Frame(p, c)
    BY <1>1, <1>2, <1>3, <1>4 DEF Frame, KeepsRow
  <1>6. Owned(p, c)
    BY <1>2, <1>3 DEF Owned, KeepsRow, Live, Pending
  <1>7. Starts(p, c)
    <2>1. call'[p].pc \notin Creating
      BY <1>4 DEF Creating
    <2>2. call'[p].pc \in Revoking => s # "replace"
      BY <1>4 DEF Revoking
    <2>3. QED
      BY <2>1, <2>2 DEF Starts
  <1>8. AccountedAt(c)'
    BY <1>1, <1>2, <1>3 DEF AccountedAt, Accounted, KeepsRow, Live, Pending
  <1>9. Relied(p)'
    <2>1. /\ call'[p].pc \in (Creating \ {"probe", "cleanup"}) \cup Revoking => s # "replace"
          /\ call'[p].pc \notin {"create", "discard", "drop", "end"}
          /\ call'[p].pc \in (Creating \ {"probe", "cleanup"}) \cup Revoking => call'[p].pc # "idle"
      BY <1>4 DEF Creating, Revoking
    <2>2. QED
      BY <1>1, <1>2, <1>4, <2>1 DEF Relied, Pending
  <1> QED
    BY <1>5, <1>6, <1>7, <1>8, <1>9, LocalStep

(* Each step of rotate keeps every account accounted for. *)
LEMMA RotateAccounts ==
    ASSUME TypeOK, ManagedAssumption, AccountsInv, NEW p \in Calls, Rotate(p)
    PROVE  AccountsInv'
  <1>1. CASE begin_rotation(p)
    <2>1. PICK c \in Conns, out \in DbOutcomes :
                 /\ Rotatable(row[c])
                 /\ minted[c] < MaxKey
                 /\ minted' = [minted EXCEPT ![c] = @ + 1]
                 /\ Execute(c, [row[c] EXCEPT !.state = "rotation_unknown", !.leased = TRUE], <<>>, out)
                 /\ call' = [call EXCEPT ![p] =
                                IF out = "ok" THEN Began("replace", c, minted[c] + 1) ELSE Idle]
      BY <1>1 DEF begin_rotation
    <2>2. row[c] # NoRow
      BY <2>1 DEF Rotatable, NoRow
    <2>3. [row[c] EXCEPT !.state = "rotation_unknown", !.leased = TRUE].state # "none"
      BY DEF TypeOK, Row
    <2>4. UNCHANGED <<provider, used>>
      BY <1>1 DEF begin_rotation
    <2> QED
      BY <2>1, <2>2, <2>3, <2>4, BeginAccounts
  <1>2. CASE replace_credential(p)
    <2>1. ~At(p, "idle")
      BY <1>2 DEF replace_credential, At
    <2> DEFINE a == IF Live(call[p].conn) THEN [account[call[p].conn] EXCEPT !.key = call[p].key]
                                          ELSE Absent
               r == ReplaceRequest(call[p].key)
    <2>2. a \in Account /\ (a.key # 0 => Live(call[p].conn)) /\ r # CreateRequest
      <3>1. [account[call[p].conn] EXCEPT !.key = call[p].key] \in Account
        BY <2>1, Running DEF Account
      <3> QED
        BY <3>1, Constructors DEF Absent, ReplaceRequest, CreateRequest
    <2>3. PICK s \in {"rotated", "settle_gone", "confirm", "settle_current", "idle"} :
             To(p, s) /\ MayApply(call[p].conn, r, a)
      BY <1>2 DEF replace_credential, MayApply
    <2>4. Goes(p, s) /\ UNCHANGED <<store, used>>
      BY <1>2, <2>3, ToStep DEF replace_credential
    <2>5. s \in Steps /\ s \notin Creating \cup Revoking /\ s \notin {"create", "drop", "discard", "end"}
      BY <2>3 DEF Steps, Creating, Revoking
    <2> HIDE DEF a, r
    <2> QED
      BY <2>1, <2>2, <2>3, <2>4, <2>5, AccountStep
  <1>3. CASE confirm_credential(p)
    <2>1. ~At(p, "idle") /\ Relied(p)
      BY <1>3 DEF confirm_credential, At, AccountsInv
    <2> QED
      BY <1>3, <2>1, ToStep, MoveStep
      DEF confirm_credential, At, Relied, Steps, Creating, Revoking
  <1>4. CASE settle_failed_rotation(p)
    <2>1. ~At(p, "idle") /\ Relied(p) /\ Accounted
      BY <1>4 DEF settle_failed_rotation, At, AccountsInv
    <2>2. PICK out \in DbOutcomes : transition_state(call[p].conn, "rotation_unknown", (IF At(p, "settle_gone") THEN "cleanup_required" ELSE "active"), <<>>, out)
      BY <1>4 DEF settle_failed_rotation
    <2>3. KeepsRow(call[p].conn)
      BY <2>1, <2>2, Running, TransitionKeeps
    <2> QED
      BY <1>4, <2>1, <2>3, ToStep, WriteStep
      DEF settle_failed_rotation, At, Relied, Steps, Creating, Revoking
  <1>5. CASE complete_rotation(p)
    <2>1. ~At(p, "idle") /\ Relied(p) /\ Accounted
      BY <1>5 DEF complete_rotation, At, AccountsInv
    <2>2. PICK out \in DbOutcomes : transition_state(call[p].conn, "rotation_unknown", "active", <<"rotated">>, out)
      BY <1>5 DEF complete_rotation
    <2>3. KeepsRow(call[p].conn)
      BY <2>1, <2>2, Running, TransitionKeeps
    <2> QED
      BY <1>5, <2>1, <2>3, ToStep, WriteStep
      DEF complete_rotation, At, Relied, Steps, Creating, Revoking
  <1> QED
    BY <1>1, <1>2, <1>3, <1>4, <1>5 DEF Rotate

(* So does every step of revoke, which waits for the creation to settle. *)
LEMMA RevokeAccounts ==
    ASSUME TypeOK, ManagedAssumption, AccountsInv, "early_revoke" \notin Faults,
           NEW p \in Calls, Revoke(p)
    PROVE  AccountsInv'
  <1>1. CASE claim_for_revocation(p)
    <2>1. PICK c \in Conns, out \in DbOutcomes :
                 /\ row[c] # NoRow
                 /\ Unsettled(c) => "early_revoke" \in Faults
                 /\ Execute(c, [row[c] EXCEPT !.state = "revoking"], <<>>, out)
                 /\ call' = [call EXCEPT ![p] = IF out = "ok"
                       THEN Began(IF row[c].account THEN "delete" ELSE "lookup", c, 0) ELSE Idle]
      BY <1>1 DEF claim_for_revocation
    <2>2. ~Pending(c) /\ \A q \in Calls : call[q].conn = c => call[q].pc \notin Creating
      BY <2>1 DEF Unsettled, RotatingAt, Pending, Creating
    <2>3. [row[c] EXCEPT !.state = "revoking"].state # "none"
      BY DEF TypeOK, Row
    <2> DEFINE s == IF row[c].account THEN "delete" ELSE "lookup"
    <2>4. s \in {"delete", "lookup"}
      OBVIOUS
    <2> HIDE DEF s
    <2>5. call' = [call EXCEPT ![p] = IF out = "ok" THEN Began(s, c, 0) ELSE Idle]
      BY <2>1 DEF s
    <2>6. UNCHANGED <<provider, used>>
      BY <1>1 DEF claim_for_revocation
    <2> QED
      BY <2>1, <2>2, <2>3, <2>4, <2>5, <2>6, BeginAccounts
  <1>2. CASE revocation_target(p)
    <2>1. ~At(p, "idle") /\ Relied(p)
      BY <1>2 DEF revocation_target, At, AccountsInv
    <2> QED
      BY <1>2, <2>1, ToStep, MoveStep
      DEF revocation_target, At, Relied, Steps, Creating, Revoking
  <1>3. CASE delete_account_confirmed(p)
    <2>1. ~At(p, "idle") /\ Relied(p)
      BY <1>3 DEF delete_account_confirmed, At, AccountsInv
    <2>2. Absent \in Account /\ Absent.key = 0 /\ DeleteRequest # CreateRequest
      BY Constructors DEF Absent, DeleteRequest, CreateRequest
    <2>3. /\ call[p].pc \in Revoking /\ ~Pending(call[p].conn)
          /\ {"verify", "end"} \subseteq Steps \ ({"create", "drop"} \cup Creating)
          /\ UNCHANGED <<store, used>>
      BY <1>3, <2>1 DEF delete_account_confirmed, At, Relied, Steps, Creating, Revoking
    <2>4. CASE /\ account' = [account EXCEPT ![call[p].conn] = Absent]
               /\ UNCHANGED late /\ To(p, "end")
      <3>1. Goes(p, "end") /\ MayApply(call[p].conn, DeleteRequest, Absent)
        BY <2>4, ToStep DEF MayApply
      <3> QED
        BY <2>1, <2>2, <2>3, <2>4, <3>1, AccountStep
    <2>5. CASE MayApply(call[p].conn, DeleteRequest, Absent) /\ To(p, "verify")
      <3>1. Goes(p, "verify")
        BY <2>5, ToStep
      <3>2. /\ "verify" \in Steps \ {"create", "drop"} /\ "verify" \notin Creating
            /\ "verify" \notin {"discard", "end"}
        BY <2>3
      <3> QED
        BY <2>1, <2>2, <2>3, <2>5, <3>1, <3>2, AccountStep
    <2> QED
      BY <1>3, <2>4, <2>5 DEF delete_account_confirmed
  <1>4. CASE credential_is_gone(p)
    <2>1. ~At(p, "idle") /\ Relied(p)
      BY <1>4 DEF credential_is_gone, At, AccountsInv
    <2> QED
      BY <1>4, <2>1, ToStep, MoveStep
      DEF credential_is_gone, At, Relied, Steps, Creating, Revoking
  <1>5. CASE end_revocation(p)
    <2>1. ~At(p, "idle") /\ Goes(p, "idle") /\ call[p].pc = "end"
      BY <1>5, ToStep DEF end_revocation, At
    <2>2. CASE UNCHANGED store
      BY <1>5, <2>1, <2>2, MoveStep DEF end_revocation, Steps, Creating, Revoking
    <2>3. CASE \E out \in DbOutcomes : Execute(call[p].conn, NoRow, <<"revoked">>, out)
      BY <1>5, <2>1, <2>3, EndStep DEF end_revocation
    <2> QED
      BY <1>5, <2>2, <2>3 DEF end_revocation, delete_connection_recorded
  <1> QED
    BY <1>1, <1>2, <1>3, <1>4, <1>5 DEF Revoke

(* So does dropping a call, whatever it was waiting for. *)
LEMMA CancelAccounts ==
    ASSUME TypeOK, ManagedAssumption, AccountsInv, NEW p \in Calls, Cancel(p)
    PROVE  AccountsInv'
  <1>1. ~At(p, "idle") /\ Goes(p, "idle") /\ "idle" \in Steps
        /\ "idle" \notin Creating \cup Revoking
    BY ToStep DEF Cancel, Steps, Creating, Revoking
  <1>2. CASE At(p, "create")
    <2>1. InFlight(p) = {CreateRequest}
      BY <1>2 DEF InFlight, At
    <2> QED
      BY <1>1, <1>2, <2>1, RequestStep DEF Cancel, MayApply
  <1>3. CASE ~At(p, "create")
    <2>1. PICK c \in Conns : c = call[p].conn
      BY <1>1, Running
    <2>2. CreateRequest \notin InFlight(p)
      BY <1>3 DEF InFlight, CreateRequest, DeleteRequest, ReplaceRequest
    <2>3. /\ \A d \in Conns \ {c} : account'[d] = account[d] /\ late'[d] = late[d]
          /\ Live(c)' => Live(c)
          /\ Pending(c)' => Pending(c)
          /\ used' = used
      BY <2>1, <2>2 DEF Cancel, Live, Pending, TypeOK
    <2>4. KeepsRow(c)
      BY DEF Cancel, KeepsRow, store, AccountsInv, Accounted
    <2> QED
      BY <1>1, <2>1, <2>3, <2>4, QuietStep
  <1> QED
    BY <1>2, <1>3

(* Beside the calls an account may land, vanish or lose its lease; none    *)
(* lands that no row was waiting for.                                      *)
LEMMA OutsideAccounts ==
    ASSUME TypeOK, ManagedAssumption, AccountsInv,
           NEW c \in Conns, Land(c) \/ Vanish(c) \/ LeaseExpires(c)
    PROVE  AccountsInv'
  <1>1. /\ call' = call /\ used' = used
        /\ \A d \in Conns \ {c} : row'[d] = row[d] /\ account'[d] = account[d] /\ late'[d] = late[d]
    BY DEF Land, Vanish, LeaseExpires, store, provider, TypeOK
  <1>2. KeepsRow(c)
    <2>1. CASE LeaseExpires(c)
      <3>1. row[c] \in Row /\ row[c].leased /\ NoRow.leased = FALSE /\ NoRow.state = "none"
        BY <2>1 DEF LeaseExpires, TypeOK, NoRow
      <3>2. row[c].state # "none"
        BY <3>1 DEF AccountsInv, Accounted
      <3>3. row'[c] = [row[c] EXCEPT !.leased = FALSE] /\ row'[c].state = row[c].state
        BY <2>1, <3>1 DEF LeaseExpires, TypeOK, Row
      <3> QED
        BY <1>1, <3>1, <3>2, <3>3 DEF KeepsRow
    <2>2. CASE Land(c) \/ Vanish(c)
      BY <2>2 DEF Land, Vanish, KeepsRow, store, AccountsInv, Accounted
    <2> QED
      BY <2>1, <2>2
  <1>3. /\ Pending(c)' => Pending(c)
        /\ Live(c)' => Live(c) \/ Pending(c)
        /\ ~(Live(c)' /\ Pending(c)')
    <2>0. ~(Live(c) /\ Pending(c))
      BY DEF AccountsInv, Accounted
    <2>1. CASE Vanish(c) \/ LeaseExpires(c)
      BY <2>0, <2>1 DEF Vanish, LeaseExpires, provider, Live, Pending, Absent, TypeOK
    <2>2. CASE Land(c)
      <3>1. PICK r \in late[c] :
               /\ r.kind = "replace" => "late_replace" \in Faults
               /\ late' = [late EXCEPT ![c] = @ \ {r}]
               /\ account' = [account EXCEPT ![c] =
                     CASE r.kind = "create" -> NewAccount
                       [] r.kind = "delete" -> Absent
                       [] r.kind = "replace" -> IF Live(c) THEN [@ EXCEPT !.key = r.key] ELSE @]
        BY <2>2 DEF Land
      <3>2. r \in Request /\ late'[c] = late[c] \ {r}
        BY <3>1 DEF TypeOK
      <3>3. CASE r.kind = "create"
        <4>1. r = CreateRequest
          BY <3>2, <3>3 DEF Request, DeleteRequest, ReplaceRequest
        <4> QED
          BY <3>1, <3>2, <4>1 DEF Pending
      <3>4. CASE r.kind # "create"
        <4>1. Live(c)' => Live(c)
          BY <3>1, <3>2, <3>4 DEF TypeOK, Live, Absent, Request, CreateRequest, DeleteRequest,
             ReplaceRequest
        <4> QED
          BY <2>0, <3>2, <4>1 DEF Pending
      <3> QED
        BY <3>3, <3>4
    <2> QED
      BY <2>1, <2>2
  <1>4. Accounted'
    BY <1>1, <1>2, <1>3 DEF AccountsInv, Accounted, KeepsRow, Live, Pending
  <1>5. ASSUME NEW p \in Calls PROVE Relied(p)'
    <2>1. Relied(p) /\ call'[p] = call[p]
      BY <1>1 DEF AccountsInv
    <2>2. CASE call[p].pc = "idle"
      BY <2>1, <2>2 DEF Relied, Creating, Revoking
    <2>3. CASE call[p].pc # "idle" /\ call[p].conn # c
      <3>1. call[p].conn \in Conns
        BY <2>3, Running DEF At
      <3> QED
        BY <1>1, <2>1, <2>3, <3>1 DEF Relied, Live, Pending
    <2>4. CASE call[p].pc # "idle" /\ call[p].conn = c
      <3>1. call[p].pc \in {"create", "discard", "drop", "end"} => ~Live(c)' /\ ~Pending(c)'
        BY <1>3, <2>1, <2>4 DEF Relied, Creating, Revoking
      <3> QED
        BY <1>1, <1>2, <1>3, <2>1, <2>4, <3>1 DEF Relied, KeepsRow, Live, Pending
    <2> QED
      BY <2>2, <2>3, <2>4
  <1>6. ASSUME NEW p \in Calls, NEW q \in Calls, p # q PROVE Apart(p, q)'
    BY <1>1, <1>6 DEF AccountsInv, Apart
  <1> QED
    BY <1>4, <1>5, <1>6 DEF AccountsInv

(* Provisioning, rotation and revocation never lose sight of a live        *)
(* account, whatever is lost, cancelled, late, stalled or deleted by hand, *)
(* as long as no connection is revoked before its creation is settled.     *)
THEOREM AccountsCorrect ==
    ASSUME "early_revoke" \notin Faults
    PROVE  Spec => []AccountsAreAccountedFor
  <1> USE ManagedAssumption
  <1>1. Init => AccountsInv
    BY DEF Init, AccountsInv, Accounted, Relied, Apart, Live, Pending, NoRow, Absent, Idle, Began,
           Creating, Revoking
  <1>2. TypeOK /\ AccountsInv /\ [Next]_vars => AccountsInv'
    <2> SUFFICES ASSUME TypeOK, AccountsInv, [Next]_vars PROVE AccountsInv'
      OBVIOUS
    <2>1. CASE UNCHANGED vars
      BY <2>1 DEF vars, AccountsInv, Accounted, Relied, Apart, Live, Pending
    <2>2. ASSUME NEW p \in Calls, Create(p) PROVE AccountsInv'
      BY <2>2, CreateAccounts
    <2>3. ASSUME NEW p \in Calls, Rotate(p) PROVE AccountsInv'
      BY <2>3, RotateAccounts
    <2>4. ASSUME NEW p \in Calls, Revoke(p) PROVE AccountsInv'
      BY <2>4, RevokeAccounts
    <2>5. ASSUME NEW p \in Calls, Cancel(p) PROVE AccountsInv'
      BY <2>5, CancelAccounts
    <2>6. ASSUME NEW c \in Conns, Land(c) \/ Vanish(c) \/ LeaseExpires(c) PROVE AccountsInv'
      BY <2>6, OutsideAccounts
    <2> QED
      BY <2>1, <2>2, <2>3, <2>4, <2>5, <2>6 DEF Next
  <1>3. AccountsInv => AccountsAreAccountedFor
    BY DEF AccountsInv, Accounted, AccountsAreAccountedFor
  <1> QED
    BY <1>1, <1>2, <1>3, TypeCorrect, PTL DEF Spec
=============================================================================
