------------------------ MODULE ConnectionLifecycle -------------------------
(***************************************************************************)
(* What managed connections promise, whatever the identity provider does   *)
(* and whichever statement of the database fails, short of one that takes  *)
(* effect and is reported to have failed: the phases a connection may pass *)
(* through, and the story the audit trail tells of it.                     *)
(*                                                                         *)
(* The phases are those of ManagedConnectionState                          *)
(* (crates/sovereign-config-core/src/managed.rs), with "none" before the   *)
(* row exists and "gone" after it.                                         *)
(***************************************************************************)
EXTENDS Sequences

CONSTANT Conns

VARIABLES phase,   \* where each connection is
          story    \* what the trail says of it, oldest first

lifecycleVars == <<phase, story>>

Kept == {"provisioning", "active", "rotation_unknown", "cleanup_required", "revoking"}

Moves(c, from, to, events) ==
    /\ phase[c] \in from
    /\ phase' = [phase EXCEPT ![c] = to]
    /\ story' = [story EXCEPT ![c] = @ \o events]

Init ==
    /\ phase = [c \in Conns |-> "none"]
    /\ story = [c \in Conns |-> <<>>]

Inserted(c) == Moves(c, {"none"}, "provisioning", <<>>)

(* Creation and its record are one step; so is a rotation and its record. *)
Created(c) == Moves(c, {"provisioning"}, "active", <<"created">>)

RotationBegun(c) == Moves(c, {"active", "rotation_unknown"}, "rotation_unknown", <<>>)

Rotated(c) == Moves(c, {"rotation_unknown"}, "active", <<"rotated">>)

RotationUndone(c) == Moves(c, {"rotation_unknown"}, "active", <<>>)

Unsettled(c) == Moves(c, {"provisioning", "rotation_unknown"}, "cleanup_required", <<>>)

(* A claim for revocation is final: only "gone" follows it. *)
Claimed(c) == Moves(c, Kept, "revoking", <<>>)

Revoked(c) == Moves(c, {"revoking"}, "gone", <<"revoked">>)

(* Only a connection that never came to exist leaves without a record. *)
Discarded(c) ==
    /\ story[c] = <<>>
    /\ Moves(c, {"none", "provisioning", "revoking"}, "gone", <<>>)

Next ==
    \E c \in Conns :
        \/ Inserted(c) \/ Created(c)
        \/ RotationBegun(c) \/ Rotated(c) \/ RotationUndone(c)
        \/ Unsettled(c) \/ Claimed(c) \/ Revoked(c) \/ Discarded(c)

Spec == Init /\ [][Next]_lifecycleVars
=============================================================================
