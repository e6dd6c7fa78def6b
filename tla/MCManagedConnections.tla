------------------------ MODULE MCManagedConnections ------------------------
(***************************************************************************)
(* Instances of ManagedConnections: every interaction is between calls on  *)
(* one connection, so one or two connections and two or three calls.       *)
(***************************************************************************)
EXTENDS ManagedConnections, TLC

CONSTANTS p1, p2, p3, c1, c2

MCCalls == {p1, p2}
MCCalls3 == {p1, p2, p3}
MCConns == {c1}
MCConns2 == {c1, c2}
CallSymmetry == Permutations(MCCalls)
CallSymmetry3 == Permutations(MCCalls3)

(* Everything but the two races the code accepts or denies. *)
AccountFaults == {"lost_commit", "cancel", "vanish", "late_replace", "stall"}
EarlyFaults == {"early_revoke"}
UrlFaults == {"cancel", "early_revoke"}
NoFaults == {}
=============================================================================
