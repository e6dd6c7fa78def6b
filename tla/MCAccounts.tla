----------------------------- MODULE MCAccounts -----------------------------
(***************************************************************************)
(* Managed connections and what they have at the identity provider: the    *)
(* calls that create, rotate and revoke them, the adapter that those calls *)
(* reach the provider through, and the repair that gives the audit trail   *)
(* the names of accounts.  Each is checked on a small instance of its own: *)
(* a behaviour keeps to the part its first state has in focus.             *)
(***************************************************************************)
EXTENDS MCManagedConnections, NameRepair, AuthentikAdapter

CONSTANT Parts   \* the parts checked

VARIABLE focus

accountVars == <<focus, vars, repairVars, adpVars>>

AccountsInit ==
  /\ focus \in Parts
  /\ Init /\ RepairInit /\ AdpInit

AccountsNext ==
  \/ focus = "connections" /\ Next /\ UNCHANGED <<focus, repairVars, adpVars>>
  \/ focus = "repair" /\ RepairNext /\ UNCHANGED <<focus, vars, adpVars>>
  \/ focus = "adapter" /\ AdpNext /\ UNCHANGED <<focus, vars, repairVars>>

AccountsSpec == AccountsInit /\ [][AccountsNext]_accountVars
=============================================================================
