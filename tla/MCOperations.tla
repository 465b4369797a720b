---------------------------- MODULE MCOperations ----------------------------
(***************************************************************************)
(* RoleStore, Settings and Operations for TLC.  They share no state, so a  *)
(* behaviour exercises one of them, chosen at the start.                   *)
(***************************************************************************)
EXTENDS RoleStore, Settings, Operations

CONSTANTS admin, custom, nAdmin, nOther, p1, p2

VARIABLE part

MCBuiltinName == [r \in {admin} |-> nAdmin]
MCDefault == [r \in {admin} |-> {p1}]

Init ==
  /\ RoleInit /\ SettingsInit /\ OperationsInit
  /\ \/ part = "operations"
     \/ part \in {"roles", "settings"} /\ op = "stats" /\ tty

Saving == part = "roles" /\ RoleNext /\ UNCHANGED <<part, settingsVars, operationVars>>

Setting == part = "settings" /\ SettingsNext /\ UNCHANGED <<part, roleVars, operationVars>>

Operating == part = "operations" /\ OperationsNext /\ UNCHANGED <<part, roleVars, settingsVars>>

Spec ==
  /\ Init
  /\ [][Saving \/ Setting \/ Operating]_<<part, roleVars, settingsVars, operationVars>>
  /\ part = "operations" => OperationsFairness
=============================================================================
