---------------------------- MODULE MCRoleStore ----------------------------
(* RoleStore on a small instance, for TLC: one built-in role. *)
EXTENDS RoleStore, TLC

CONSTANTS admin, custom, nAdmin, nOther, p1, p2

MCBuiltinName == [r \in {admin} |-> nAdmin]
MCDefault == [r \in {admin} |-> {p1}]

Symmetry == Permutations(Request)
=============================================================================
