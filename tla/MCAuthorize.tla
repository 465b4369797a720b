---------------------------- MODULE MCAuthorize ----------------------------
(* Authorize on a small instance, for TLC: one built-in and one custom     *)
(* role, two policies, one plain and one guarded container.                *)
EXTENDS Authorize, TLC

CONSTANTS custom, plain, exec

MCDraft ==
  LET on(effect, role) == [effect |-> effect, action |-> exec, role |-> role, scope |-> {plain}]
  IN  {{}, {on("deny", custom)}, {on("allow", None), on("deny", None)}}

Symmetry == Permutations(Policy)
=============================================================================
