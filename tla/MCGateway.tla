----------------------------- MODULE MCGateway -----------------------------
(* Gateway on a small instance, for TLC. *)
EXTENDS Gateway, TLC

Symmetry == Permutations(Ticket) \cup Permutations(Call)
=============================================================================
