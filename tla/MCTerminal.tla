----------------------------- MODULE MCTerminal -----------------------------
(* Terminal on small instances, for TLC. *)
EXTENDS Terminal, TLC

Symmetry == Permutations(Conn) \cup Permutations(Ticket)
=============================================================================
