-------------------------- MODULE MCShellSession --------------------------
(* ShellSession on a small instance, for TLC. *)
EXTENDS ShellSession
=============================================================================
