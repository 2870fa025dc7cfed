----------------------------- MODULE MCConsole ------------------------------
(* The console on a small screen, for TLC. *)
EXTENDS Console
=============================================================================
