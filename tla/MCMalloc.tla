------------------------------ MODULE MCMalloc ------------------------------
(* The byte allocator with a small arena, for TLC. *)
EXTENDS Malloc
=============================================================================
