---------------------------- MODULE MCInterrupts ----------------------------
(* The timer, the keyboard, and one line of the slave. *)
EXTENDS Interrupts

SomeLines == {0, 1, 8}
=============================================================================
