----------------------------- MODULE MCHeapScan -----------------------------
(* The scan on a small heap with unknown contents, for TLC. *)
EXTENDS HeapScan

SomeSlots == {2, 3}
SomePages == {2}
ZeroPid == {0}
=============================================================================
