---------------------------- MODULE MCUserMemory ----------------------------
(* The RAM behind the kernel: entries of the table may look used or dirty     *)
(* before the heap has touched it, charged to process 1; the pages are zeroed. *)
EXTENDS UserMemory

None == {}
SomeUsed == {3, 4}
SomeDirty == {3}
SomePid == {1}
=============================================================================
