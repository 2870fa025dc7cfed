------------------------------ MODULE MCLoader ------------------------------
(* Archives of up to three members, some of the same name; images of up to  *)
(* two segments, in one page or not, in pages of 4 bytes and blocks of 2.   *)
EXTENDS Loader

Members == [name : {"kern"}, dir : {FALSE}, size : {6, 7, 8}]
              \cup [name : {"other"}, dir : {FALSE}, size : {1, 4}]
              \cup [name : {"kern", "other"}, dir : {TRUE}, size : {0}]

SomeArchives == UNION {[1 .. n -> Members] : n \in 1 .. 2}
                    \cup {<<m, m, n>> : m, n \in Members}

Phdrs ==
    {h \in [load : {TRUE}, offset : {0, 1, 4}, vaddr : {4, 40, 45, 52},
            filesz : {1, 2, 4, 6}, memsz : {1, 2, 4, 6, 10}] :
       /\ h.memsz = h.filesz \/ (h.memsz = 10 /\ h.filesz = 2)
       /\ h.vaddr = 4 => h.offset = 0
       /\ h.vaddr = 45 => h.filesz = 2
       /\ h.offset + h.filesz <= 8}
    \cup [load : {FALSE}, offset : {0}, vaddr : {4}, filesz : {2}, memsz : {2}]

\* EntryInfo and the first object, the second object.
SomeTouched == <<{0, 5}, {9}>>

SomeImages ==
    [elf : {FALSE}, phdrs : {<<>>}] \cup
    [elf : {TRUE}, phdrs : {<<g>> : g \in Phdrs} \cup (Phdrs \X Phdrs)]
=============================================================================
