------------------------------- MODULE Loader -------------------------------
(***************************************************************************)
(* From the ramdisk to a process: begin() and run() of kernel.cpp find     *)
(* kern.mod in the ustar archive (drivers/ustar.cpp) and make a process of *)
(* it (lib/elf.cpp).                                                       *)
(*                                                                         *)
(* An archive is a sequence of members; each has a header of one block and *)
(* its data, filled up to whole blocks.  Addresses are counted from the    *)
(* start of the ramdisk, which begins a page.  Block and Page are scaled   *)
(* down; what the code asks of them is that one divides the other and that *)
(* both are even.  What is mapped in every directory, through tables that  *)
(* all share, ends at the 4 MiB boundary behind the kernel, kernel_pg_end. *)
(* UserHeap begins there: its EntryInfo and then its entries, the objects  *)
(* of the processes first.  kern.mod becomes the second process.           *)
(***************************************************************************)
EXTENDS Integers, Sequences, FiniteSets

CONSTANTS
    Block,      \* 512, also sizeof(ustar_entry)
    Page,       \* 4096
    Names,      \* what members may be called
    Archives,   \* sequences of members: [name, dir, size]
    Images,     \* what kern.mod may be: [elf, phdrs]
    Ends,       \* where kernel_pg_end may be
    Buffers,    \* where calloc's block may begin
    TablePages, \* pages a page table maps: 1024
    Shown,      \* pages behind kernel_pg_end that UserHeap may have mapped
    Touched,    \* what the first and the second Create write, counted from
                \* kernel_pg_end: EntryInfo and the fields of the object
    Object,     \* the second object's pages, counted from kernel_pg_end
    Kern        \* "./modules/kern.mod"

ASSUME LoaderAssumption ==
    /\ Block \in Nat \ {0} /\ Block % 2 = 0
    /\ Page \in Nat \ {0} /\ Page % Block = 0
    /\ Ends \subseteq Nat /\ Buffers \subseteq Nat
    /\ \A e \in Ends : e % Page = 0
    /\ TablePages \in Nat \ {0}
    /\ Shown \subseteq Nat /\ Object \subseteq Nat
    /\ Touched \in [1 .. 2 -> SUBSET Nat]
    /\ Archives \subseteq Seq([name : Names, dir : BOOLEAN, size : Nat])
    /\ Images \subseteq
         [elf : BOOLEAN,
          phdrs : Seq([load : BOOLEAN, offset : Nat, vaddr : Nat,
                       filesz : Nat, memsz : Nat])]
    /\ \A a \in Archives : \A k \in DOMAIN a : a[k].dir => a[k].size = 0

VARIABLES
    archive, image, end,  \* what the boot loader has put where
    runs,           \* how many of the two processes UserHeap has entries for
    shown,          \* how many pages of itself it has mapped
    pc,
    ramdisk_size,
    data,           \* the member tar_fopen has found
    size,           \* what tar_ftell has returned
    buffer,         \* what calloc has returned
    room,           \* how many bytes it was asked for
    proc,           \* the process elf32_load returns
    full,           \* PagesHeap has refused a page, and has none from then on
    tables,         \* the slots for which the process's directory has a table
    object,         \* the pages of its object that are mapped there
    prog_data,
    i,              \* program headers done
    table,          \* the image's pages: a function from virtual to physical
    memory          \* what the loader has written where

boot == <<archive, image, end, runs, shown>>
process == <<proc, object>>
lvars == <<boot, pc, ramdisk_size, data, size, buffer, room, process, full,
           tables, prog_data, i, table, memory>>

Null == 0
Somewhere == 1

Up(n, unit) == ((n + unit - 1) \div unit) * unit

\* (sz + 511) / 512 + 1 blocks; for a directory tar_fopen steps over its header
\* only, which is the same.
Extent(m) == Up(m.size, Block) + Block

SumOver(s, F(_)) ==
    LET sum[k \in 0 .. Len(s)] == IF k = 0 THEN 0 ELSE sum[k - 1] + F(s[k])
    IN  sum[Len(s)]

\* The address of header k; the one behind the last holds zeroes.
At(k) == SumOver(SubSeq(archive, 1, k - 1), Extent)

\* The segments of an image lie in the file.
InFile(m) == m.name = Kern /\ ~m.dir /\ image.elf =>
    \A k \in DOMAIN image.phdrs :
       image.phdrs[k].offset + image.phdrs[k].filesz <= m.size

LInit ==
    /\ archive \in Archives
    /\ image \in Images
    /\ \A k \in DOMAIN archive : InFile(archive[k])
    /\ end \in Ends /\ runs \in 0 .. 2 /\ shown \in Shown
    /\ pc = "tar_calc_size"
    /\ ramdisk_size = 0
    /\ data = Null /\ size = 0
    /\ buffer = 0 /\ room = 0 /\ prog_data = 0
    /\ proc = Null /\ full = FALSE /\ tables = {} /\ object = {}
    /\ i = 0
    /\ table = <<>> /\ memory = <<>>

-----------------------------------------------------------------------------
(* The ramdisk *)

\* What tar_calc_size adds for a member: its data is not rounded to blocks.
Charge(m) == m.size + Block

\* Paging is still off.
CalcSize ==
    /\ pc = "tar_calc_size"
    /\ ramdisk_size' = SumOver(archive, Charge)
    /\ pc' = "tar_fopen"
    /\ UNCHANGED <<boot, data, size, buffer, room, process, full, tables,
                   prog_data, i, table, memory>>

\* What the kernel's directory maps of the ramdisk, or where it lies.
Mapped(a) == a < end \/ a < Up(ramdisk_size, Page) \/ a < end + shown * Page

\* The first n calls of Create have written over a byte of these.
Clobbered(bytes, n) ==
    \E c \in 1 .. n : c <= runs /\ \E a \in bytes : a - end \in Touched[c]
Header(k) == At(k) .. At(k) + Block - 1

\* The walk ends at the first header it cannot read or that has no magic.
Stop ==
    CHOOSE k \in 1 .. Len(archive) + 1 :
       LET ends(j) == \/ j = Len(archive) + 1 \/ ~Mapped(At(j))
                      \/ Clobbered(Header(j), 1)
       IN  ends(k) /\ \A j \in 1 .. k - 1 : ~ends(j)

\* The first member that passes the test, or Null.
First(Test(_)) ==
    LET found == {k \in 1 .. Stop - 1 : Test(archive[k])}
    IN  IF found = {} THEN Null ELSE CHOOSE k \in found : \A j \in found : k <= j

IsFile(m) == ~m.dir /\ m.name = Kern

\* tar_ftell does not look at the type.
HasName(m) == m.name = Kern

Find ==
    /\ pc = "tar_fopen"
    /\ data' = First(IsFile)
    /\ LET told == First(HasName) IN
          size' = IF told = Null THEN 0 ELSE archive[told].size
    /\ pc' = IF data' = Null /\ ~Mapped(At(Stop)) THEN "fault" ELSE "elf32_load"
    /\ UNCHANGED <<boot, ramdisk_size, buffer, room, process, full, tables,
                   prog_data, i, table, memory>>

-----------------------------------------------------------------------------
(* elf32_load *)

\* Mutant of Asked: a page less.
AskedLess(sz) == sz + Page

Asked(sz) == sz + 2 * Page

File == At(data) + Block

\* The block that holds the ELF header and the program headers.
Front == File .. File + Block - 1

\* Without a file the header is read at address 0.  What elf32_load returns for
\* a header without magic, 0, is used as a process all the same.  What it makes
\* of headers that have been written over is left open.
ReadHeader ==
    /\ pc = "elf32_load"
    /\ \/ data = Null /\ pc' = "null process"
       \/ data # Null /\ ~Mapped(File) /\ pc' = "fault"
       \/ data # Null /\ Mapped(File) /\ Clobbered(Front, 1) /\ pc' = "damaged"
       \/ /\ data # Null /\ Mapped(File) /\ ~Clobbered(Front, 1)
          /\ pc' = IF image.elf THEN "create" ELSE "null process"
    /\ UNCHANGED <<boot, ramdisk_size, data, size, buffer, room, process, full,
                   tables, prog_data, i, table, memory>>

\* Slots are counted from kernel_pg_end, where the process's own tables begin.
Slot(p) == (p - end \div Page) \div TablePages
Below(p) == p * Page < end

\* A table for every slot these pages are in, as long as PagesHeap has pages.
GetTables(pages, refused) ==
    LET new == {Slot(p) : p \in pages} \ tables IN
    \E got \in SUBSET new :
       /\ refused => got = {}
       /\ \A s \in got, t \in new : t < s => t \in got
       /\ tables' = tables \cup got
       /\ full' = (refused \/ got # new)

\* Without entries in UserHeap the object is at address 0, which is mapped onto
\* itself in every directory; without a page for it the directory is there, too.
Create ==
    /\ pc = "create"
    /\ proc' = IF runs = 2 THEN Somewhere ELSE Null
    /\ LET pages == IF proc' = Null THEN {} ELSE {end \div Page + n : n \in Object} IN
       /\ \E refused \in {full, TRUE} : GetTables(pages, refused)
       /\ object' = {p \in pages : Slot(p) \in tables'}
    /\ pc' = IF Clobbered(Front, 2) THEN "damaged" ELSE "calloc"
    /\ UNCHANGED <<boot, ramdisk_size, data, size, buffer, room, prog_data, i,
                   table, memory>>

\* calloc clears an odd number of bytes for ever.
Calloc ==
    /\ pc = "calloc"
    /\ \E b \in Buffers :
          /\ buffer' = b
          /\ prog_data' = b
    /\ room' = Asked(size)
    /\ pc' = IF size % 2 = 1 THEN "for ever" ELSE "segments"
    /\ UNCHANGED <<boot, ramdisk_size, data, size, process, full, tables, i,
                   table, memory>>

\* Mutant of Pages: one page, for what is smaller than one or begins one.
PagesFirst(h) == {0}

\* page_map_addr_dir_one_pg_sz: the pages for filesz bytes, not for memsz.
Pages(h) == {n \in 0 .. h.filesz : n * Page < h.filesz}

Target(h) == Up(prog_data, Page) \div Page

PagesAt(h) == {h.vaddr \div Page + n : n \in Pages(h)}

\* A page whose slot has no table is not mapped, and nobody is told.
TableWith(h) ==
    LET new == {v \in PagesAt(h) : Slot(v) \in tables'}
    IN  [v \in DOMAIN table \cup new |->
           IF v \in new THEN Target(h) + v - h.vaddr \div Page ELSE table[v]]

Bytes(h) == h.vaddr .. h.vaddr + h.filesz - 1

\* The byte of the ramdisk that is copied to v.
Source(h, v) == File + h.offset + v - h.vaddr

\* memcpy runs in the process's directory: it sees what lies below kernel_pg_end,
\* the image's pages so far and those of its object.
Seen(a) == a < end \/ a \div Page \in DOMAIN table' \cup object

CopyOutcome(h) ==
    CASE h.filesz % 2 = 1 -> "for ever"
      [] h.filesz % 2 = 0 /\ (\E v \in Bytes(h) : ~Seen(v) \/ ~Seen(Source(h, v))) ->
           "fault"
      [] OTHER -> "segments"

Physical(v) ==
    IF v \div Page \in DOMAIN table' THEN table'[v \div Page] * Page + (v % Page)
    ELSE v

\* Behind kernel_pg_end it is not the ramdisk that is read.
Other == -1

Byte(h, v) == IF Source(h, v) < end THEN h.offset + v - h.vaddr ELSE Other

MemoryWith(h) ==
    LET written == {Physical(v) : v \in Bytes(h)} IN
    [a \in DOMAIN memory \cup written |->
       IF a \in written THEN Byte(h, CHOOSE v \in Bytes(h) : Physical(v) = a)
       ELSE memory[a]]

\* Mutant of Advance: the file's size is taken for the memory's.
AdvanceByFile(h) == prog_data + h.filesz

Advance(h) == prog_data + Up(h.memsz, Page)

\* A page of a segment below kernel_pg_end is entered into a table that the
\* kernel's directory and all others share: in the place of what they had there,
\* the kernel or the ramdisk, they all have that page from then on.
LoadSegment ==
    /\ pc = "segments" /\ i < Len(image.phdrs)
    /\ i' = i + 1
    /\ LET h == image.phdrs[i + 1] IN
       \/ /\ ~h.load
          /\ UNCHANGED <<pc, full, tables, table, memory, prog_data>>
       \/ /\ h.load /\ \E p \in PagesAt(h) : Below(p)
          /\ pc' = "remapped"
          /\ UNCHANGED <<full, tables, table, memory, prog_data>>
       \/ /\ h.load /\ \A p \in PagesAt(h) : ~Below(p)
          /\ GetTables(PagesAt(h), full)
          /\ table' = TableWith(h)
          /\ pc' = CopyOutcome(h)
          /\ memory' = IF pc' = "segments" THEN MemoryWith(h) ELSE memory
          /\ prog_data' = IF pc' = "segments" THEN Advance(h) ELSE prog_data
    /\ UNCHANGED <<boot, ramdisk_size, data, size, buffer, room, process>>

Loaded ==
    /\ pc = "segments" /\ i = Len(image.phdrs)
    /\ pc' = "run"
    /\ UNCHANGED <<boot, ramdisk_size, data, size, buffer, room, process, full,
                   tables, prog_data, i, table, memory>>

LNext == CalcSize \/ Find \/ ReadHeader \/ Create \/ Calloc \/ LoadSegment \/ Loaded

LSpec == LInit /\ [][LNext]_lvars

-----------------------------------------------------------------------------
(* Properties *)

\* The program headers that ask to be loaded.
Segments == {k \in DOMAIN image.phdrs : image.phdrs[k].load}
Segment(k) == image.phdrs[k]

\* No segment is larger in the file than in memory, and no two are in one page,
\* nor is one in a page of the process's object.
Separate ==
    /\ \A k \in Segments : Segment(k).filesz <= Segment(k).memsz
    /\ \A j, k \in Segments : j # k =>
          \A v \in Bytes(Segment(j)), w \in Bytes(Segment(k)) : v \div Page # w \div Page
    /\ \A k \in Segments : \A v \in Bytes(Segment(k)) : v \div Page \notin object

\* A process that runs finds every byte of its file's segments, if the ramdisk
\* has it below kernel_pg_end, where the linker has put it, whatever their sizes
\* and order, if they are separate: copies do not overwrite each other through
\* the table (elf.cpp:65-73).  None runs that has a segment below kernel_pg_end.
ImageRight == pc = "run" /\ Separate =>
    \A k \in Segments : \A v \in Bytes(Segment(k)) :
       /\ v >= end
       /\ Source(Segment(k), v) < end =>
             memory[table[v \div Page] * Page + (v % Page)]
                = Segment(k).offset + v - Segment(k).vaddr

FilePages(h) == {n \in 0 .. size : n * Page < h.offset + h.filesz
                                   /\ (n + 1) * Page > h.offset}

\* No page of the process lies in part behind the block allocated for its image,
\* as long as the segments have no memory beyond their parts of the file and no
\* two of these share a page of it: the two pages asked for beyond the file's size
\* make up for all rounding (elf.cpp:46).  tar_ftell must tell the file's size
\* and not that of a directory of its name.
StaysInBuffer ==
    /\ \A k \in DOMAIN archive : archive[k].name = Kern => ~archive[k].dir
    /\ \A k \in Segments : Segment(k).memsz = Segment(k).filesz
    /\ \A j, k \in Segments : j # k =>
          FilePages(Segment(j)) \cap FilePages(Segment(k)) = {}
    => \A v \in DOMAIN table :
          table[v] * Page >= buffer /\ (table[v] + 1) * Page <= buffer + room

\* What can go wrong.  A fault needs a ramdisk that reaches behind kernel_pg_end,
\* a segment that does not begin a page, or one whose slot got no table because
\* PagesHeap was out of pages.  Headers are written over only behind kernel_pg_end.
\* A process at address 0 needs a missing file, one that is no ELF file or lies
\* there, or a UserHeap without entries for it.  A load without end needs an odd
\* size, and the kernel's pages are replaced only by a segment that is linked
\* below kernel_pg_end.
Within == At(Len(archive) + 1) + Block <= end
Starved == full /\ \E k \in Segments :
              k <= i /\ \E p \in PagesAt(Segment(k)) : Slot(p) \notin tables

OutcomeExplained ==
    /\ pc = "fault" => \/ ~Within \/ Starved
                       \/ \E k \in Segments : Segment(k).vaddr % Page # 0
    /\ pc = "damaged" => ~Within
    /\ pc \in {"null process", "run"} /\ proc = Null =>
          \/ ~image.elf \/ ~Within \/ runs < 2
          \/ \A k \in DOMAIN archive : archive[k].dir \/ archive[k].name # Kern
    /\ pc = "for ever" => size % 2 = 1 \/ \E k \in Segments : Segment(k).filesz % 2 = 1
    /\ pc = "remapped" => \E k \in Segments : Segment(k).filesz > 0 /\ Segment(k).vaddr < end
=============================================================================
