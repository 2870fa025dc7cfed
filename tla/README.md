# A verification development for CommanderKernael

CommanderKernael is a 32-bit x86 hobby kernel in C++. It boots through
multiboot, sets up paging, loads one ELF module from a tar ramdisk, and switches
between the processes from the timer interrupt. This directory holds TLA+ models
of its core, the TLC configurations that check them and theorems about them that
TLAPS proves. Paths below are relative to `src/src/` unless they begin with
`mods/`.

## 1. The system

| Component | State it keeps | Operations | Interacts with |
|---|---|---|---|
| Page heap, `lib/heap.cpp` | one `EntryInfo` (used, dirty, AllocPID) per page, `current_entry` | AllocEntries, FreeEntry, FreeEntries, FreeAllProcessEntries | three instances: KernelHeap (malloc), PagesHeap (paging), UserHeap (process objects, palloc) |
| Paging, `lib/paging.cpp` | directories, tables, `current_dir` | page_create_dir, page_init_dir, page_map_*, page_destroy_dir, page_switch_dir | PagesHeap; processes, palloc, ELF loader |
| Processes and scheduler, `lib/process.cpp` | Process objects, `processes_heap`, `processes_count`, `current_thread`, `started` | Create, Destroy, Sig*, SwitchProcess, Init | UserHeap, paging, timer interrupt |
| Process table, `std/vector.hpp` | `data`, `cap`, `num` | push_back, remove, operator[] (others have no caller) | malloc |
| System calls, `lib/syscalls.cpp` | none | print, exit, palloc, vprintf | the current process, UserHeap, paging, console |
| Interrupt dispatch, `lib/idt.cpp`, `asm/idt_handlers.asm` | `handler_table`, the PICs, the interrupt flag | fault_handler, interrupt_handler, register_int_handler, enable_interrupts | everything that runs on an interrupt |
| Boot, `kernel/kernel.cpp` | the ramdisk's place and size | begin, run | loads the module, creates it and the idle loop, starts the scheduler |
| User heap set-up, `lib/userland.cpp` | none | Init | places UserHeap behind what is mapped |
| Byte allocator, `lib/memory.cpp` | a chain of 7-byte headers | malloc, calloc, realloc, free | KernelHeap; console, vector, ELF loader |
| ELF loader, `lib/elf.cpp` | none | elf32_validate_header, elf32_load | ramdisk, processes, paging, malloc |
| Ramdisk, `drivers/ustar.cpp` | the archive | tar_fopen, tar_ftell, tar_calc_size | ELF loader |
| Console, `std/stdio.cpp` | cursor, text buffer, colours | write, WriteV, Clear | cstring, malloc |
| Strings, `std/cstring.h` | none | conversion, search, tokens | malloc |
| Keyboard, `drivers/keyboard.cpp` | layout | interrupt handler | console |
| Drivers, exports, serial, GDT, CPU information | small tables or none | register, look up | - |

What is hard about it:

* **Interleaving.** The handlers run with interrupts off, so a tick or a system
  call is atomic; but a tick may fall between any two instructions of a process,
  of the boot code, and of `end_handle`, the loop the processor is left in after
  `exit`. The next tick saves *that* context somewhere. Exceptions come through
  trap gates, which leave interrupts on: a tick may strike before `fault_handler`
  clears the flag. Every handler sends end-of-interrupt commands to two PICs,
  system calls included.
* **Stale references.** `exit` releases the process object, its page directory and
  its table entry while `current_thread`, the shared page tables and the processor
  still refer to them.
* **Arithmetic at the edges.** The heap scan tests one entry more than it hands
  out and advances `current_entry` once too often; `vector::remove` shifts a
  number of entries that does not depend on the position; a process object
  occupies a fraction of a page more than is reserved for it.
* **Partial failure.** Early returns of `palloc` leave another page directory
  active; failed allocations are reported to nobody, or as a success. With
  PagesHeap exhausted processes get a directory at address 0 and mappings are
  dropped, with UserHeap exhausted the process itself is at address 0.
* **Limits of place.** The heap of the processes begins where the mapped 4 MiB
  end, wherever the ramdisk ends; a segment's pages, its block and its memory are
  sized by three different numbers, and one that is linked below that boundary
  replaces pages of the kernel for everybody.
* **Hanging.** The scheduler loops with interrupts off until it finds a process
  that is ready, and takes one whose saved `ss` is 0 for one that is not. memset
  and memcpy call themselves for ever when the byte count is odd.

Properties that make each component correct: the heap hands no entry out twice,
loses none and clears what it hands out; address spaces map what was asked for and
are private; a system call acts on its caller; a process resumes where it was
interrupted and never after its exit; the table lists the live processes; no
process the scheduler can take starves; blocks of malloc do not overlap and free
finds their headers; the screen shows the last lines printed; formats are printed
with the arguments they ask for; what a process has mapped is what the heap holds
for it, and holds nothing of anybody else's; a line is in service exactly while
its handler runs; a loaded process finds its image where the linker put it.

## 2. Modules

| Module | Models | How |
|---|---|---|
| `PagePool` | what the page heap promises | blocks granted from free entries, a request refused only for lack of a run for that request, blocks released one by one or by process |
| `Heap` | `lib/heap.cpp`, one action per call | the outcome of AllocEntries' scan as predicates over entries: `Fits`, `Cleared`, `Fresh`; implements `PagePool` |
| `HeapScan` | AllocEntries, one action per loop iteration | `i`, `s`, `current_entry` as in the source; implements `Heap` |
| `HeapScanProofs` | theorems about `HeapScan`, its refinement of `Heap` among them | see section 5 |
| `UserMemory` | UserHeap among its callers: object creation, palloc and exit over `Heap`'s actions, the directories of processes and kernel (`lib/process.cpp`, `lib/syscalls.cpp`, `lib/heap.cpp` with paged false) | extends `Heap`; one action per call, ClearFaults for the page fault AllocEntries may take |
| `UserMemoryProofs` | theorems about `Heap`, and about `UserMemory`, which extends it | see section 5 |
| `ProcessManager` | `lib/process.cpp`, `lib/syscalls.cpp`, `std/vector.hpp` as far as used, `kernel/kernel.cpp` run() | below |
| `ProcessManagerProofs` | theorems about `ProcessManager` | see section 5 |
| `Interrupts` | `lib/idt.cpp`, `asm/idt_handlers.asm`, what boot and the keyboard driver do with interrupts; the PICs and the CPU (external) | gates, stubs and handlers instruction by instruction where another event may fall between |
| `InterruptsProofs` | theorems about `Interrupts` | see section 5 |
| `Loader` | `drivers/ustar.cpp`, `lib/elf.cpp`, the part of `kernel/kernel.cpp` between them | one action per function, per segment in elf32_load |
| `LoaderProofs` | theorems about `Loader` | see section 5 |
| `Paging` | `lib/paging.cpp` over PagesHeap | directories and tables are the pages of PagesHeap read as one or the other |
| `PagingProofs` | theorems about `Paging` | see section 5 |
| `Malloc` | `lib/memory.cpp`, one action per loop iteration | memory byte by byte, of a byte only what it was written for |
| `MallocProofs` | theorems about `Malloc` | see section 5 |
| `Terminal` | what the text console promises | a list of lines |
| `Console` | `write`, the cursor and Clear of `std/stdio.cpp` | video memory cell by cell; implements `Terminal` |
| `Format` | the format walkers of `std/stdio.cpp` and `lib/serial.cpp`, `numstr` | one action per character, directive or digit |
| `CString` | `std/cstring.h` | functions as operators, a behaviour is one call; extends `Format`, whose printers are the other callers |
| `TextProofs` | theorems about `Format`, `CString` and `Console`, its refinement of `Terminal` among them | see section 5 |
| `MC*` | values for the constants | extend the module they check |

**Heap.** `used`, `dirty` and `data` are sets of entries. The four `Raw*`
constants say what memory may hold before it is first touched: nothing but zeroes
in `.bss` (KernelHeap, PagesHeap), anything in the RAM that UserHeap manages.
`blocks`, `skipped` and `refused` are history: who holds what, which slot
`current_entry` stepped over, and how many entries the last call was refused.
`PagePool` sees `refused`, so that a refusal is judged by its own size, and `lost`,
the entries stepped over that look used: nobody holds them and no request gets
them. Clients store into their blocks (`ClientWrite`), which is what the
dirty bit is for. Blocks are freed by the pointer and count they were allocated
with, as all callers do.

**ProcessManager.** A process's registers are abstracted to whose code they
execute and how far it has come, counted modulo `Steps`; `progress` is the true
count, so saving too late, to the wrong place or not at all shows as a difference.
`cpu` is what the processor executes: a process, the boot loop, `end_handle`, the
scheduler's search or the halted fault handler. `Tick` is SwitchProcess as a
whole: save, search, restore, switch directory. The search passes over a process
whose saved cs, ds or ss is 0 (process.cpp:326). The first two are the kernel's
selectors. But code of ring 0 is interrupted without a change of stack, so what is
saved as ss is the word behind the frame, which is whatever the code has there:
`zeross` is the set of processes for which it was 0 when last saved, and the
constant `ZeroWords` says whose code may have a 0 there. `SysExit` is the exit
call with SigKill, Destroy and vector::remove. `TickSavesWild` is the same
SwitchProcess when the slot of `current_thread` was never written. `SysPalloc` and
`SysPallocRefused` are the normal and the early return of palloc. `Fault` and
`Execute` are what module code may do: advance, fault, or lose its own mapping.
Where the code does something C++ leaves undefined, or reuses memory still in use,
the variable `ruin` records it and nothing more happens: what follows cannot be
told from the source.

A process object is 16 pages and a fraction. The heap reserves 16, so the control
fields at the end of the last object lie in the next page, which the first palloc
returns: `StoreBehindObject` is a module storing into it. Once a process has been
destroyed, pages still in use (the kernel's page tables; the page with another
object's last fields) count as free, so that a later palloc ends in `ruin` too.

**UserMemory.** The composition of the heap with those who use it. `object` says
where each process object lies; its tail page, one behind its block, is what the
code writes the control fields to. `mapped` is what palloc has mapped in each
process's directory, `kmapped` what the kernel's directory maps of UserHeap:
AllocEntries maps a page when it brings it into use, so the slot stepped over
never is, and GetFreeProcEntry asks for 16 *bytes* (process.cpp:241). Clearing a
page that is not mapped faults and halts the kernel: `ScanHalts`. A palloc without
room succeeds with a null pointer, since the test looks at the call number:
`PallocUnmet` maps the lowest frames, and `unmet` remembers who was told so.

**Interrupts.** Boot is a list of instructions as far as the interrupt flag and
`handler_table` are concerned; a handler passes through "call", "eoi" and "iret";
the fault handler, everybody's own, through "entered", "masked" and "halted".
Between any two of those a line may be raised and, with the flag set, accepted.
The two PICs are modelled as their manual describes them for the mode idt32_init
sets: a line waits while one of the same or higher priority is in service, and an
EOI ends the highest. What the timer's handler does to processes is
`ProcessManager`; here the current process only rotates.

**Loader.** An archive is a sequence of members; block and page are scaled to 2
and 4 bytes. `end` is where what every directory maps ends. tar_calc_size decides
what else of the ramdisk is mapped. UserHeap lies behind `end`, over the ramdisk if
that reaches so far: the two calls of Create, for the idle loop and for the module,
write its EntryInfo and the objects there (`Touched`, `Clobbered`). Create may be
refused an object (`runs`), and then the process is at address 0; PagesHeap may be
out of pages from any request on (`full`), and then the pages of a slot without a
table are not mapped (`tables`). A segment with a page below `end` goes into tables
that all directories share and replaces pages of the kernel or of the ramdisk: what
follows is left open ("remapped"), as it is once headers have been written over
("damaged"). A fault, a process at address 0 and a memcpy or memset without end
(odd lengths) are outcomes, too, in `pc`. The program headers are taken to lie in
the first block of the file.

**Paging.** The state begins after paging_init and page_init_kdir. A new directory
shares the kernel's entries below `kend`. Tables are taken from PagesHeap lowest
first, with the heap's rule that the next page must be free as well. `asked` is
the history of mappings, per directory and page; it holds what was asked for even
where the request found no page for a table and was dropped, which `dropped`
remembers. Without a page for a directory a process gets the one at address 0
(`NullDir`), which Create initialises like any other, under whoever has it already;
`users` counts the processes of each directory. A mapping of a process in the
kernel's slots, as an ELF segment may ask for, changes what all directories map
there, and ends the behaviour (`ruin` = "remap").

What is *not* modelled of a context is the stack pointer. All ring-0 processes run
on one kernel stack; SwitchProcess does not restore `esp` for them and stores
`useresp` and `ss` behind the interrupted frame (process.cpp:337, 344). "Resumes
where it was interrupted" therefore speaks of the code position and of progress.

**Malloc.** There is no list beside the memory, so the model keeps what every byte
was last written for: a magic number, a piece of a size, a flag, data, zero. The
header of the next entry is wherever a size says. `Consulted` is the set of
headers the next step goes by; when one of them was not written whole, or lies
behind the heap, `Stray` ends the behaviour. `since` counts the calls since
entries were first split (shrink_entry) or combined (combine_entries): both lose
the chain, the first by leaving the rest without a magic number, the second by not
adding the headers' sizes, so most properties are claimed for the time before. The
flags dirty and collect decide nothing and are left out. A calloc, realloc or cfree
of an odd number of bytes ends in `Hang`, or in the same place of `Release`: the
call is still running and takes no step ("forever").

**Console.** Two rows behind the screen are modelled because scrolling copies from
there. `torn` is history: a line has filled its row. From then on y no longer is
the row being written, the next newline overwrites it and a backspace in column 0
may use an unset column; `Terminal` promises nothing until Clear.

**Format.** A behaviour is one call. The seven functions differ in the device, in
ending the line and in setting a colour; their loops are the same text. An
argument is a word that can be read as a number, a character or a pointer to
characters. `room` is the size of the buffer numstr allocates. The two functions of
the serial port return at once while it is not enabled (`Mute`). Negative numbers
print as unsigned ones on both devices; the model prints words.

**CString.** A loop is modelled by the index it ends at, a buffer by the room its
size gives; what a loop writes beyond it or reads behind a string sets `ruin`.
`AnswersRight` has a reference definition for every function. It is the C library's
for strcmp, strpbrk, strchr, strrchr, strcpy and strncpy. strncmp compares one
character more than it is told; strstr finds an empty string nowhere; strcat leaves
out as much of the beginning of its source as the destination is long, and strncat
counts from the beginning of the source as well; strtok, strtok_r and strsep cut at
every delimiter, so that tokens may be empty, and return the empty string at the
cut, only the last token excepted. strdels and strdelc are the kernel's own.

Each definition that models code is listed with its lines in `PROJECT.json`
("map"). Definitions commented as mutants are variants of the definition below
them, each with a plausible bug; every checked property fails for at least one.

## 3. Runs

| Run | Configuration | What it shows |
|---|---|---|
| user_memory | 10 entries, objects of 2, idle loop and two modules, requests of 1 to 3, two slots that may look used and one that may look dirty | the heap's inductive invariant and `PagePool` under the kernel's own calls; what a process has mapped is what it holds; nobody is handed another's data; when the kernel hits an unmapped page |
| heap_scan | 4 entries, arbitrary bits in two slots | iteration by iteration the loops implement `Heap`, stay in bounds and end |
| many_modules | four modules that store into what palloc gave them; `end_handle` and one module may have a 0 saved as ss | calls act on the caller, the table, the active directory, resumption, no return from the dead, what precedes undefined behaviour, fairness of the round robin |
| signals | two modules, all Sig* states at any time; all code may have a 0 saved as ss | processes stopped, woken and crashed from outside, or passed over, never make the scheduler spin for good, unless the idle loop is passed over itself |
| paging | 6 pages, up to three processes, one shared and one private slot, tables of two entries, one unmapping | address spaces and their privilege, dropped mappings, sharing, the directory at 0, leaks |
| interrupts | timer, keyboard and a line of the slave, two processes | EOIs match, a halt is final, ticks are served, faults halt |
| loader | archives of up to three members, directories of the same name among them, images of up to two segments, in one page or not, linked above or below `end`, two places for the heap and for the block, heaps that give out at any request | the image arrives, stays in its block; what explains each other outcome |
| malloc | 27 bytes, requests of 2, 4 and 5, half words that wrap at 5, one call followed after the first split or combination | blocks apart, headers intact, data stable, pages asked for, calls end but those for odd numbers of bytes that recurse |
| console | 3 rows of 3 columns, two characters, lines of any length | cursor, scrolling, implements `Terminal` |
| text | all formats of up to three of eight letters, all of two directives and those of three of four kinds, 8-bit words, three arguments; strings of up to four of two characters; numbers up to three digits in bases 2 to 36 | formats printed and every string function answering as reference definitions say; numbers read back; which calls write beyond their buffer or read behind a string |
| paging_present | 7 pages, two processes, no unmapping | *violated*: see below |
| return_exits | one module | *violated*: see below |

**Bounds.** Ten heap entries hold three objects of two entries with their tails,
or two and blocks of one, two or three entries in every order, gaps, refusals and
`current_entry` running past the table. Four modules and the idle loop are the
smallest table in which removing by pid removes another process, since that takes
two exits in front of a third. Six PagesHeap pages hold the kernel's directory and
table, the page the heap never gives away and three more: one, two or all three
processes get a directory of their own, two may share the one at address 0 while
the third has a table, and mappings are dropped; with two entries per table a page
and its neighbour can be told apart. `Steps` only needs to exceed 1 for lost or
repeated work to show. Twenty-seven bytes hold three entries of size 2, or two of
4 or 5 and nothing else, so every path of malloc is taken, the walk off the end of
the heap included; a page of 16 bytes puts headers in both pages. Words exceed
every address, as in the kernel. Half words wrap at 5, one of the requests, as
those of the kernel wrap at 64 KiB: a free entry that a request of 5 reuses, at
its size or larger, is left with size 0. Requests of 2 and 4 end with calloc and
realloc, those of 5 do not. Three columns are the least with a line that is
neither empty nor full, three rows the least in which scrolling moves a row that
is neither first nor last. Texts of three letters hold a directive behind or
before another character, and an escaped percent sign; in texts of two and three
directives each has its own argument to find, behind numbers, characters and
strings; 209 has three digits in decimal, two in hexadecimal and eight in binary,
10 is a single hexadecimal digit. Strings of four characters over an alphabet of
two contain repeated and overlapping matches. Three members are the least with one
before and one behind the file, or two of its name; two segments may begin and end
within pages and lie in two slots. Timer, keyboard and one slave line are one line
of each kind the EOI code tells apart.

**Deadlock** is not checked where the machine may stop: a fault halts it, as the
source intends, and `ruin` ends what can be said; in `Paging` nothing is left to
do after a page in use has been handed out again, a freed table used or one of the
kernel's mappings replaced. `Malloc` and `Console` end when undefined behaviour
follows (`ruin`, `unset`), `Malloc` also at its bound on calls and where a call
recurses for ever; `Format`, `CString` and `Loader` end with their call.
`UserMemory` and `Interrupts` end when the kernel has halted.

**Fairness.** `ProcessManager` assumes that boot code keeps running and that the
timer keeps ticking: interrupts are enabled when begin() returns, every restored
EFLAGS value has IF set (Process::Init and the saved frames), and
`common_irq_stub` ends in `sti; iret`. Nothing is assumed of the modules.
`HeapScan` and `Malloc` assume that a call that has begun is executed.
`Interrupts` assumes that the timer keeps raising its line and that whatever has
the CPU executes its next instruction unless it is halted (weak fairness), that
the CPU looks for interrupts between any two instructions, so that a line offered
again and again with the flag set is accepted, and that ticks are far enough apart
for whoever is current to get instructions done, so that a process that keeps
coming back to the first instruction of fault_handler executes it (strong
fairness).

What the runs say about the system with more than one module, which the source
does not boot yet, should be read with the properties' conditions:

* `TableExact` holds as long as no Destroy has removed another process's entry
  (`misremoved`). With five table entries that happens.
* `ContextLostOnlyAfterExit`: a tick in `end_handle` stores that loop's context
  over the process that moved into the freed slot. The stronger `ContextKept`
  holds with one module.
* `EveryoneRuns` speaks of the time before the first exit, for the same reason,
  and of processes whose saved ss is not 0. One whose saved ss is 0 is not
  dispatched again, short of a tick in `end_handle` that stores other registers over
  its own. If that is the idle loop
  and no other process is ready, the scheduler loops for good with interrupts off:
  `IdleRuns` excepts it.
* `WellDefined` names what has to happen before anything undefined does; two
  exits, or a palloc, are enough.

What the runs say about memory and loading:

* `HaltsExplained`: after an exit a palloc can halt the kernel, in memset of a
  page its directory does not map; before any exit only if the RAM looked dirty at
  a slot stepped over.
* `GrantsForget` excepts the tails of objects: the page behind the last object is
  given away although Create has written to it, and so holds its data.
* `MappedIsHeld` excepts processes that got a null pointer for a palloc.
* `MapsAsAsked`: a mapping that finds no page for its table is silently dropped;
  until it is asked for again, nothing is mapped there.
* `PrivateTables` and `HeldExactly` except the directory at address 0. Every process
  that finds PagesHeap exhausted has it. Each that is created with it wipes what the
  others had mapped there, whose tables are lost, and the first to exit gives back
  the tables the others go on using.
* `HeldExactly`: before a process's directory is destroyed no page in use is
  handed out again; afterwards the shared kernel tables are.
* `ImageRight`: no process runs that has a segment below `end`, since loading it
  replaces pages of the kernel. Of a ramdisk that reaches behind `end` the copy may
  read what UserHeap has there.
* `OutcomeExplained`: a ramdisk that reaches beyond the mapped 4 MiB is not read
  to its end or faults; so does a segment that does not begin a page or gets no
  table; a missing or invalid file becomes a process at address 0, and so does a
  valid one when UserHeap has no entries for its object; odd lengths never end;
  `mods/srcs/linker` links at 0x8048000, which is behind `end`, but nothing in
  elf32_load asks for that.

What the runs say about malloc, console and formats:

* Before the first split or combination malloc is sound. The properties are false
  without that condition: the entry that follows a split one is overwritten by the
  next new block, and combined entries end seven bytes short per header, where
  stale headers are read.
* `PagesCover`: pages are asked for up to the header of a block only; its data may
  lie in pages nobody asked for. malloc never refuses.
* `CallReturns`: every other call ends, but calloc, realloc and cfree never return
  for an odd number of bytes (memory.cpp:190, 197).
* `ImplementsTerminal` ends where a line has filled its row: only then can a
  backspace use an unset column.
* `RuinExplained`: the binary directive, numstr in bases below ten, strdelc and
  strdels may write behind their buffers; strcat and strncat read behind a source
  that is shorter than the destination; the octal directive reads a double, and what
  is printed from there on is undefined. `print(text)` takes its text for a format.

## 4. Disagreements found

* `paging_present`: `page_destroy_dir` (paging.cpp:315) frees every table behind a
  present entry, those shared with the kernel included, whose entries go on
  saying that the table is present (paging.h:29, "Indicates whether the table is
  present in memory").
* `return_exits`: `linker.asm:9` sets system call 0 and calls it exit; call 0
  prints, exit is 1 (syscalls.cpp:33, 37). A module that returns from main
  never exits.

## 5. Proofs

The first part of `UserMemoryProofs` is about `Heap` alone and holds for every
number of entries, every set of request sizes and PIDs, and every initial content
of the memory (`HeapAssumption`). The invariant `IInv` is `TypeOK`, `Disjoint`,
`Owned`, `Accounted` and `SkippedApart` together. `Owned` makes the block's
entries used and lie below `current_entry`; that is what keeps a later scan, which
takes an entry for free when it is unused or not yet initialised, away from them,
hence `Disjoint`. `Accounted` needs `SkippedApart` because a slot stepped over
keeps the bits it happened to hold. From `IInv` follow: `Invariance`,
`TypeCorrect`, `BlocksDisjoint`, `BlocksOwned`, `EntriesAccounted`,
`HeldDataIsStable` and, since the entries the pool calls lost are those skipped
that look used, `HeapImplementsPool`; with zeroed pages `GrantsAreZero`, whose
invariant adds `Remembered`.

`ProcessManagerProofs` holds for every number of modules and every choice of
signals. `CallerInv` joins the typing of the variables, the fact that slots below
`processes_count` are filled, that the saved registers of a process are its own or
those of kernel code, and that only boot code runs until the timer handler is
registered. It is inductive and gives
`CallerIsCurrent`, `DeadStayOff` and `AddressSpaceIsOwn`. `StartInv` (the boot
loop is never entered again) is added for `ContextLostOnlyByExit`, and
`ResumeInv` (saved progress equals true progress for whoever is not running) for
`ProcessesResume`, which assumes that nobody sends signals. So do
`DefinedUntilExit` and `ContextSurvivesExit`: until somebody exits the table is the
processes in the order of creation (`TableWhole`), and the exit of the only module
leaves `loop()` in slot 0 and the module's pointer in the slot behind the table
(`OneLeft`), where the tick that interrupts end_handle saves its registers
(`HandleInv`).

`TableStaysExact` is about what happens after that, with any number of modules.
`TableInv` says that the entries the table lists are the living processes, each
once and in the order of creation, as long as no exit has removed another one's
entry. Its part `Slid` describes what `vector::remove` leaves behind: nothing ever
moves to a higher index, so that the entry found at index pid was created no
earlier than pid, and if it is not pid's own, then removing it is the misremoval
the property names. The entries behind the table, which remove copies from, are
stale copies of the last one. The hypothesis that no process is marked "crashed" is
needed: Destroy ignores a process in that state, so that it exits and stays listed.

`HeapScanProofs` holds for every table, request and initial content
(`HeapScanAssumption`). `ScanInv` says for every place of AllocEntries' loops what
is known of the entries visited since the call began, in terms of the heap it
found, and which part of the call's effect is already in the table: while testing,
that the `s` entries from `i` on are vacant and that every earlier start has met a
used one; while extending, that they are initialised up to `current_entry`; while
marking, which are marked. `NeverOutside` follows, and `ScanImplementsHeap`: the
last iteration is the one step of `Heap`, the others stutter.

`TextProofs` is about three modules whose proofs need the same inductions.
What a recursive function is, and that it exists at all, is shown by inductions
written out over sets of numbers (`LeastNumber`, `StrongInduction`,
`RecursionOnNat`), because the library's induction theorems take an operator as a
parameter.

About `Format` it holds for words of any length up to 32 bits, every set of texts
and all arguments (`FormatAssumption`). The kernel's words have 32; some bound is
needed for the serial port, whose buffer has a fixed size.
`TextInv` says of each point of a call how far it has come. Where a text is being
walked, what has been printed is what the characters behind the walk stand for,
and the next argument is the one behind those they consume (`Walked`); a text that
ends with '%' is left two characters behind it, with nothing printed for them
(`PastEnd`). While a number is converted, the digits so far and the numeral of
what is left make up its numeral (`Halfway`), and they fit in the buffer
(`Fits`). That walking and the reference definition agree about which '%' begins a
directive is `EscapesIs`: one does unless the character before it does. That the
digits are right is `NumeralIs`, by recursion on the quotient; that they fit is
`DigitsFit` and `NumlenMonotone`. Together they give `PrintedAsAsked` and, with
the string functions' own overruns, `RuinAlwaysExplained`. Reading a numeral of
any base from 2 to 36 back (`ReadBackAlways`) is an induction over its digits.

About `CString` it holds for all sets of strings (`CStringAssumption`: characters
are codes from 1 to 127; numbers that are read back fit in the int strnum
returns). A loop ends at the least index at which its condition holds (`MinIs`);
up to there two strings agree (`Agree`), which is what comparing and searching
come to. That what strdels keeps is what the reference definition leaves, and that
the tokens of strtok's successive calls, joined, are the string with its delimiters
overwritten, are inductions over the characters. `AnswersAlwaysRight` has one lemma
per group of functions.

About `Console` it holds for every size of the screen. `CursorInv` says that the
cursor's row is one of the screen's and that its cell is on the screen; neither
follows from the other, since x may exceed the row. From it follows `CursorStays`.
`ScreenInv` adds that every cell on the screen was written, and that rows below the
cursor's are empty and no row has a cell behind its first empty one, unless a line
has filled its row; it gives `ScreenClean` and `ConsoleImplementsTerminal`. What
the scroll loop computes is a recursive function over the cells (`ScrolledIs`).

`MallocProofs` holds for every size of heap, pages, requests and words. `TypeInv`,
which only types the sizes in memory and the running call, gives `MallocPages`,
whatever has happened to the chain. Everything else
is about the time before the first split or combination. Then a function from
places to sizes and a place `top` describe the memory (`Chain`): a whole header
with its size at each place, the next place directly behind its data, no magic
number at or behind `top`, and every block handed out at a place whose header is
used and no smaller (`Blocks`). `RunAt` says for each point of a call where the
walk stands and which block is on its way. A step keeps the places as they are
(`PlaceKeeps`), adds one at `top` (`EnlargeKeeps`), or ends the time the invariant
speaks of. `OrderlyInvariant` is their conjunction; `MallocApart`,
`MallocHeaders` and `MallocHeld` follow from it.

The rest of `UserMemoryProofs` holds for every number of processes, every size of
objects above one page, every heap with room for the objects and every initial
content (`UserMemoryAssumption`). Every step is one of `Heap`'s or only stores
into pages (`StepKinds`), so that the lemmas about `Heap` carry over:
`UserHeapSound` and `UserHeapIsPool`. `Inv` adds that objects are blocks of their
own and that what is mapped in each process's directory is what is charged to it,
which gives `MapsAreHeld`. `KernelInv` is about the kernel's directory. While
objects are made nothing is freed, so that below `current_entry` never three
entries in a row are vacant (`BootPacked`), a request of two entries or more
always reaches `current_entry`, and the pages of the new object are mapped
although one was asked for. Together with `LooseKnown`, that a vacant dirty page
is mapped or was stepped over until something is freed, that gives
`HaltsAreExplained`. `Traced`, that data lies in pages marked dirty or in tails,
gives `GrantsAreForgetful` for zeroed memory.

`InterruptsProofs` holds for every set of lines and number of processes. `IntInv`
says that a handler runs with interrupts off, so there is at most one
(`NeverNested`), that the PICs have in service its line until it has sent its EOI
(`EoisMatch`), that whoever has passed fault_handler's cli keeps the CPU
(`HaltStays`), and that boot is alone before enable_interrupts
(`QuietUntilEnabled`).

`PagingProofs` holds for every number of pages, processes, kernel and user slots,
entries of a table and physical pages (`PagingAssumption`). `PInv` joins the typing,
`MapsAsAsked`, `PrivateTables`, `HeldExactly`, `Sharers` (two processes have the
directory at address 0 only once it was set up a second time) and
`KernelMapped`: every directory's kernel slots hold the kernel's tables, which are
the first pages of PagesHeap.
`KernelMapped` says which tables two directories may share, hence that a table
another process loses when a directory is destroyed is one of the kernel's
(`PagesHeldExactly`); `HeldExactly` that a new page is nobody's unless a directory
has been destroyed; `PrivateTables` that entering a page changes one translation
(`TablesStayPrivate`, `AddressSpacesHold`).

`LoaderProofs` holds for every archive, every image, every size of blocks, pages
and tables, wherever UserHeap and calloc's block begin, whatever Create writes and
wherever the heaps give out (`LoaderAssumption`). `Places`, by an induction over
the members, says that each lies behind those before it, hence that all of an
archive that ends below UserHeap is mapped. With it `FoundInv`, that what
tar_fopen returns is a file of the name it was asked for and that without one
there is none, that its headers are written over only if the archive ends behind
`end` (`FrontLies`), and that a page that is not mapped has no table because
PagesHeap gave out, gives `OutcomesAreExplained`. `ArriveInv` says that every byte
of the segments copied so far lies behind `end` and can be read through the
process's table, that each page of the table holds a byte of one of them, and that
nothing has been written at or behind the page where the next segment goes;
separate segments enter different pages, so that a later one neither replaces an
entry nor writes over what is there (`ImageArrives`). `RoomInv` counts the pages
of the file that hold part of a segment done (`Used`): the next segment goes no
further behind the first page of the block than that. A segment touches at least
as many pages of the file as are entered for it (`FilePagesEnough`), and all of
them are pages of the file (`UsedBound`), which leaves the two extra pages asked
for to pay for rounding the begin of the block and the end of the file
(`ImageStays`). Its three hypotheses are those of `StaysInBuffer`, each needed:
TLC finds the room exceeded without it.

Every invariant and every safety property of steps that a passing run checks is
thus stated by a theorem, some under hypotheses the theorem names (nobody sends
signals, memory starts zeroed). Only model-checked is liveness (`IdleRuns`,
`EveryoneRuns`, `CallReturns`, `TimerServed`, `FaultHalts`), which TLAPS cannot do
under fairness. The two runs that expect a violation have nothing to prove.

## 6. Not modelled

* What is constant or pure input and output: the GDT, CPUID, the multiboot layout,
  setting up the serial port, the colours and the hardware cursor of the console.
* What nothing calls: pop_back, insert, resize, SigExit, elf32_unload, the driver
  manager, the exports, Activate, Deactivate and Reset of the keyboard. The table
  of modules is filled by the boot loader and read once.
* The frame on the ring-0 stack that all kernel processes share. What dispatch
  overwrites there (process.cpp:337) is the compiler's choice.
* The page directories of `UserMemory` are sets of frames; that a mapping reaches
  its frame is `Paging`'s `MapsAsAsked`. The two are not composed: their product
  is beyond TLC, and they share no state but the frames' numbers.

What a continuation would take up: the loops of `std/cstring.h` one iteration at a
time, as `HeapScan` does for AllocEntries, and the processes behind a misremoval.
