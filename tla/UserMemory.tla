----------------------------- MODULE UserMemory -----------------------------
(***************************************************************************)
(* The memory of processes: UserHeap (module Heap), the process objects    *)
(* taken from it (lib/process.cpp), the pages palloc maps into a process's *)
(* directory (lib/syscalls.cpp) and those the kernel's directory maps      *)
(* (lib/heap.cpp, with paged false).                                       *)
(*                                                                         *)
(* A process object ends a few bytes behind the pages reserved for it, in  *)
(* its tail page.  Page frames are numbered from 0; UserHeap's entries are *)
(* the frames from LowFrames on.  All objects are created at boot, before  *)
(* the first module runs; the heap is large enough for them.               *)
(***************************************************************************)
EXTENDS Heap, FiniteSets

CONSTANTS
    Processes,   \* at most so many processes, the idle loop included
    ObjEntries,  \* PROC_ENTRIES_COUNT
    LowFrames    \* page frames below UserHeap

ASSUME UserMemoryAssumption ==
    /\ Processes \in Nat \ {0} /\ ObjEntries \in Nat \ {0, 1}
    /\ LowFrames \in Nat
    /\ MaxEntries > Processes * ObjEntries + 1
    /\ 0 .. Processes - 1 \subseteq Pids
    /\ ObjEntries \in Counts

VARIABLES
    object,      \* where the object of every process created begins
    step,        \* "alloc" and "init" in Create, then "run"; "free" in Destroy
    dying,       \* the process Destroy is at work on
    exited,      \* processes destroyed
    mapped,      \* frames palloc has mapped in every process's directory
    kmapped,     \* UserHeap entries the kernel's directory maps
    unmet,       \* history: who was told of success when palloc had failed
    halted       \* the kernel has touched a page its directory does not map

umvars == <<vars, object, step, dying, exited, mapped, kmapped, unmet, halted>>

Idle == 0
Nobody == -1
Objects == DOMAIN object
Live == Objects \ exited
Running == Live \ {Idle}
ObjBlock(p) == Block(object[p], ObjEntries, 0)
Tail(p) == object[p] + ObjEntries
FrameOf(e) == LowFrames + e

UMInit ==
    /\ Init
    /\ object = <<>>
    /\ step = "alloc"
    /\ dying = Nobody
    /\ exited = {}
    /\ mapped = [p \in 0 .. Processes - 1 |-> {}]
    /\ kmapped = {}
    /\ unmet = {}
    /\ halted = FALSE

\* Mutant of Mapped: the page AllocEntries only tests is not mapped.
MappedGranted(n) == kmapped \cup current_entry .. ret' + n - 1

\* AllocEntries maps an entry when it brings it into use; the one it steps
\* over is never mapped.
Mapped(n) == kmapped \cup Fresh(ret', n)

\* The entries the scan for n entries looks at.
Visited(n) ==
    {e \in Slots : \A i \in Entries :
       IF \E j \in Entries : Fits(j, n) THEN Fits(i, n) => e <= i + n
                                        ELSE i \in GaveUpAt(n) => e <= i}

\* Clearing a page stores through the kernel's directory, mapped or not.
ClearFaults(n) == ~(Cleared(Visited(n)) \subseteq kmapped)

ScanHalts(n) ==
    /\ ClearFaults(n)
    /\ halted' = TRUE
    /\ UNCHANGED <<vars, object, step, dying, exited, mapped, kmapped, unmet>>

-----------------------------------------------------------------------------
(* Boot: GetFreeProcEntry, Create and Init of ProcessManager *)

\* The object is charged to PID 0.  The count of entries is passed for a size
\* in bytes, so that one page is mapped for it.
GetFreeProcEntry ==
    /\ step = "alloc" /\ Cardinality(Objects) < Processes
    /\ ~ClearFaults(ObjEntries)
    /\ AllocEntries(ObjEntries, 0)
    /\ object' = [p \in Objects \cup {Cardinality(Objects)} |->
                    IF p \in Objects THEN object[p] ELSE ret']
    /\ kmapped' = Mapped(ObjEntries) \cup {ret'}
    /\ step' = "init"
    /\ UNCHANGED <<dying, exited, mapped, unmet, halted>>

\* The rest of Create fills in the registers, in the first page, and the
\* control fields, in the tail page; the stack between them is left alone.
InitProcess ==
    /\ step = "init" /\ ~halted
    /\ LET p == Cardinality(Objects) - 1
           touched == {object[p], Tail(p)}
       IN  /\ halted' = ~(touched \subseteq kmapped)
           /\ data' = IF halted' THEN data ELSE data \cup touched
    /\ step' = IF halted' THEN "init" ELSE "alloc"
    /\ UNCHANGED <<current_entry, info, ret, refused, blocks, skipped,
                   object, dying, exited, mapped, kmapped, unmet>>

Booted ==
    /\ step = "alloc" /\ Objects # {}
    /\ step' = "run"
    /\ UNCHANGED <<vars, object, dying, exited, mapped, kmapped, unmet,
                   halted>>

-----------------------------------------------------------------------------
(* palloc and exit *)

Frames(first, n) == {FrameOf(e) : e \in first .. first + n - 1}

\* Mutant of Palloc: the pages are charged to nobody.
PallocUncharged(p, n) ==
    /\ ~ClearFaults(n)
    /\ AllocEntries(n, 0)
    /\ mapped' = [mapped EXCEPT ![p] = @ \cup Frames(ret', n)]
    /\ kmapped' = Mapped(n)
    /\ UNCHANGED <<object, step, dying, exited, unmet, halted>>

Palloc(p, n) ==
    /\ ~ClearFaults(n)
    /\ AllocEntries(n, p)
    /\ mapped' = [mapped EXCEPT ![p] = @ \cup Frames(ret', n)]
    /\ kmapped' = Mapped(n)
    /\ UNCHANGED <<object, step, dying, exited, unmet, halted>>

\* The heap has no room.  The test for that looks at eax, which holds the call's
\* number: the null pointer is mapped and reported as any other block.
PallocUnmet(p, n) ==
    /\ n <= MaxEntries
    /\ ~ClearFaults(n)
    /\ AllocFails(n)
    /\ mapped' = [mapped EXCEPT ![p] = @ \cup 0 .. n - 1]
    /\ unmet' = unmet \cup {p}
    /\ UNCHANGED <<object, step, dying, exited, kmapped, halted>>

\* exit: Destroy frees what is charged to the process and its directory, ...
ExitReleases(p) ==
    /\ FreeAllProcessEntries(p)
    /\ mapped' = [mapped EXCEPT ![p] = {}]
    /\ dying' = p
    /\ step' = "free"
    /\ UNCHANGED <<object, exited, kmapped, unmet, halted>>

\* ... and then its object.
ExitFrees ==
    /\ step = "free"
    /\ FreeEntries(ObjBlock(dying))
    /\ exited' = exited \cup {dying}
    /\ dying' = Nobody
    /\ step' = "run"
    /\ UNCHANGED <<object, mapped, kmapped, unmet, halted>>

\* A process stores into a page its palloc calls have mapped.
Store(p) ==
    /\ \E f \in mapped[p] :
          data' = IF f < LowFrames THEN data ELSE data \cup {f - LowFrames}
    /\ UNCHANGED <<current_entry, info, ret, refused, blocks, skipped,
                   object, step, dying, exited, mapped, kmapped, unmet,
                   halted>>

Boot ==
    /\ ~halted
    /\ \/ GetFreeProcEntry
       \/ step = "alloc" /\ Cardinality(Objects) < Processes /\ ScanHalts(ObjEntries)
       \/ InitProcess
       \/ Booted

UserCall ==
    /\ step = "run" /\ ~halted
    /\ \E p \in Running :
          \/ \E n \in Counts : Palloc(p, n) \/ PallocUnmet(p, n) \/ ScanHalts(n)
          \/ ExitReleases(p)
          \/ Store(p)

UMNext == Boot \/ UserCall \/ ExitFrees

UMSpec == UMInit /\ [][UMNext]_umvars

-----------------------------------------------------------------------------
(* Properties *)

Charged(p) == UNION {Cover(b) : b \in {c \in blocks : c.pid = p}}

\* What a process has mapped is what the heap holds in its name, whoever else
\* has come and gone, and after its exit the heap holds nothing for it: pages
\* neither leak nor are handed to a second process, as long as the process was
\* told the truth about its pallocs (syscalls.cpp, cases 1 and 2).
MappedIsHeld ==
    /\ \A p \in (Objects \ {Idle}) \ unmet :
          mapped[p] = {FrameOf(e) : e \in Charged(p)}
    /\ \A p \in Live : ObjBlock(p) \in blocks

\* The kernel runs into an unmapped page only where AllocEntries clears a page
\* that was stepped over earlier and either looked dirty before the heap touched
\* it or was given away and has been freed since.  In particular the objects'
\* pages are mapped, although one page per object is mapped for that purpose
\* (process.cpp, GetFreeProcEntry; heap.cpp:54).
HaltsExplained == halted => exited # {} \/ skipped \cap dirty # {}

\* A block handed out holds nothing of what another process wrote, unless it
\* takes in the tail page of an object, which no block covers, or a failed
\* palloc has been reported as a success (heap.cpp:57).
GrantsForget ==
    [][unmet = {} => \A b \in blocks' \ blocks :
          Cover(b) \cap data' \subseteq {Tail(p) : p \in Objects}]_umvars
=============================================================================
