------------------------------- MODULE Paging -------------------------------
(***************************************************************************)
(* Page directories and page tables (lib/paging.cpp) and the heap page     *)
(* they are taken from, PagesHeap.  Every process directory shares the     *)
(* kernel's tables in its first slots and owns the tables of the others.   *)
(*                                                                         *)
(* PagesHeap is seen as module Heap describes it for one-page requests:    *)
(* the lowest page is taken whose successor is free too, and it comes      *)
(* cleared.  When it has none, a process gets the directory at address 0,  *)
(* which lies outside it, and a mapping that needs a new table is dropped. *)
(*                                                                         *)
(* The state starts after paging_init and page_init_kdir.  All mappings    *)
(* the kernel makes are read_write.  Nothing in the kernel calls the       *)
(* unmapping functions yet.                                                *)
(***************************************************************************)
EXTENDS Integers, FiniteSets

CONSTANTS
    MaxFrames,    \* pages of PagesHeap
    KernelSlots,  \* directory slots below kend
    UserSlots,    \* directory slots above, as many as are used
    TableSize,    \* entries of a page table
    Phys,         \* physical pages mappings may refer to
    MaxProcesses, \* bound: processes at a time
    MaxUnmaps     \* bound: calls of the unmapping functions

ASSUME PagingAssumption ==
    /\ KernelSlots \in Nat \ {0} /\ UserSlots \in Nat /\ TableSize \in Nat \ {0}
    /\ MaxFrames \in Nat /\ MaxFrames > KernelSlots + 1
    /\ Phys \subseteq Nat \ {0}
    /\ {MaxProcesses, MaxUnmaps} \subseteq Nat

Frames == 0 .. MaxFrames - 1
NullDir == -1
Dirs == Frames \cup {NullDir}
Slots == 0 .. KernelSlots + UserSlots - 1
Pages == 0 .. TableSize - 1

VARIABLES
    allocated,  \* PagesHeap pages in use
    entry,      \* every page read as a directory: its entries
    page,       \* every page read as a table: its entries
    users,      \* how many processes have each directory; the kernel is one
    asked,      \* history: the mapping last asked for, per directory
    dropped,    \* history: where the last mapping asked for got no table
    doubled,    \* history: the directory at 0 was set up while it had users
    destroyed,  \* history: a directory has been destroyed
    unmaps,     \* history: how often something was unmapped
    ruin        \* history: "reuse", a page was handed out that is still in use,
                \* "stale", a table was used that has been given back, or
                \* "remap", a process's mapping replaced one of the kernel's

vars == <<allocated, entry, page, users, asked, dropped, doubled, destroyed,
          unmaps, ruin>>

kernel_dir == 0
Null == 0
supervisor == 0
user == 1
read_write == 1

Unmapped == 0
NoEntry == [present |-> FALSE, privilege |-> supervisor, table |-> Null]
NoPage == [privilege |-> supervisor, phys |-> Unmapped]
Blank == [pg \in Pages |-> NoPage]

\* The kernel maps its own 4 MB regions onto themselves; Same stands for those
\* identity mappings.
Same == -1
Identity == [pg \in Pages |-> [privilege |-> supervisor, phys |-> Same]]
KernelTables == 1 .. KernelSlots

Init ==
    /\ allocated = {kernel_dir} \cup KernelTables
    /\ entry = [f \in Dirs |-> [s \in Slots |->
                  IF f = kernel_dir /\ s < KernelSlots
                  THEN [present |-> TRUE, privilege |-> supervisor, table |-> s + 1]
                  ELSE NoEntry]]
    /\ page = [f \in Frames |-> IF f \in KernelTables THEN Identity ELSE Blank]
    /\ users = [f \in Dirs |-> IF f = kernel_dir THEN 1 ELSE 0]
    /\ asked = [f \in Dirs |-> [s \in Slots |-> [pg \in Pages |->
                  IF s < KernelSlots THEN Same ELSE Unmapped]]]
    /\ dropped = {}
    /\ doubled = FALSE
    /\ destroyed = FALSE
    /\ unmaps = 0
    /\ ruin = "none"

-----------------------------------------------------------------------------
Available == {f \in Frames : {f, f + 1} \subseteq Frames \ allocated}
NewFrame(f) == f \in Available /\ \A g \in Available : f <= g

live == {d \in Dirs : users[d] > 0}
Processes == Cardinality(live \ {kernel_dir, NullDir}) + users[NullDir]
Tables(d) == {entry[d][s].table : s \in {s \in Slots : entry[d][s].present}}
Referenced == (live \ {NullDir}) \cup UNION {Tables(d) : d \in live}
Twice == IF doubled /\ NullDir \in live THEN Tables(NullDir) ELSE {}
Handed(f) == IF f \in Referenced THEN "reuse" ELSE "none"
DroppedOutside(d) == {m \in dropped : m[1] # d}

\* Mutant of InitDir: every entry of the kernel's directory is copied.
InitDirCopyAll(d) ==
    /\ users' = [users EXCEPT ![d] = @ + 1]
    /\ entry' = [entry EXCEPT ![d] = entry[kernel_dir]]
    /\ asked' = [asked EXCEPT ![d] = asked[kernel_dir]]
    /\ dropped' = DroppedOutside(d)

\* page_init_dir: copies of the kernel's entries in the kernel's slots.
InitDir(d) ==
    /\ users' = [users EXCEPT ![d] = @ + 1]
    /\ entry' = [entry EXCEPT ![d] = [s \in Slots |->
                    IF s < KernelSlots THEN entry[kernel_dir][s] ELSE NoEntry]]
    /\ asked' = [asked EXCEPT ![d] = [s \in Slots |->
                    IF s < KernelSlots THEN asked[kernel_dir][s]
                    ELSE [pg \in Pages |-> Unmapped]]]
    /\ dropped' = DroppedOutside(d)

\* page_create_dir and page_init_dir, as Create calls them: the null pointer
\* that stands for no page is initialised and used like any other directory.
CreateDir ==
    /\ ruin = "none"
    /\ Processes < MaxProcesses
    /\ \/ \E d \in Frames :
          /\ NewFrame(d)
          /\ allocated' = allocated \cup {d}
          /\ ruin' = Handed(d)
          /\ page' = [page EXCEPT ![d] = Blank]
          /\ InitDir(d)
          /\ UNCHANGED doubled
       \/ /\ Available = {}
          /\ InitDir(NullDir)
          /\ doubled' = (doubled \/ users[NullDir] > 0)
          /\ UNCHANGED <<allocated, page, ruin>>
    /\ UNCHANGED <<destroyed, unmaps>>

\* The directory entry opens up to the privilege of the mapping; the source
\* compares the mapping's rw with the entry's privilege.
Widened(e, priv) == IF read_write > e.privilege THEN priv ELSE e.privilege

\* Mutant of EnterPage: a new table keeps what its page held before.
EnterPageStale(d, s, pg, p, priv, t, tables) ==
    /\ page' = [page EXCEPT ![t][pg] = [privilege |-> priv, phys |-> p]]
    /\ entry' = [entry EXCEPT ![d][s] =
                   [present |-> TRUE, privilege |-> Widened(@, priv), table |-> t]]
    /\ asked' = [f \in Dirs |->
                   IF f = d \/ (s < KernelSlots /\ f \in live)
                   THEN [asked[f] EXCEPT ![s][pg] = p] ELSE asked[f]]
    /\ dropped' = dropped \ {<<d, s, pg>>}

EnterPage(d, s, pg, p, priv, t, tables) ==
    /\ page' = [tables EXCEPT ![t][pg] = [privilege |-> priv, phys |-> p]]
    /\ entry' = [entry EXCEPT ![d][s] =
                   [present |-> TRUE, privilege |-> Widened(@, priv), table |-> t]]
    /\ asked' = [f \in Dirs |->
                   IF f = d \/ (s < KernelSlots /\ f \in live)
                   THEN [asked[f] EXCEPT ![s][pg] = p] ELSE asked[f]]
    /\ dropped' = dropped \ {<<d, s, pg>>}

\* An entry keeps its table's address when the table is unmapped; below kend the
\* table is the one all directories share.
UsesTable(d, s) ==
    ruin' = IF ~entry[d][s].present THEN "stale"
            ELSE IF s < KernelSlots /\ d # kernel_dir THEN "remap" ELSE "none"

\* page_map_addr_dir_one_pg, and page_map_addr_one_pg, whose current directory
\* is the kernel's in every call the kernel makes.  Without a page for a table
\* nothing is mapped, and nobody is told.
MapPage(d, s, pg, p, priv) ==
    /\ ruin = "none"
    /\ LET t == entry[d][s].table IN
       \/ /\ t # Null
          /\ EnterPage(d, s, pg, p, priv, t, page)
          /\ UsesTable(d, s)
          /\ UNCHANGED allocated
       \/ \E f \in Frames :
          /\ t = Null /\ NewFrame(f)
          /\ EnterPage(d, s, pg, p, priv, f, [page EXCEPT ![f] = Blank])
          /\ allocated' = allocated \cup {f}
          /\ ruin' = Handed(f)
       \/ /\ t = Null /\ Available = {}
          /\ asked' = [asked EXCEPT ![d][s][pg] = p]
          /\ dropped' = dropped \cup {<<d, s, pg>>}
          /\ UNCHANGED <<allocated, ruin, page, entry>>
    /\ UNCHANGED <<users, doubled, destroyed, unmaps>>

\* A process leaves its directory.
Leaves(d) ==
    /\ users' = [users EXCEPT ![d] = @ - 1]
    /\ destroyed' = TRUE
    /\ IF users[d] = 1
       THEN /\ asked' = [asked EXCEPT ![d] = [s \in Slots |-> [pg \in Pages |-> Unmapped]]]
            /\ dropped' = DroppedOutside(d)
       ELSE UNCHANGED <<asked, dropped>>

\* Mutant of DestroyDir: the tables are kept.
DestroyDirOnly(d) ==
    /\ ruin = "none"
    /\ allocated' = allocated \ {d}
    /\ Leaves(d)
    /\ UNCHANGED <<entry, page, doubled, unmaps, ruin>>

\* page_destroy_dir frees the table behind every present entry, those the
\* kernel shares with it included, and then the directory; FreeEntries ignores
\* the one at address 0.
DestroyDir(d) ==
    /\ ruin = "none"
    /\ allocated' = allocated \ (Tables(d) \cup {d})
    /\ Leaves(d)
    /\ UNCHANGED <<entry, page, doubled, unmaps, ruin>>

Unmaps(d, s) ==
    /\ ruin = "none" /\ unmaps < MaxUnmaps
    /\ unmaps' = unmaps + 1
    /\ entry[d][s].table # Null
    /\ UsesTable(d, s)

\* page_unmap_addr_dir_one_pg, and page_unmap_addr_one_pg for the current
\* directory, of a page that was mapped once.
UnmapPage(d, s, pg) ==
    /\ Unmaps(d, s)
    /\ page' = [page EXCEPT ![entry[d][s].table][pg].phys = Unmapped]
    /\ asked' = [asked EXCEPT ![d][s][pg] = Unmapped]
    /\ dropped' = dropped \ {<<d, s, pg>>}
    /\ UNCHANGED <<allocated, entry, users, doubled, destroyed>>

\* page_unmap_addr_dir and page_unmap_addr: the table is given back, also when
\* it has been already.
UnmapTable(d, s) ==
    /\ Unmaps(d, s)
    /\ allocated' = allocated \ {entry[d][s].table}
    /\ entry' = [entry EXCEPT ![d][s].present = FALSE]
    /\ asked' = [asked EXCEPT ![d][s] = [pg \in Pages |-> Unmapped]]
    /\ dropped' = {m \in dropped : ~(m[1] = d /\ m[2] = s)}
    /\ UNCHANGED <<page, users, doubled, destroyed>>

\* In its own directory the kernel maps pages onto themselves, for supervisor
\* mode; in a process's directory any page, for user mode: its object and what
\* palloc grants above the kernel's slots, an image wherever it is linked to.
\* Unmapping leaves the kernel's slots alone.
Next ==
    \/ CreateDir
    \/ \E s \in Slots, pg \in Pages : MapPage(kernel_dir, s, pg, Same, supervisor)
    \/ \E d \in live \ {kernel_dir}, s \in Slots, pg \in Pages, p \in Phys :
          MapPage(d, s, pg, p, user)
    \/ \E d \in live \ {kernel_dir} : DestroyDir(d)
    \/ \E d \in live, s \in Slots :
          s >= KernelSlots /\ (UnmapTable(d, s) \/ \E pg \in Pages : UnmapPage(d, s, pg))

Spec == Init /\ [][Next]_vars

-----------------------------------------------------------------------------
(* Properties; they speak of the executions in which no page in use has been *)
(* handed out a second time, no table is used that was given back, and no     *)
(* process's mapping has replaced one of the kernel's.                        *)

Table == [Pages -> [privilege : {supervisor, user}, phys : Phys \cup {Same, Unmapped}]]
Entry == [present : BOOLEAN, privilege : {supervisor, user}, table : Frames]

TypeOK ==
    /\ allocated \subseteq Frames
    /\ entry \in [Dirs -> [Slots -> Entry]]
    /\ page \in [Frames -> Table]
    /\ users \in [Dirs -> Nat] /\ kernel_dir \in live
    /\ dropped \subseteq Dirs \X Slots \X Pages
    /\ {doubled, destroyed} \subseteq BOOLEAN /\ unmaps \in 0 .. MaxUnmaps
    /\ ruin \in {"none", "reuse", "stale", "remap"}

Translate(d, s, pg) ==
    IF entry[d][s].present THEN page[entry[d][s].table][pg].phys ELSE Unmapped

\* An address space maps exactly what was last asked for in it since it was set
\* up, and in the kernel's slots what the kernel asked for, whatever was mapped
\* or destroyed elsewhere and whatever the table's page held before; but where
\* the request found PagesHeap without a page for the table it needed, nothing
\* is mapped, whatever was there before.  A page mapped for user mode can be
\* reached from there: its directory entry is as permissive.
MapsAsAsked ==
    ruin = "none" => \A d \in live, s \in Slots, pg \in Pages :
       /\ Translate(d, s, pg) =
             IF <<d, s, pg>> \in dropped THEN Unmapped ELSE asked[d][s][pg]
       /\ entry[d][s].present /\ page[entry[d][s].table][pg].privilege = user
          => entry[d][s].privilege = user

\* Outside the kernel's slots no two directories share a table, and no table
\* doubles as a directory.  No two processes have the same directory, but for
\* the one at address 0 that every process gets for which there is no page.
PrivateTables ==
    ruin = "none" =>
       /\ \A d, e \in live, s, t \in Slots :
             /\ entry[d][s].present => entry[d][s].table \notin live
             /\ entry[d][s].present /\ entry[e][t].present
                  /\ entry[d][s].table = entry[e][t].table
                => s = t /\ (d = e \/ s < KernelSlots)
       /\ \A d \in live : users[d] > 1 => d = NullDir

\* What is allocated is in use, so no page of PagesHeap leaks, and what is in use
\* is allocated, but for the shared kernel tables once a directory was destroyed:
\* until then no page in use is handed out again.  When the directory at 0 is
\* set up a second time tables do leak, and its own are given back by the first
\* of its processes to exit.
HeldExactly ==
    /\ ruin = "none" =>
          /\ ~doubled => allocated \subseteq Referenced
          /\ Referenced \ allocated \subseteq
                IF destroyed THEN KernelTables \cup Twice ELSE {}
    /\ ruin = "reuse" => destroyed

\* "Indicates whether the table is present in memory" (paging.h, present).
PresentInMemory ==
    \A d \in live, s \in Slots :
       entry[d][s].present => entry[d][s].table \in allocated
=============================================================================
