-------------------------------- MODULE Heap --------------------------------
(***************************************************************************)
(* The page-granular heap of lib/heap.cpp.  KernelHeap and PagesHeap live  *)
(* in zeroed .bss memory, UserHeap in whatever RAM follows the kernel; the *)
(* four Raw* constants say what the EntryInfo  table and the pages may     *)
(* hold before the heap touches them (for .bss: {}, {}, {0} and {}).       *)
(*                                                                         *)
(* Every call runs to completion before the next one (interrupts are off   *)
(* in the handlers, and boot code is alone), so each is one action here;   *)
(* module HeapScan takes AllocEntries apart loop iteration by iteration.   *)
(***************************************************************************)
EXTENDS Integers

CONSTANTS
    MaxEntries,  \* max_entries
    Counts,      \* the counts callers pass to AllocEntries
    Pids,        \* the PIDs callers pass
    RawUsed,     \* slots whose used bit may be set before initialisation
    RawDirty,    \* slots whose dirty bit may be set before initialisation
    RawPids,     \* what AllocPID may hold before initialisation
    RawData      \* pages that may be non-zero before the heap hands them out

Entries == 0 .. MaxEntries - 1

\* current_entry can run one past the table, so the slot there is modelled.
Slots == 0 .. MaxEntries

ASSUME HeapAssumption ==
    /\ MaxEntries \in Nat \ {0}
    /\ Counts \subseteq Nat \ {0}
    /\ RawUsed \subseteq Slots
    /\ RawDirty \subseteq Slots
    /\ RawPids \subseteq Pids
    /\ RawData \subseteq Entries

VARIABLES
    current_entry,  \* entries below it have been brought into use
    used,           \* slots whose EntryInfo.used is set
    dirty,          \* slots whose EntryInfo.dirty is set
    AllocPID,       \* EntryInfo.AllocPID of every slot
    data,           \* pages holding something other than zeroes
    ret,            \* result of the last AllocEntries, an entry or Null
    refused,        \* history: the count the last call refused, 0 if it did not
    blocks,         \* history: blocks handed out and not yet released
    skipped         \* history: slots current_entry stepped over

info == <<used, dirty, AllocPID>>
vars == <<current_entry, used, dirty, AllocPID, data, ret, refused, blocks,
          skipped>>

Null == -1

Block(i, n, p) == [start |-> i, len |-> n, pid |-> p]
Cover(b) == b.start .. b.start + b.len - 1
Covered == UNION {Cover(b) : b \in blocks}

Init ==
    /\ current_entry = 0
    /\ used \in SUBSET RawUsed
    /\ dirty \in SUBSET RawDirty
    /\ AllocPID \in [Slots -> RawPids]
    /\ data \in SUBSET RawData
    /\ ret = Null
    /\ refused = 0
    /\ blocks = {}
    /\ skipped = {}

-----------------------------------------------------------------------------
(* AllocEntries *)

Vacant(e) == e >= current_entry \/ e \notin used

\* Mutant of Fits: the bound of the scan is one entry too low.
FitsTooEarly(i, n) == i + n + 1 < MaxEntries /\ \A e \in i .. i + n : Vacant(e)

\* The scan tests entries i .. i + n, one more than it hands out.
Fits(i, n) == i + n < MaxEntries /\ \A e \in i .. i + n : Vacant(e)

\* A vacant entry met by the scan is cleared when it is dirty.
Cleared(visited) ==
    {e \in visited : e < current_entry /\ e \notin used /\ e \in dirty}

\* Mutant of Fresh: the first new entry is left as it was found.
FreshLate(i, n) == current_entry + 1 .. i + n

\* Entries current_entry .. i + n are initialised when the run reaches them,
\* and current_entry ends one further than the last of them.
Fresh(i, n) == current_entry .. i + n

AllocAt(i, n, p) ==
    /\ used' = (used \ Fresh(i, n)) \cup Cover(Block(i, n, p))
    /\ dirty' = (dirty \ Fresh(i, n)) \cup Cover(Block(i, n, p))
    /\ AllocPID' = [e \in Slots |->
                      IF e \in Cover(Block(i, n, p)) THEN p ELSE AllocPID[e]]
    /\ data' = data \ Cleared(0 .. i + n)
    /\ current_entry' = IF i + n >= current_entry THEN i + n + 2
                                                  ELSE current_entry
    /\ skipped' = (skipped \ Cover(Block(i, n, p)))
                    \cup (IF i + n >= current_entry THEN {i + n + 1} ELSE {})
    /\ blocks' = blocks \cup {Block(i, n, p)}
    /\ ret' = i
    /\ refused' = 0

AllocEntries(n, p) ==
    \E i \in Entries : /\ Fits(i, n)
                       /\ \A j \in 0 .. i - 1 : ~Fits(j, n)
                       /\ AllocAt(i, n, p)

\* The scan gives up at the first used entry that leaves no room behind it.
GaveUpAt(n) == {u \in Entries : ~Vacant(u) /\ u + 1 + n >= MaxEntries}

AllocFails(n) ==
    /\ \A i \in Entries : ~Fits(i, n)
    /\ data' = IF n >= MaxEntries THEN data
               ELSE data \ Cleared({e \in Entries : \A u \in GaveUpAt(n) : e <= u})
    /\ ret' = Null
    /\ refused' = n
    /\ UNCHANGED <<current_entry, info, blocks, skipped>>

-----------------------------------------------------------------------------
(* Releasing: the pages keep their contents and their dirty bit. *)

\* Mutant of FreeEntries: dirty is reset as well.
FreeAndForget(b) ==
    /\ used' = used \ Cover(b)
    /\ dirty' = dirty \ Cover(b)
    /\ blocks' = blocks \ {b}
    /\ refused' = 0
    /\ UNCHANGED <<current_entry, AllocPID, data, ret, skipped>>

FreeEntries(b) ==
    /\ used' = used \ {e \in Cover(b) : e < current_entry}
    /\ blocks' = blocks \ {b}
    /\ refused' = 0
    /\ UNCHANGED <<current_entry, dirty, AllocPID, data, ret, skipped>>

FreeAllProcessEntries(p) ==
    /\ used' = {e \in used : ~(e < current_entry /\ AllocPID[e] = p)}
    /\ blocks' = {b \in blocks : b.pid # p}
    /\ refused' = 0
    /\ UNCHANGED <<current_entry, dirty, AllocPID, data, ret, skipped>>

\* A client stores into a page it was given.
ClientWrite(b) ==
    /\ \E e \in Cover(b) : data' = data \cup {e}
    /\ UNCHANGED <<current_entry, info, ret, refused, blocks, skipped>>

Next ==
    \/ \E n \in Counts, p \in Pids : AllocEntries(n, p)
    \/ \E n \in Counts : AllocFails(n)
    \/ \E b \in blocks : FreeEntries(b)
    \/ \E p \in Pids : FreeAllProcessEntries(p)
    \/ \E b \in blocks : ClientWrite(b)

Spec == Init /\ [][Next]_vars

-----------------------------------------------------------------------------
(* Properties *)

\* Every variable has its type: current_entry may end one past the table and
\* no further, although AllocEntries steps it once too often.
TypeOK ==
    /\ current_entry \in 0 .. MaxEntries + 1
    /\ used \subseteq Slots
    /\ dirty \subseteq Slots
    /\ AllocPID \in [Slots -> Pids]
    /\ data \subseteq Entries
    /\ ret \in Entries \cup {Null}
    /\ refused \in Counts \cup {0}
    /\ blocks \subseteq [start : Entries, len : Nat \ {0}, pid : Pids]
    /\ skipped \subseteq Slots

\* Two blocks held at the same time have no entry in common, whatever was
\* freed and handed out again before (heap.cpp, AllocEntries).
Disjoint == \A b, c \in blocks : b # c => Cover(b) \cap Cover(c) = {}

\* The bookkeeping of a held block survives every other call: its entries are
\* initialised, used, dirty and charged to its process, and a block never
\* takes the last entry of the table.
Owned ==
    \A b \in blocks :
       /\ b.start + b.len < MaxEntries
       /\ \A e \in Cover(b) : /\ e < current_entry
                              /\ e \in used
                              /\ e \in dirty
                              /\ AllocPID[e] = b.pid

\* No leak: an entry in use belongs to a block somebody can still release,
\* except a slot that current_entry stepped over without initialising it.
Accounted ==
    \A e \in used : e < current_entry => e \in Covered \/ e \in skipped

\* In .bss memory a page that holds a former client's data is always marked
\* dirty, so that the next AllocEntries that meets it clears it.
Remembered == \A e \in data : e < current_entry /\ e \in dirty

\* A slot is skipped only below current_entry and never while it is held.
SkippedApart == \A e \in skipped : e < current_entry /\ e \notin Covered

\* What the invariants need to be inductive.
IInv == TypeOK /\ Disjoint /\ Owned /\ Accounted /\ SkippedApart

\* A block handed out from .bss memory contains nothing but zeroes.
ZeroOnAlloc ==
    [][\A b \in blocks' \ blocks : Cover(b) \cap data' = {}]_vars

\* A call touches only what it is about: entries of blocks that stay held
\* keep their contents unless their owner writes them.
HeldDataStable ==
    [][\A b \in blocks \cap blocks' : Cover(b) \cap data \subseteq data']_vars

\* Entries in use that no block covers: stray bits of slots stepped over.
Lost == {e \in used \cap Entries : e < current_entry} \ Covered

Pool == INSTANCE PagePool WITH lost <- Lost

\* The heap keeps the promises of PagePool: blocks are granted from free
\* entries only, a request for n entries is refused only when no run of n + 1
\* entries is free, FreeAllProcessEntries takes back that process's blocks
\* alone, and no entry gets lost but the one a grant steps over.
ImplementsPool == Pool!PoolSpec
=============================================================================
