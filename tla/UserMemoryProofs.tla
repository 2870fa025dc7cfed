-------------------------- MODULE UserMemoryProofs --------------------------
(***************************************************************************)
(* Theorems about the page heap, and about the memory of processes that    *)
(* is taken from it.                                                       *)
(*                                                                         *)
(* The first part is about Heap alone, which UserMemory extends: for every *)
(* size of the table, every set of requests and process ids and whatever   *)
(* the raw memory held.  It uses nothing of UserMemory.                    *)
(*                                                                         *)
(* In the second part every step is a step of UserHeap or changes only     *)
(* what pages hold, so that the heap's invariant carries over; Inv adds    *)
(* what ties processes, their mappings and the kernel's directory to the   *)
(* heap's blocks.                                                          *)
(***************************************************************************)
EXTENDS UserMemory, FiniteSetTheorems, TLAPS

\* The entries a request is about to get are nobody's: a held entry is used
\* and below current_entry, and the scan passes over those.
LEMMA FitsUncovered ==
    ASSUME IInv, NEW i \in Entries, NEW n \in Counts, Fits(i, n),
           NEW b \in blocks
    PROVE  (i .. i + n) \cap Cover(b) = {}
<1>1. \A e \in Cover(b) : ~Vacant(e)
  BY HeapAssumption DEF IInv, Owned, TypeOK, Vacant, Cover, Slots, Entries
<1>2. \A e \in i .. i + n : Vacant(e)
  BY DEF Fits
<1> QED
  BY <1>1, <1>2

\* The shape of a new block.
LEMMA NewBlock ==
    ASSUME NEW i \in Entries, NEW n \in Counts, NEW p \in Pids, Fits(i, n)
    PROVE  /\ Block(i, n, p) \in [start : Entries, len : Nat \ {0}, pid : Pids]
           /\ Block(i, n, p).start = i
           /\ Block(i, n, p).len = n
           /\ Block(i, n, p).pid = p
           /\ Cover(Block(i, n, p)) = i .. i + n - 1
           /\ Cover(Block(i, n, p)) \subseteq i .. i + n
           /\ i .. i + n \subseteq Entries
           /\ i + n < MaxEntries
BY HeapAssumption DEF Block, Cover, Fits, Entries

\* Handing out a fitting run keeps the invariant.
LEMMA AllocInv ==
    ASSUME IInv, NEW i \in Entries, NEW n \in Counts, NEW p \in Pids,
           Fits(i, n), AllocAt(i, n, p)
    PROVE  IInv'
<1> DEFINE b0 == Block(i, n, p)
           run == Cover(b0)
<1>1. /\ n \in Nat \ {0} /\ i \in Nat /\ MaxEntries \in Nat
      /\ current_entry \in Nat /\ current_entry <= MaxEntries + 1
  BY HeapAssumption DEF IInv, TypeOK, Entries
<1>2. /\ b0 \in [start : Entries, len : Nat \ {0}, pid : Pids]
      /\ b0.start = i /\ b0.len = n /\ b0.pid = p
      /\ run = i .. i + n - 1
      /\ run \subseteq i .. i + n
      /\ i .. i + n \subseteq Entries
      /\ i + n < MaxEntries
  BY NewBlock
<1>3. \A b \in blocks : (i .. i + n) \cap Cover(b) = {}
  BY FitsUncovered
<1>4. \A b \in blocks : Cover(b) \cap Fresh(i, n) = {}
  BY <1>1 DEF IInv, TypeOK, Owned, Fresh, Cover, Entries
<1>5. /\ used' = (used \ Fresh(i, n)) \cup run
      /\ dirty' = (dirty \ Fresh(i, n)) \cup run
      /\ AllocPID' = [e \in Slots |-> IF e \in run THEN p ELSE AllocPID[e]]
      /\ data' \subseteq data
      /\ current_entry' = IF i + n >= current_entry THEN i + n + 2
                                                    ELSE current_entry
      /\ skipped' = (skipped \ run)
                      \cup (IF i + n >= current_entry THEN {i + n + 1} ELSE {})
      /\ blocks' = blocks \cup {b0}
      /\ ret' = i
      /\ refused' = 0
  BY DEF AllocAt
<1> HIDE DEF b0, run
<1>6. current_entry' \in Nat /\ current_entry' >= current_entry
  BY <1>1, <1>5
<1>7. TypeOK'
  <2>1. current_entry' \in 0 .. MaxEntries + 1
    BY <1>1, <1>2, <1>5
  <2>2. used' \subseteq Slots /\ dirty' \subseteq Slots
    <3>1. used \subseteq Slots /\ dirty \subseteq Slots
      BY DEF IInv, TypeOK
    <3>2. Entries \subseteq Slots
      BY <1>1 DEF Entries, Slots
    <3>3. run \subseteq Entries
      BY <1>2
    <3> QED
      BY <1>5, <3>1, <3>2, <3>3
  <2>3. AllocPID' \in [Slots -> Pids]
    BY <1>5 DEF IInv, TypeOK
  <2>4. skipped' \subseteq Slots
    BY <1>1, <1>2, <1>5 DEF IInv, TypeOK, Slots
  <2> QED
    BY <1>2, <1>5, <2>1, <2>2, <2>3, <2>4 DEF IInv, TypeOK
<1>8. Disjoint'
  <2>1. \A b, c \in blocks : b # c => Cover(b) \cap Cover(c) = {}
    BY DEF IInv, Disjoint
  <2>2. \A b \in blocks : Cover(b) \cap Cover(b0) = {}
    BY <1>2, <1>3 DEF run
  <2> QED
    BY <1>5, <2>1, <2>2 DEF Disjoint, Cover
<1>9. Owned'
  <2> SUFFICES ASSUME NEW b \in blocks'
               PROVE  /\ b.start + b.len < MaxEntries
                      /\ \A e \in Cover(b) : /\ e < current_entry'
                                             /\ e \in used'
                                             /\ e \in dirty'
                                             /\ AllocPID'[e] = b.pid
    BY DEF Owned, Cover
  <2>1. CASE b = b0
    <3>1. \A e \in run : e \in Slots /\ e < current_entry'
      BY <1>1, <1>2, <1>5 DEF Slots
    <3> QED
      BY <2>1, <3>1, <1>1, <1>2, <1>5 DEF run
  <2>2. CASE b \in blocks
    <3>1. Cover(b) \cap run = {}
      BY <1>2, <1>3, <2>2
    <3>2. /\ b.start + b.len < MaxEntries
          /\ \A e \in Cover(b) : /\ e < current_entry
                                 /\ e \in used
                                 /\ e \in dirty
                                 /\ AllocPID[e] = b.pid
      BY <2>2 DEF IInv, Owned
    <3>3. \A e \in Cover(b) : e \in Slots /\ e \in Int
      <4>1. used \subseteq Slots
        BY DEF IInv, TypeOK
      <4>2. \A e \in Slots : e \in Int
        BY <1>1 DEF Slots
      <4> QED
        BY <3>2, <4>1, <4>2
    <3>4. \A e \in Cover(b) : e < current_entry'
      BY <1>1, <1>6, <3>2, <3>3
    <3>5. \A e \in Cover(b) : e \in used' /\ e \in dirty'
      BY <1>4, <1>5, <2>2, <3>2
    <3>6. \A e \in Cover(b) : AllocPID'[e] = b.pid
      BY <1>5, <3>1, <3>2, <3>3
    <3> QED
      BY <3>2, <3>4, <3>5, <3>6
  <2> QED
    BY <1>5, <2>1, <2>2
<1>10. Covered' = Covered \cup run
  BY <1>5 DEF Covered, Cover, run
<1>11. Accounted'
  <2> SUFFICES ASSUME NEW e \in used', e < current_entry', e \notin run
               PROVE  e \in Covered \/ e \in skipped'
    BY <1>10 DEF Accounted
  <2>1. e \in used /\ e \notin Fresh(i, n) /\ e \in Slots
    BY <1>5 DEF IInv, TypeOK
  <2>2. CASE e < current_entry
    BY <1>5, <2>1, <2>2 DEF IInv, Accounted
  <2>3. CASE e >= current_entry
    BY <1>1, <1>2, <1>5, <2>1, <2>3 DEF Fresh, Slots
  <2> QED
    BY <2>1, <2>2, <2>3, <1>1 DEF Slots
<1>12. SkippedApart'
  <2> SUFFICES ASSUME NEW e \in skipped'
               PROVE  e < current_entry' /\ e \notin Covered /\ e \notin run
    BY <1>10 DEF SkippedApart
  <2>1. CASE e \in skipped /\ e \notin run
    BY <2>1, <1>1, <1>6 DEF IInv, SkippedApart, TypeOK, Slots
  <2>2. CASE i + n >= current_entry /\ e = i + n + 1
    <3>1. \A b \in blocks : e \notin Cover(b)
      BY <2>2, <1>1 DEF IInv, Owned, TypeOK, Cover, Entries
    <3> QED
      BY <2>2, <3>1, <1>1, <1>2, <1>5 DEF Covered
  <2> QED
    BY <1>5, <2>1, <2>2
<1> QED
  BY <1>7, <1>8, <1>9, <1>11, <1>12 DEF IInv

-----------------------------------------------------------------------------
\* A refused request only clears pages that nobody holds.
LEMMA FailInv ==
    ASSUME IInv, NEW n \in Counts, AllocFails(n)
    PROVE  IInv'
<1>1. /\ UNCHANGED <<current_entry, used, dirty, AllocPID, blocks, skipped>>
      /\ data' \subseteq data
      /\ ret' = Null /\ refused' = n
  BY DEF AllocFails, info
<1>2. TypeOK'
  BY <1>1 DEF IInv, TypeOK
<1>3. Disjoint' /\ Owned' /\ Accounted' /\ SkippedApart'
  BY <1>1 DEF IInv, Disjoint, Owned, Accounted, SkippedApart, Covered, Cover
<1> QED
  BY <1>2, <1>3 DEF IInv

\* Two held blocks never share an entry, so what is released with one block
\* is not an entry of another.
LEMMA ReleaseApart ==
    ASSUME IInv, NEW b \in blocks, NEW c \in blocks, b # c
    PROVE  Cover(b) \cap Cover(c) = {}
BY DEF IInv, Disjoint

LEMMA FreeInv ==
    ASSUME IInv, NEW b \in blocks, FreeEntries(b)
    PROVE  IInv'
<1>1. /\ used' = used \ {e \in Cover(b) : e < current_entry}
      /\ blocks' = blocks \ {b}
      /\ refused' = 0
      /\ UNCHANGED <<current_entry, dirty, AllocPID, data, ret, skipped>>
  BY DEF FreeEntries
<1>2. TypeOK'
  BY <1>1 DEF IInv, TypeOK
<1>3. Disjoint'
  BY <1>1 DEF IInv, Disjoint, Cover
<1>4. Owned'
  BY <1>1, ReleaseApart DEF IInv, Owned, Cover
<1>5. \A e \in Covered : e \in Covered' \/ e \in Cover(b)
  BY <1>1 DEF Covered, Cover
<1>6. Accounted'
  BY <1>1, <1>5 DEF IInv, Accounted
<1>7. SkippedApart'
  <2>1. Covered' \subseteq Covered
    BY <1>1 DEF Covered, Cover
  <2> QED
    BY <1>1, <2>1 DEF IInv, SkippedApart
<1> QED
  BY <1>2, <1>3, <1>4, <1>6, <1>7 DEF IInv

\* Releasing everything of a process cannot hit another's block: the entries
\* of a held block are charged to the process it was handed to.
LEMMA FreeAllInv ==
    ASSUME IInv, NEW p \in Pids, FreeAllProcessEntries(p)
    PROVE  IInv'
<1>1. /\ used' = {e \in used : ~(e < current_entry /\ AllocPID[e] = p)}
      /\ blocks' = {b \in blocks : b.pid # p}
      /\ refused' = 0
      /\ UNCHANGED <<current_entry, dirty, AllocPID, data, ret, skipped>>
  BY DEF FreeAllProcessEntries
<1>2. TypeOK'
  BY <1>1 DEF IInv, TypeOK
<1>3. Disjoint'
  BY <1>1 DEF IInv, Disjoint, Cover
<1>4. Owned'
  BY <1>1 DEF IInv, Owned, Cover
<1>5. Accounted'
  <2> SUFFICES ASSUME NEW e \in used', e < current_entry, e \notin skipped
               PROVE  e \in Covered'
    BY <1>1 DEF Accounted
  <2>1. PICK b \in blocks : e \in Cover(b)
    BY <1>1 DEF IInv, Accounted, Covered
  <2>2. b.pid # p
    BY <1>1, <2>1 DEF IInv, Owned
  <2> QED
    BY <1>1, <2>1, <2>2 DEF Covered, Cover
<1>6. SkippedApart'
  <2>1. Covered' \subseteq Covered
    BY <1>1 DEF Covered, Cover
  <2> QED
    BY <1>1, <2>1 DEF IInv, SkippedApart
<1> QED
  BY <1>2, <1>3, <1>4, <1>5, <1>6 DEF IInv

LEMMA WriteInv ==
    ASSUME IInv, NEW b \in blocks, ClientWrite(b)
    PROVE  IInv'
<1>1. PICK e \in Cover(b) : data' = data \cup {e}
  BY DEF ClientWrite
<1>2. UNCHANGED <<current_entry, used, dirty, AllocPID, ret, refused, blocks,
                  skipped>>
  BY DEF ClientWrite, info
<1>3. e \in Entries
  BY HeapAssumption DEF IInv, TypeOK, Owned, Cover, Entries
<1>4. TypeOK'
  BY <1>1, <1>2, <1>3 DEF IInv, TypeOK
<1>5. Disjoint' /\ Owned' /\ Accounted' /\ SkippedApart'
  BY <1>2 DEF IInv, Disjoint, Owned, Accounted, SkippedApart, Covered, Cover
<1> QED
  BY <1>4, <1>5 DEF IInv

-----------------------------------------------------------------------------
LEMMA InitInv == Init => IInv
<1> SUFFICES ASSUME Init PROVE IInv
  OBVIOUS
<1>1. TypeOK
  BY HeapAssumption DEF Init, TypeOK, Null
<1>2. Disjoint /\ Owned /\ SkippedApart
  BY DEF Init, Disjoint, Owned, SkippedApart
<1>3. Accounted
  BY HeapAssumption DEF Init, Accounted, Slots
<1> QED
  BY <1>1, <1>2, <1>3 DEF IInv

LEMMA StepInv == IInv /\ [Next]_vars => IInv'
<1> SUFFICES ASSUME IInv, [Next]_vars PROVE IInv'
  OBVIOUS
<1>1. CASE \E n \in Counts, p \in Pids : AllocEntries(n, p)
  BY <1>1, AllocInv DEF AllocEntries
<1>2. CASE \E n \in Counts : AllocFails(n)
  BY <1>2, FailInv
<1>3. CASE \E b \in blocks : FreeEntries(b)
  BY <1>3, FreeInv
<1>4. CASE \E p \in Pids : FreeAllProcessEntries(p)
  BY <1>4, FreeAllInv
<1>5. CASE \E b \in blocks : ClientWrite(b)
  BY <1>5, WriteInv
<1>6. CASE UNCHANGED vars
  BY <1>6 DEF vars, IInv, TypeOK, Disjoint, Owned, Accounted, SkippedApart,
              Covered, Cover
<1> QED
  BY <1>1, <1>2, <1>3, <1>4, <1>5, <1>6 DEF Next

\* The invariant holds throughout every execution of the heap: types, held
\* blocks apart and intact, nothing leaked (heap.cpp, all operations).
THEOREM Invariance == Spec => []IInv
BY InitInv, StepInv, PTL DEF Spec

\* current_entry stays within one of the end of the table, and no call ever
\* returns or records an entry outside the heap.
THEOREM TypeCorrect == Spec => []TypeOK
<1>1. IInv => TypeOK
  BY DEF IInv
<1> QED
  BY <1>1, Invariance, PTL

\* AllocEntries never hands out an entry that somebody still holds.
THEOREM BlocksDisjoint == Spec => []Disjoint
<1>1. IInv => Disjoint
  BY DEF IInv
<1> QED
  BY <1>1, Invariance, PTL

\* Held blocks keep their used and dirty bits and their owner.
THEOREM BlocksOwned == Spec => []Owned
<1>1. IInv => Owned
  BY DEF IInv
<1> QED
  BY <1>1, Invariance, PTL

\* Entries do not leak, except by the extra step of current_entry.
THEOREM EntriesAccounted == Spec => []Accounted
<1>1. IInv => Accounted
  BY DEF IInv
<1> QED
  BY <1>1, Invariance, PTL

-----------------------------------------------------------------------------
(* The refinement: the pool's lost entries are Lost.                       *)

LEMMA LostApart == Lost \subseteq Entries /\ Lost \cap Covered = {}
BY DEF Lost

\* What a run that fits takes was neither held nor lost.
LEMMA RunIsFree ==
    ASSUME IInv, NEW n \in Counts, NEW i \in Entries, Fits(i, n)
    PROVE  /\ i .. i + n \subseteq Entries
           /\ (i .. i + n) \cap (Covered \cup Lost) = {}
<1>1. i .. i + n \subseteq Entries
  BY HeapAssumption DEF Fits, Entries
<1>2. (i .. i + n) \cap Covered = {}
  BY FitsUncovered DEF Covered
<1>3. (i .. i + n) \cap Lost = {}
  BY DEF Fits, Vacant, Lost, IInv, TypeOK, Slots
<1> QED
  BY <1>1, <1>2, <1>3

\* A grant loses at most the entry behind the run it tested.
LEMMA GrantLoses ==
    ASSUME IInv, NEW n \in Counts, NEW p \in Pids, NEW i \in Entries,
           Fits(i, n), AllocAt(i, n, p)
    PROVE  \/ Lost' = Lost
           \/ Lost' = Lost \cup ({i + n + 1} \cap (Entries \ (Covered \cup Lost)))
<1> USE HeapAssumption
<1> DEFINE new == Cover(Block(i, n, p))
           next == i + n + 1
<1>1. /\ current_entry \in 0 .. MaxEntries + 1 /\ n \in Nat \ {0} /\ i \in Nat
      /\ used \subseteq 0 .. MaxEntries
  BY DEF IInv, TypeOK, Slots, Entries
<1>2. Covered' = Covered \cup new
  BY DEF AllocAt, Covered, Cover
<1>3. new \subseteq i .. i + n /\ (i .. i + n) \cap (Covered \cup Lost) = {}
  BY RunIsFree, <1>1, NewBlock
<1>4. used' = (used \ Fresh(i, n)) \cup new
  BY DEF AllocAt
<1>5. \A e \in Covered : e < current_entry
  BY DEF IInv, Owned, Covered
<1>6. CASE i + n < current_entry
  <2>1. current_entry' = current_entry /\ Fresh(i, n) = {}
    BY <1>1, <1>6 DEF AllocAt, Fresh
  <2>2. \A e : e \in Lost' <=> e \in Lost
    BY <1>2, <1>3, <1>4, <2>1 DEF Lost
  <2> QED
    BY <2>2 DEF Lost
<1>7. CASE ~(i + n < current_entry)
  <2>1. current_entry' = i + n + 2 /\ Fresh(i, n) = current_entry .. i + n
    BY <1>1, <1>7 DEF AllocAt, Fresh
  <2>2. next \notin Covered /\ next \notin Lost /\ next \notin new
    BY <1>1, <1>3, <1>5, <1>7 DEF Lost
  <2>3. \A e \in Entries : e \in Lost' <=>
           \/ e \in Lost
           \/ e = next /\ e \in used
    <3> SUFFICES ASSUME NEW e \in Entries
                 PROVE  e \in Lost' <=> e \in Lost \/ (e = next /\ e \in used)
      OBVIOUS
    <3>1. e \in Nat
      BY DEF Entries
    <3>2. e < current_entry' <=> e < current_entry \/ e \in Fresh(i, n) \/ e = next
      BY <1>1, <1>7, <2>1, <3>1
    <3>3. e < current_entry => e \notin Fresh(i, n)
      BY <1>1, <2>1, <3>1
    <3>4. next \notin Fresh(i, n)
      BY <1>1, <2>1
    <3>5. e \in Lost' <=> e \in used' /\ e < current_entry' /\ e \notin Covered'
      BY <3>1 DEF Lost
    <3>6. e \in Lost <=> e \in used /\ e < current_entry /\ e \notin Covered
      BY <3>1 DEF Lost
    <3>7. e \in used' /\ e \notin Covered'
             <=> e \in used /\ e \notin Fresh(i, n) /\ e \notin Covered /\ e \notin new
      BY <1>2, <1>4
    <3>8. e \in Lost => e \notin new
      BY <1>3
    <3> QED
      BY <2>2, <3>2, <3>3, <3>4, <3>5, <3>6, <3>7, <3>8
  <2>4. CASE next \in used /\ next \in Entries
    BY <2>2, <2>3, <2>4 DEF Lost
  <2>5. CASE ~(next \in used /\ next \in Entries)
    BY <2>3, <2>5 DEF Lost
  <2> QED
    BY <2>4, <2>5
<1> QED
  BY <1>6, <1>7

\* A successful AllocEntries is a Grant of the pool.
LEMMA AllocIsGrant ==
    ASSUME IInv, NEW n \in Counts, NEW p \in Pids, AllocEntries(n, p)
    PROVE  Pool!Grant(n, p)
<1>1. PICK i \in Entries : Fits(i, n) /\ AllocAt(i, n, p)
  BY DEF AllocEntries
<1>2. Cover(Block(i, n, p)) \subseteq Entries \ (Covered \cup Lost)
  BY <1>1, NewBlock, RunIsFree
<1>3. blocks' = blocks \cup {Block(i, n, p)} /\ ret' = i /\ refused' = 0
  BY <1>1 DEF AllocAt
<1>4. Lost' \in {Lost, Lost \cup ({i + n + 1} \cap (Entries \ (Covered \cup Lost)))}
  BY <1>1, GrantLoses
<1> QED
  BY <1>2, <1>3, <1>4 DEF Pool!Grant, Pool!Block, Block, Pool!Cover, Cover,
     Pool!Covered, Covered, Pool!Entries, Entries, Pool!Free

\* A null result is a Refuse of the pool: a run of n + 1 entries neither held
\* nor lost would have fitted.
LEMMA FailIsRefuse ==
    ASSUME IInv, NEW n \in Counts, AllocFails(n)
    PROVE  Pool!Refuse(n)
<1>1. ASSUME NEW i \in Entries, i .. i + n \subseteq Entries \ (Covered \cup Lost)
      PROVE  FALSE
  <2>1. i + n < MaxEntries /\ ~Fits(i, n)
    BY <1>1, HeapAssumption DEF AllocFails, Entries
  <2>2. PICK e \in i .. i + n : e \in used /\ e < current_entry
    BY <2>1, HeapAssumption DEF Fits, Vacant, Entries, IInv, TypeOK
  <2> QED
    BY <1>1, <2>2 DEF Lost
<1>2. ret' = Null /\ refused' = n /\ blocks' = blocks /\ Lost' = Lost
  BY DEF AllocFails, info, Lost, Covered, Cover
<1> QED
  BY <1>1, <1>2 DEF Pool!Refuse, Pool!Covered, Covered, Pool!Cover, Cover,
     Pool!Entries, Entries, Pool!Null, Null, Pool!Free

\* Releasing a block frees its entries and loses none.
LEMMA FreeIsRelease ==
    ASSUME IInv, NEW b \in blocks, FreeEntries(b) PROVE Pool!Release(b)
<1>1. \A e \in Cover(b) : e < current_entry
  BY DEF IInv, Owned
<1>2. used' = used \ Cover(b) /\ blocks' = blocks \ {b}
  BY <1>1 DEF FreeEntries
<1>3. current_entry' = current_entry
  BY DEF FreeEntries
<1>4. \A c \in blocks' : Cover(c) \cap Cover(b) = {}
  BY <1>2 DEF IInv, Disjoint
<1>5. Covered' = Covered \ Cover(b)
  BY <1>2, <1>4 DEF Covered, Cover
<1>6. Lost' = Lost
  <2>1. \A e : e \in Lost' <=> e \in Lost
    BY <1>2, <1>3, <1>5 DEF Lost, Covered
  <2> QED
    BY <2>1 DEF Lost
<1> QED
  BY <1>6 DEF FreeEntries, Pool!Release

\* Releasing all that is charged to a process frees its blocks and loses none.
LEMMA FreeAllIsReleaseAll ==
    ASSUME IInv, NEW p \in Pids, FreeAllProcessEntries(p)
    PROVE  Pool!ReleaseAll(p)
<1>1. /\ blocks' = {b \in blocks : b.pid # p}
      /\ used' = {e \in used : ~(e < current_entry /\ AllocPID[e] = p)}
      /\ current_entry' = current_entry
  BY DEF FreeAllProcessEntries
<1>2. ASSUME NEW e \in Lost' PROVE e \in Lost
  <2>1. /\ e \in used /\ e \in Entries /\ e < current_entry /\ AllocPID[e] # p
        /\ e \notin Covered'
    BY <1>1, <1>2 DEF Lost
  <2>2. ASSUME NEW b \in blocks, e \in Cover(b) PROVE FALSE
    <3>1. b.pid # p
      BY <2>1, <2>2 DEF IInv, Owned
    <3> QED
      BY <1>1, <2>1, <2>2, <3>1 DEF Covered, Cover
  <2> QED
    BY <2>1, <2>2 DEF Lost, Covered
<1> QED
  BY <1>1, <1>2 DEF FreeAllProcessEntries, Pool!ReleaseAll

LEMMA StepIsPoolStep == IInv /\ [Next]_vars => [Pool!PoolNext]_(Pool!poolVars)
<1> SUFFICES ASSUME IInv, [Next]_vars
             PROVE  Pool!PoolNext \/ UNCHANGED <<blocks, Lost, ret, refused>>
  BY DEF Pool!poolVars
<1>1. CASE \E n \in Counts, p \in Pids : AllocEntries(n, p)
  BY <1>1, AllocIsGrant DEF Pool!PoolNext
<1>2. CASE \E n \in Counts : AllocFails(n)
  BY <1>2, FailIsRefuse DEF Pool!PoolNext
<1>3. CASE \E b \in blocks : FreeEntries(b)
  BY <1>3, FreeIsRelease DEF Pool!PoolNext
<1>4. CASE \E p \in Pids : FreeAllProcessEntries(p)
  BY <1>4, FreeAllIsReleaseAll DEF Pool!PoolNext
<1>5. CASE \E b \in blocks : ClientWrite(b)
  BY <1>5 DEF ClientWrite, info, Lost, Covered, Cover
<1>6. CASE UNCHANGED vars
  BY <1>6 DEF vars, Lost, Covered, Cover
<1> QED
  BY <1>1, <1>2, <1>3, <1>4, <1>5, <1>6 DEF Next

LEMMA PoolStarts == Init => Pool!PoolInit
BY HeapAssumption DEF Init, Pool!PoolInit, Null, Pool!Null, Lost, Entries

\* Whatever the table held before, the heap implements PagePool: it refuses n
\* entries only if no run of n + 1 is free, and loses only what it steps over.
THEOREM HeapImplementsPool == Spec => ImplementsPool
BY PoolStarts, InitInv, StepInv, StepIsPoolStep, PTL
   DEF Spec, ImplementsPool, Pool!PoolSpec

-----------------------------------------------------------------------------
(* Page contents *)

LEMMA RememberedInit == RawData = {} /\ Init => Remembered
BY DEF Init, Remembered

LEMMA RememberedStep == IInv /\ Remembered /\ [Next]_vars => Remembered'
<1> SUFFICES ASSUME IInv, Remembered, [Next]_vars PROVE Remembered'
  OBVIOUS
<1>1. ASSUME NEW n \in Counts, NEW p \in Pids, AllocEntries(n, p)
      PROVE  Remembered'
  <2>1. PICK i \in Entries : Fits(i, n) /\ AllocAt(i, n, p)
    BY <1>1 DEF AllocEntries
  <2>2. current_entry \in Nat /\ i \in Nat /\ n \in Nat
    BY HeapAssumption DEF IInv, TypeOK, Entries
  <2>3. current_entry' \in Nat /\ current_entry' >= current_entry
    BY <2>1, <2>2 DEF AllocAt
  <2>4. \A e \in data' : e \in data /\ e \in Entries
    BY <2>1 DEF AllocAt, IInv, TypeOK
  <2>5. \A e \in data' : e \in Nat /\ e < current_entry
    BY <2>4, HeapAssumption DEF Remembered, Entries
  <2>6. \A e \in data' : e \notin Fresh(i, n)
    BY <2>2, <2>5 DEF Fresh
  <2>7. \A e \in data' : e \in dirty'
    BY <2>1, <2>4, <2>6 DEF AllocAt, Remembered
  <2> QED
    BY <2>2, <2>3, <2>5, <2>7 DEF Remembered
<1>2. ASSUME NEW n \in Counts, AllocFails(n) PROVE Remembered'
  BY <1>2 DEF AllocFails, info, Remembered
<1>3. ASSUME NEW b \in blocks, FreeEntries(b) PROVE Remembered'
  BY <1>3 DEF FreeEntries, Remembered
<1>4. ASSUME NEW p \in Pids, FreeAllProcessEntries(p) PROVE Remembered'
  BY <1>4 DEF FreeAllProcessEntries, Remembered
<1>5. ASSUME NEW b \in blocks, ClientWrite(b) PROVE Remembered'
  BY <1>5 DEF ClientWrite, info, Remembered, IInv, Owned
<1>6. CASE UNCHANGED vars
  BY <1>6 DEF vars, Remembered
<1> QED
  BY <1>1, <1>2, <1>3, <1>4, <1>5, <1>6 DEF Next

LEMMA GrantIsZero ==
    ASSUME IInv, Remembered, [Next]_vars
    PROVE  \A b \in blocks' \ blocks : Cover(b) \cap data' = {}
<1> SUFFICES ASSUME NEW b \in blocks', b \notin blocks
             PROVE  Cover(b) \cap data' = {}
  OBVIOUS
<1>1. PICK n \in Counts, p \in Pids : AllocEntries(n, p)
  BY DEF Next, vars, AllocFails, FreeEntries, FreeAllProcessEntries, ClientWrite
<1>2. PICK i \in Entries : Fits(i, n) /\ AllocAt(i, n, p)
  BY <1>1 DEF AllocEntries
<1>3. /\ b = Block(i, n, p)
      /\ data' = data \ Cleared(0 .. i + n)
  BY <1>2 DEF AllocAt
<1>4. Cover(b) \subseteq i .. i + n
  BY <1>2, <1>3, NewBlock
<1>5. \A e \in i .. i + n : Vacant(e) /\ e \in 0 .. i + n
  BY <1>2 DEF Fits, Entries
<1>6. \A e \in Cover(b) \cap data : e \in Cleared(0 .. i + n)
  BY <1>4, <1>5, HeapAssumption
     DEF Cleared, Remembered, Vacant, IInv, TypeOK, Entries
<1> QED
  BY <1>3, <1>6

\* AllocEntries hands out zeroed pages when the heap's memory was zeroed to
\* begin with, however often its pages were used and released in between.
THEOREM GrantsAreZero == RawData = {} /\ Spec => ZeroOnAlloc
BY InitInv, StepInv, RememberedInit, RememberedStep, GrantIsZero, PTL
   DEF Spec, ZeroOnAlloc

LEMMA HeldDataKept ==
    ASSUME IInv, [Next]_vars
    PROVE  \A b \in blocks \cap blocks' : Cover(b) \cap data \subseteq data'
<1> SUFFICES ASSUME NEW b \in blocks
             PROVE  Cover(b) \cap data \subseteq data'
  OBVIOUS
<1>1. \A visited : Cover(b) \cap Cleared(visited) = {}
  BY DEF Cleared, IInv, Owned
<1>2. CASE \E n \in Counts, p \in Pids : AllocEntries(n, p)
  <2>1. PICK i \in Entries, n \in Counts : data' = data \ Cleared(0 .. i + n)
    BY <1>2 DEF AllocEntries, AllocAt
  <2> QED
    BY <1>1, <2>1
<1>3. CASE \E n \in Counts : AllocFails(n)
  BY <1>1, <1>3 DEF AllocFails
<1>4. CASE \/ \E c \in blocks : FreeEntries(c)
           \/ \E p \in Pids : FreeAllProcessEntries(p)
           \/ \E c \in blocks : ClientWrite(c)
           \/ UNCHANGED vars
  BY <1>4 DEF FreeEntries, FreeAllProcessEntries, ClientWrite, vars
<1> QED
  BY <1>2, <1>3, <1>4 DEF Next

\* No call disturbs the contents of a block somebody else holds.
THEOREM HeldDataIsStable == Spec => HeldDataStable
BY InitInv, StepInv, HeldDataKept, PTL DEF Spec, HeldDataStable

-----------------------------------------------------------------------------
(* The memory of processes. *)

Steps == {"alloc", "init", "run", "free"}

UMTyped ==
    /\ \E k \in 0 .. Processes : Objects = 0 .. k - 1
    /\ object \in [Objects -> Entries]
    /\ \A p \in Objects : Tail(p) < MaxEntries
    /\ step \in Steps
    /\ step = "init" => Objects # {}
    /\ step = "free" => dying \in Running
    /\ DOMAIN mapped = 0 .. Processes - 1
    /\ \A p \in DOMAIN mapped :
          \A f \in mapped[p] : f \in Nat /\ f < LowFrames + MaxEntries

\* Objects in use are blocks of their own.
ObjectsApart ==
    /\ \A p \in Live : ObjBlock(p) \in blocks
    /\ \A p, q \in Live : p # q => object[p] # object[q]

\* As MappedIsHeld, for the processes still to come as well.
MapsKnown ==
    \A p \in (0 .. Processes - 1) \ ({Idle} \cup unmet) :
       mapped[p] = {FrameOf(e) : e \in Charged(p)}

Inv == IInv /\ UMTyped /\ ObjectsApart /\ MapsKnown

-----------------------------------------------------------------------------

LEMMA ConstantsTyped ==
    /\ Processes \in Nat /\ Processes > 0
    /\ ObjEntries \in Nat /\ ObjEntries > 1
    /\ LowFrames \in Nat
    /\ MaxEntries \in Nat /\ MaxEntries > 0
    /\ ObjEntries \in Counts /\ Counts \subseteq Nat \ {0}
    /\ 0 .. Processes - 1 \subseteq Pids
    /\ 0 \in Pids
<1>1. Processes \in Nat /\ Processes > 0
  BY UserMemoryAssumption
<1>2. 0 \in 0 .. Processes - 1
  BY <1>1
<1>. QED BY <1>1, <1>2, UserMemoryAssumption, HeapAssumption

\* The next object gets the number Cardinality(Objects).
LEMMA ObjectsCounted ==
    ASSUME NEW k \in 0 .. Processes, Objects = 0 .. k - 1
    PROVE  Cardinality(Objects) = k
<1>1. k \in Nat /\ 0 \in Int /\ k - 1 \in Int
  BY ConstantsTyped
<1>2. Cardinality(0 .. k - 1) = IF 0 > k - 1 THEN 0 ELSE k - 1 - 0 + 1
  BY <1>1, FS_Interval
<1>. QED BY <1>1, <1>2

\* Storing into pages of the heap leaves its bookkeeping alone.
Touches ==
    /\ data' \subseteq Entries
    /\ UNCHANGED <<current_entry, info, ret, refused, blocks, skipped>>

LEMMA TouchInv == IInv /\ Touches => IInv'
<1> SUFFICES ASSUME IInv, Touches
             PROVE  IInv'
  OBVIOUS
<1>1. UNCHANGED <<current_entry, used, dirty, AllocPID, ret, refused, blocks,
                  skipped>>
  BY DEF Touches, info
<1>2. TypeOK'
  BY <1>1 DEF Touches, IInv, TypeOK
<1>3. Disjoint' /\ Owned' /\ Accounted' /\ SkippedApart'
  BY <1>1 DEF IInv, Disjoint, Owned, Accounted, SkippedApart, Covered, Cover
<1>. QED BY <1>2, <1>3 DEF IInv

\* A running process is one of 1 .. Processes - 1, and a PID.
LEMMA RunningPids ==
    ASSUME UMTyped, NEW p \in Running
    PROVE  p \in 0 .. Processes - 1 /\ p # 0 /\ p \in Pids
<1>1. PICK k \in 0 .. Processes : Objects = 0 .. k - 1
  BY DEF UMTyped
<1>2. p \in 0 .. Processes - 1
  BY <1>1, ConstantsTyped DEF Running, Live
<1>. QED BY <1>2, ConstantsTyped DEF Running, Idle

\* A running process's mapped frames below LowFrames are not UserHeap's.
LEMMA StoreTouches ==
    ASSUME Inv, NEW p \in Running, Store(p)
    PROVE  Touches
<1>1. p \in DOMAIN mapped
  BY RunningPids DEF Inv, UMTyped
<1>2. PICK f \in mapped[p] :
         data' = IF f < LowFrames THEN data ELSE data \cup {f - LowFrames}
  BY DEF Store
<1>3. f \in Nat /\ f < LowFrames + MaxEntries
  BY <1>1 DEF Inv, UMTyped
<1>4. f - LowFrames \in Entries \/ f < LowFrames
  BY <1>3, ConstantsTyped DEF Entries
<1>5. data \subseteq Entries
  BY DEF Inv, IInv, TypeOK
<1>. QED BY <1>2, <1>4, <1>5 DEF Touches, Store

\* Filling in the object touches two pages of the heap, the tail included.
LEMMA InitTouches ==
    ASSUME Inv, InitProcess
    PROVE  Touches
<1>1. PICK k \in 0 .. Processes : Objects = 0 .. k - 1
  BY DEF Inv, UMTyped
<1>2. Cardinality(Objects) = k
  BY <1>1, ObjectsCounted
<1>3. k - 1 \in Objects
  BY <1>1, ConstantsTyped DEF Inv, UMTyped, InitProcess
<1>4. object[k - 1] \in Entries
  BY <1>3 DEF Inv, UMTyped
<1>5. Tail(k - 1) \in Entries
  BY <1>3, <1>4, ConstantsTyped DEF Inv, UMTyped, Tail, Entries
<1>6. data \subseteq Entries
  BY DEF Inv, IInv, TypeOK
<1>7. data' = data \/ data' = data \cup {object[k - 1], Tail(k - 1)}
  BY <1>2 DEF InitProcess
<1>. QED BY <1>4, <1>5, <1>6, <1>7 DEF Touches, InitProcess

\* Every step is one of UserHeap's or only touches pages.
LEMMA StepKinds == Inv /\ [UMNext]_umvars => [Next]_vars \/ Touches
<1> SUFFICES ASSUME Inv, [UMNext]_umvars
             PROVE  [Next]_vars \/ Touches
  OBVIOUS
<1>. UMTyped
  BY DEF Inv
<1>1. CASE GetFreeProcEntry
  BY <1>1, ConstantsTyped DEF GetFreeProcEntry, Next
<1>2. CASE InitProcess
  BY <1>2, InitTouches
<1>3. CASE Booted \/ UNCHANGED umvars \/ \E n \in Counts : ScanHalts(n)
  BY <1>3 DEF Booted, umvars, ScanHalts
<1>4. CASE \E p \in Running, n \in Counts : Palloc(p, n)
  BY <1>4, RunningPids DEF Palloc, Next
<1>5. CASE \E p \in Running, n \in Counts : PallocUnmet(p, n)
  BY <1>5 DEF PallocUnmet, Next
<1>6. CASE \E p \in Running : ExitReleases(p)
  BY <1>6, RunningPids DEF ExitReleases, Next
<1>7. CASE ExitFrees
  <2>1. ObjBlock(dying) \in blocks
    BY <1>7 DEF Inv, ObjectsApart, UMTyped, ExitFrees, Running
  <2>. QED BY <1>7, <2>1 DEF ExitFrees, Next
<1>8. CASE \E p \in Running : Store(p)
  BY <1>8, StoreTouches
<1>9. CASE ScanHalts(ObjEntries)
  BY <1>9 DEF ScanHalts
<1>. QED BY <1>1, <1>2, <1>3, <1>4, <1>5, <1>6, <1>7, <1>8, <1>9
         DEF UMNext, Boot, UserCall

LEMMA HeapInvStep == Inv /\ [UMNext]_umvars => IInv'
BY StepKinds, StepInv, TouchInv DEF Inv

-----------------------------------------------------------------------------
(* Types *)

LEMMA TypedStep == Inv /\ [UMNext]_umvars => UMTyped'
<1> SUFFICES ASSUME Inv, [UMNext]_umvars
             PROVE  UMTyped'
  OBVIOUS
<1>. UMTyped
  BY DEF Inv
<1>1. CASE GetFreeProcEntry
  <2>1. PICK k \in 0 .. Processes : Objects = 0 .. k - 1
    BY DEF UMTyped
  <2>2. Cardinality(Objects) = k /\ k < Processes
    BY <1>1, <2>1, ObjectsCounted DEF GetFreeProcEntry
  <2>3. PICK i \in Entries : Fits(i, ObjEntries) /\ AllocAt(i, ObjEntries, 0)
    BY <1>1 DEF GetFreeProcEntry, AllocEntries
  <2>4. ret' = i /\ i + ObjEntries < MaxEntries
    BY <2>3 DEF AllocAt, Fits
  <2>5. object' = [p \in Objects \cup {k} |->
                     IF p \in Objects THEN object[p] ELSE i]
    BY <1>1, <2>2, <2>4 DEF GetFreeProcEntry
  <2>6. Objects' = 0 .. (k + 1) - 1 /\ k + 1 \in 0 .. Processes
    BY <2>1, <2>2, <2>5, ConstantsTyped DEF Objects
  <2>7. object' \in [Objects' -> Entries]
    BY <2>1, <2>5 DEF UMTyped, Objects
  <2>8. \A p \in Objects' : Tail(p)' < MaxEntries
    BY <2>1, <2>4, <2>5 DEF UMTyped, Objects, Tail
  <2>9. step' = "init" /\ mapped' = mapped /\ Objects' # {}
    BY <1>1, <2>5 DEF GetFreeProcEntry, Objects
  <2>. QED BY <2>6, <2>7, <2>8, <2>9 DEF UMTyped, Objects, Steps
<1>2. CASE InitProcess \/ Booted \/ UNCHANGED umvars
            \/ \E n \in Counts : ScanHalts(n)
  <2>1. object' = object /\ mapped' = mapped /\ exited' = exited /\ dying' = dying
    BY <1>2 DEF InitProcess, Booted, umvars, ScanHalts
  <2>2. step' = step \/ step' \in {"alloc", "run"}
    BY <1>2 DEF InitProcess, Booted, umvars, ScanHalts
  <2>. QED BY <2>1, <2>2 DEF UMTyped, Objects, Tail, Steps, Running, Live
<1>3. ASSUME NEW p \in Running, NEW n \in Counts, Palloc(p, n), step = "run"
      PROVE  UMTyped'
  <2>1. PICK i \in Entries : Fits(i, n) /\ AllocAt(i, n, p)
    BY <1>3 DEF Palloc, AllocEntries
  <2>2. mapped' = [mapped EXCEPT ![p] = @ \cup Frames(i, n)]
    BY <1>3, <2>1 DEF Palloc, AllocAt
  <2>3. \A f \in Frames(i, n) : f \in Nat /\ f < LowFrames + MaxEntries
    BY <2>1, ConstantsTyped DEF Frames, FrameOf, Fits, Entries
  <2>4. UNCHANGED <<object, step, dying, exited>>
    BY <1>3 DEF Palloc
  <2>5. p \in DOMAIN mapped
    BY RunningPids DEF UMTyped
  <2>. QED BY <1>3, <2>2, <2>3, <2>4, <2>5 DEF UMTyped, Objects, Tail, Steps
<1>4. ASSUME NEW p \in Running, NEW n \in Counts, PallocUnmet(p, n), step = "run"
      PROVE  UMTyped'
  <2>1. mapped' = [mapped EXCEPT ![p] = @ \cup 0 .. n - 1]
    BY <1>4 DEF PallocUnmet
  <2>2. \A f \in 0 .. n - 1 : f \in Nat /\ f < LowFrames + MaxEntries
    BY <1>4, ConstantsTyped DEF PallocUnmet
  <2>3. UNCHANGED <<object, step, dying, exited>>
    BY <1>4 DEF PallocUnmet
  <2>4. p \in DOMAIN mapped
    BY RunningPids DEF UMTyped
  <2>. QED BY <1>4, <2>1, <2>2, <2>3, <2>4 DEF UMTyped, Objects, Tail, Steps
<1>5. ASSUME NEW p \in Running, ExitReleases(p)
      PROVE  UMTyped'
  BY <1>5 DEF UMTyped, Objects, ExitReleases, Tail, Steps, Running, Live
<1>6. CASE ExitFrees
  BY <1>6 DEF UMTyped, Objects, ExitFrees, Tail, Steps
<1>7. ASSUME NEW p \in Running, Store(p)
      PROVE  UMTyped'
  BY <1>7 DEF UMTyped, Objects, Store, Tail, Running, Live
<1>. QED BY <1>1, <1>2, <1>3, <1>4, <1>5, <1>6, <1>7, ConstantsTyped
         DEF UMNext, Boot, UserCall

-----------------------------------------------------------------------------
(* Objects, blocks and mappings *)

\* Handing out a run adds one block; nobody held any of its entries.
LEMMA GrantAdds ==
    ASSUME IInv, NEW n \in Counts, NEW p \in Pids, AllocEntries(n, p)
    PROVE  \E i \in Entries :
              /\ Fits(i, n) /\ AllocAt(i, n, p) /\ ret' = i
              /\ \A j \in 0 .. i - 1 : ~Fits(j, n)
              /\ blocks' = blocks \cup {Block(i, n, p)}
              /\ \A b \in blocks : b.start # i
<1>1. PICK i \in Entries : /\ Fits(i, n) /\ AllocAt(i, n, p)
                           /\ \A j \in 0 .. i - 1 : ~Fits(j, n)
  BY DEF AllocEntries
<1>2. ASSUME NEW b \in blocks, b.start = i
      PROVE  FALSE
  <2>1. (i .. i + n) \cap Cover(b) = {}
    BY <1>1, FitsUncovered
  <2>2. b.len \in Nat \ {0} /\ i \in Int /\ n \in Nat
    BY ConstantsTyped DEF IInv, TypeOK, Entries
  <2>3. i \in Cover(b) /\ i \in i .. i + n
    BY <1>2, <2>2 DEF Cover
  <2>. QED BY <2>1, <2>3
<1>. QED BY <1>1, <1>2 DEF AllocAt

LEMMA ObjectsApartStep == Inv /\ [UMNext]_umvars => ObjectsApart'
<1> SUFFICES ASSUME Inv, [UMNext]_umvars
             PROVE  ObjectsApart'
  OBVIOUS
<1>. UMTyped /\ ObjectsApart /\ IInv
  BY DEF Inv
<1>1. CASE GetFreeProcEntry
  <2>1. PICK k \in 0 .. Processes : Objects = 0 .. k - 1
    BY DEF UMTyped
  <2>2. Cardinality(Objects) = k
    BY <2>1, ObjectsCounted
  <2>3. PICK i \in Entries : /\ ret' = i
                             /\ blocks' = blocks \cup {Block(i, ObjEntries, 0)}
                             /\ \A b \in blocks : b.start # i
    BY <1>1, GrantAdds, ConstantsTyped DEF GetFreeProcEntry
  <2>4. object' = [p \in Objects \cup {k} |->
                     IF p \in Objects THEN object[p] ELSE i]
    BY <1>1, <2>2, <2>3 DEF GetFreeProcEntry
  <2>5. \A p \in Live' : \/ p \in Live /\ object'[p] = object[p]
                         \/ p = k /\ p \notin Objects /\ object'[p] = i
    BY <1>1, <2>1, <2>4 DEF GetFreeProcEntry, Live, Objects
  <2>6. \A p \in Live : object[p] # i
    BY <2>3 DEF ObjectsApart, ObjBlock, Block
  <2>7. \A p \in Live' : ObjBlock(p)' \in blocks'
    BY <2>3, <2>5 DEF ObjectsApart, ObjBlock
  <2>8. \A p, q \in Live' : p # q => object'[p] # object'[q]
    BY <2>5, <2>6 DEF ObjectsApart
  <2>. QED BY <2>7, <2>8 DEF ObjectsApart
<1>2. ASSUME UNCHANGED <<object, exited>>, blocks \subseteq blocks'
      PROVE  ObjectsApart'
  BY <1>2 DEF ObjectsApart, ObjBlock, Live, Objects
<1>3. CASE InitProcess \/ Booted \/ UNCHANGED umvars
            \/ \E n \in Counts : ScanHalts(n)
  BY <1>2, <1>3 DEF InitProcess, Booted, umvars, ScanHalts, vars
<1>4. ASSUME NEW p \in Running, NEW n \in Counts, Palloc(p, n)
      PROVE  ObjectsApart'
  BY <1>2, <1>4 DEF Palloc, AllocEntries, AllocAt
<1>5. ASSUME NEW p \in Running, NEW n \in Counts, PallocUnmet(p, n)
      PROVE  ObjectsApart'
  BY <1>2, <1>5 DEF PallocUnmet, AllocFails
<1>6. ASSUME NEW p \in Running, ExitReleases(p)
      PROVE  ObjectsApart'
  <2>1. blocks' = {b \in blocks : b.pid # p} /\ p # 0
    BY <1>6, RunningPids DEF ExitReleases, FreeAllProcessEntries
  <2>2. \A q \in Live : ObjBlock(q) \in blocks'
    BY <2>1 DEF ObjectsApart, ObjBlock, Block
  <2>. QED BY <1>6, <2>2
           DEF ExitReleases, ObjectsApart, ObjBlock, Live, Objects
<1>7. CASE ExitFrees
  <2>1. /\ blocks' = blocks \ {ObjBlock(dying)}
        /\ exited' = exited \cup {dying} /\ object' = object
        /\ dying \in Live
    BY <1>7 DEF ExitFrees, FreeEntries, UMTyped, Running
  <2>2. \A q \in Live' : q \in Live /\ q # dying
    BY <2>1 DEF Live, Objects
  <2>3. \A q \in Live' : ObjBlock(q) # ObjBlock(dying)
    BY <2>1, <2>2 DEF ObjectsApart, ObjBlock, Block
  <2>. QED BY <2>1, <2>2, <2>3 DEF ObjectsApart, ObjBlock
<1>8. ASSUME NEW p \in Running, Store(p)
      PROVE  ObjectsApart'
  BY <1>2, <1>8 DEF Store
<1>. QED BY <1>1, <1>3, <1>4, <1>5, <1>6, <1>7, <1>8, ConstantsTyped
         DEF UMNext, Boot, UserCall

\* A new block is charged to its process and to nobody else.
LEMMA ChargedGrows ==
    ASSUME NEW b, b.pid \in Pids, blocks' = blocks \cup {b}, NEW p
    PROVE  Charged(p)' = IF p = b.pid THEN Charged(p) \cup Cover(b)
                                      ELSE Charged(p)
BY DEF Charged, Cover

LEMMA MapsKnownStep == Inv /\ [UMNext]_umvars => MapsKnown'
<1> SUFFICES ASSUME Inv, [UMNext]_umvars
             PROVE  MapsKnown'
  OBVIOUS
<1>. UMTyped /\ MapsKnown /\ IInv /\ ObjectsApart
  BY DEF Inv
<1>1. ASSUME UNCHANGED mapped, unmet \subseteq unmet',
             \A p \in (0 .. Processes - 1) \ {0} : Charged(p)' = Charged(p)
      PROVE  MapsKnown'
  BY <1>1 DEF MapsKnown, Idle, FrameOf
<1>2. CASE GetFreeProcEntry
  <2>1. PICK i \in Entries : blocks' = blocks \cup {Block(i, ObjEntries, 0)}
    BY <1>2, GrantAdds, ConstantsTyped DEF GetFreeProcEntry
  <2>2. Block(i, ObjEntries, 0).pid = 0 /\ 0 \in Pids
    BY ConstantsTyped DEF Block
  <2>3. \A p \in (0 .. Processes - 1) \ {0} : Charged(p)' = Charged(p)
    BY <2>1, <2>2, ChargedGrows
  <2>. QED BY <1>1, <1>2, <2>3 DEF GetFreeProcEntry
<1>3. ASSUME UNCHANGED <<mapped, blocks>>, unmet \subseteq unmet'
      PROVE  MapsKnown'
  BY <1>1, <1>3 DEF Charged, Cover
<1>4. CASE InitProcess \/ Booted \/ UNCHANGED umvars
            \/ \E n \in Counts : ScanHalts(n)
  BY <1>3, <1>4 DEF InitProcess, Booted, umvars, ScanHalts, vars
<1>5. ASSUME NEW p \in Running, NEW n \in Counts, Palloc(p, n)
      PROVE  MapsKnown'
  <2>1. p \in DOMAIN mapped /\ p \in Pids /\ p # 0
    BY RunningPids DEF UMTyped
  <2>2. PICK i \in Entries : /\ blocks' = blocks \cup {Block(i, n, p)}
                             /\ ret' = i
    BY <1>5, <2>1, GrantAdds DEF Palloc
  <2>3. Block(i, n, p).pid = p /\ Cover(Block(i, n, p)) = i .. i + n - 1
    BY DEF Block, Cover
  <2>4. \A q : Charged(q)' = IF q = p THEN Charged(q) \cup i .. i + n - 1
                                      ELSE Charged(q)
    BY <2>1, <2>2, <2>3, ChargedGrows
  <2>5. mapped' = [mapped EXCEPT ![p] = @ \cup Frames(i, n)]
    BY <1>5, <2>2 DEF Palloc
  <2>6. unmet' = unmet
    BY <1>5 DEF Palloc
  <2>7. SUFFICES ASSUME NEW q \in (0 .. Processes - 1) \ ({Idle} \cup unmet)
                 PROVE  mapped'[q] = {FrameOf(e) : e \in Charged(q)'}
    BY <2>6 DEF MapsKnown, FrameOf
  <2>8. mapped[q] = {FrameOf(e) : e \in Charged(q)}
    BY <2>7 DEF MapsKnown
  <2>9. CASE q # p
    BY <2>4, <2>5, <2>8, <2>9
  <2>10. CASE q = p
    <3>1. mapped'[q] = mapped[q] \cup Frames(i, n)
      BY <2>1, <2>5, <2>10
    <3>2. Charged(q)' = Charged(q) \cup i .. i + n - 1
      BY <2>4, <2>10
    <3>. QED BY <2>8, <3>1, <3>2 DEF Frames
  <2>. QED BY <2>9, <2>10
<1>6. ASSUME NEW p \in Running, NEW n \in Counts, PallocUnmet(p, n)
      PROVE  MapsKnown'
  <2>1. /\ unmet' = unmet \cup {p}
        /\ \A q \in DOMAIN mapped \ {p} : mapped'[q] = mapped[q]
        /\ blocks' = blocks
    BY <1>6 DEF PallocUnmet, AllocFails
  <2>2. \A q : Charged(q)' = Charged(q)
    BY <2>1 DEF Charged, Cover
  <2>. QED BY <2>1, <2>2 DEF MapsKnown, UMTyped, FrameOf
<1>7. ASSUME NEW p \in Running, ExitReleases(p)
      PROVE  MapsKnown'
  <2>1. /\ blocks' = {b \in blocks : b.pid # p} /\ unmet' = unmet
        /\ mapped' = [mapped EXCEPT ![p] = {}] /\ p \in DOMAIN mapped
    BY <1>7, RunningPids DEF ExitReleases, FreeAllProcessEntries, UMTyped
  <2>2. \A q : Charged(q)' = IF q = p THEN {} ELSE Charged(q)
    BY <2>1 DEF Charged, Cover
  <2>. QED BY <2>1, <2>2 DEF MapsKnown, UMTyped, FrameOf
<1>8. CASE ExitFrees
  <2>1. blocks' = blocks \ {ObjBlock(dying)} /\ ObjBlock(dying).pid = 0
    BY <1>8 DEF ExitFrees, FreeEntries, ObjBlock, Block
  <2>2. \A q \in (0 .. Processes - 1) \ {0} : Charged(q)' = Charged(q)
    BY <2>1 DEF Charged, Cover
  <2>. QED BY <1>1, <1>8, <2>2 DEF ExitFrees
<1>9. ASSUME NEW p \in Running, Store(p)
      PROVE  MapsKnown'
  BY <1>3, <1>9 DEF Store
<1>. QED BY <1>2, <1>4, <1>5, <1>6, <1>7, <1>8, <1>9, ConstantsTyped
         DEF UMNext, Boot, UserCall

LEMMA UMInitInv == UMInit => Inv
<1> SUFFICES ASSUME UMInit
             PROVE  Inv
  OBVIOUS
<1>1. object = <<>> /\ Objects = {} /\ exited = {} /\ step = "alloc"
  BY DEF UMInit, Objects
<1>2. mapped = [p \in 0 .. Processes - 1 |-> {}] /\ blocks = {}
  BY DEF UMInit, Init
<1>3. UMTyped
  <2>1. 0 \in 0 .. Processes /\ Objects = 0 .. 0 - 1
    BY <1>1, ConstantsTyped
  <2>2. object \in [Objects -> Entries] /\ \A p \in Objects : Tail(p) < MaxEntries
    BY <1>1 DEF Objects
  <2>. QED BY <1>1, <1>2, <2>1, <2>2 DEF UMTyped, Steps
<1>4. ObjectsApart
  BY <1>1 DEF ObjectsApart, Live
<1>5. MapsKnown
  BY <1>2 DEF MapsKnown, Charged
<1>. QED BY <1>3, <1>4, <1>5, InitInv DEF Inv, UMInit

LEMMA UMStepInv == Inv /\ [UMNext]_umvars => Inv'
BY HeapInvStep, TypedStep, ObjectsApartStep, MapsKnownStep DEF Inv

\* UserHeap's own invariant holds among its real callers: the kernel, which
\* takes and frees the process objects, and the processes' palloc and exit
\* calls (process.cpp, syscalls.cpp).
THEOREM UserHeapSound == UMSpec => []IInv
<1>1. Inv => IInv
  BY DEF Inv
<1>. QED BY <1>1, UMInitInv, UMStepInv, PTL DEF UMSpec

\* What palloc has mapped for a process is what the heap holds for it, and
\* the object of every live process is a block of the heap; nothing another
\* process does changes that (syscalls.cpp, cases 1 and 2; process.cpp,
\* Destroy).
THEOREM MapsAreHeld == UMSpec => []MappedIsHeld
<1>1. Inv => MappedIsHeld
  <2> SUFFICES ASSUME Inv
               PROVE  MappedIsHeld
    OBVIOUS
  <2>1. PICK k \in 0 .. Processes : Objects = 0 .. k - 1
    BY DEF Inv, UMTyped
  <2>2. Objects \subseteq 0 .. Processes - 1
    BY <2>1, ConstantsTyped
  <2>. QED BY <2>2 DEF Inv, MappedIsHeld, MapsKnown, ObjectsApart
<1>. QED BY <1>1, UMInitInv, UMStepInv, PTL DEF UMSpec

-----------------------------------------------------------------------------
(* The kernel's own directory *)

\* Stepped over by the run or freed: below current_entry and not in use.
Loose(e) == e < current_entry /\ e \notin used

\* While objects are made, nothing has been freed, and what is loose are the
\* tails of runs, with at most one slot stepped over behind each: no request
\* of two entries or more fits below current_entry.
BootPacked ==
    step \in {"alloc", "init"} =>
       /\ exited = {}
       /\ \A e \in Int : ~(Loose(e) /\ Loose(e + 1) /\ Loose(e + 2) /\ e >= 0)

\* So the object's first and tail page have just been mapped.
ObjectMapped ==
    step = "init" =>
       {object[Cardinality(Objects) - 1], Tail(Cardinality(Objects) - 1)}
          \subseteq kmapped

\* Before the first exit a loose entry that is dirty is mapped or was skipped.
LooseKnown ==
    exited = {} /\ step # "free" =>
       \A e \in Slots : Loose(e) /\ e \in dirty => e \in kmapped \cup skipped

KernelInv == BootPacked /\ ObjectMapped /\ LooseKnown /\ HaltsExplained

\* First fit never starts beyond current_entry.
LEMMA FirstFitLow ==
    ASSUME IInv, NEW n \in Counts, NEW i \in Entries, Fits(i, n),
           \A j \in 0 .. i - 1 : ~Fits(j, n)
    PROVE  i <= current_entry
<1> SUFFICES ASSUME i > current_entry
             PROVE  FALSE
  BY ConstantsTyped DEF IInv, TypeOK, Entries
<1>1. current_entry \in 0 .. i - 1 /\ n \in Nat /\ i \in Nat
  BY ConstantsTyped DEF IInv, TypeOK, Entries
<1>2. Fits(current_entry, n)
  BY <1>1, ConstantsTyped DEF Fits, Vacant
<1>. QED BY <1>1, <1>2

\* What AllocAt does to the loose entries, and to those of LooseKnown.
LEMMA LooseAfter ==
    ASSUME IInv, NEW n \in Counts, NEW p \in Pids, NEW i \in Entries,
           Fits(i, n), AllocAt(i, n, p), i <= current_entry,
           NEW e \in Slots, Loose(e)'
    PROVE  /\ e \notin i .. i + n - 1
           /\ Loose(e) \/ (i + n >= current_entry /\ e \in {i + n, i + n + 1})
           /\ e \in dirty' => \/ Loose(e) /\ e \in dirty
                              \/ e \in Fresh(i, n) \/ e \in skipped'
           /\ e \in skipped => e \in skipped'
<1>1. current_entry \in Nat /\ n \in Nat \ {0} /\ i \in Nat /\ e \in Nat
  BY ConstantsTyped DEF IInv, TypeOK, Entries, Slots
<1>2. /\ used' = (used \ current_entry .. i + n) \cup i .. i + n - 1
      /\ dirty' = (dirty \ current_entry .. i + n) \cup i .. i + n - 1
      /\ current_entry' = IF i + n >= current_entry THEN i + n + 2
                                                    ELSE current_entry
      /\ skipped' = (skipped \ i .. i + n - 1)
            \cup (IF i + n >= current_entry THEN {i + n + 1} ELSE {})
  BY DEF AllocAt, Block, Cover, Fresh
<1>3. e \notin i .. i + n - 1
  BY <1>2 DEF Loose
<1>4. Loose(e) \/ (i + n >= current_entry /\ e \in {i + n, i + n + 1})
  BY <1>1, <1>2, <1>3 DEF Loose
<1>5. e \in dirty' => \/ Loose(e) /\ e \in dirty
                      \/ e \in Fresh(i, n) \/ e \in skipped'
  BY <1>1, <1>2, <1>3, <1>4 DEF Fresh, Loose
<1>6. e \in skipped => e \in skipped'
  BY <1>2, <1>3
<1>. QED BY <1>3, <1>4, <1>5, <1>6

LEMMA KernelInit == UMInit => KernelInv
BY DEF UMInit, Init, KernelInv, BootPacked, ObjectMapped, LooseKnown,
       HaltsExplained, Loose

\* A new object's pages come into use with it: had the run fitted in below
\* current_entry, three entries in a row would have been loose.
LEMMA BootStep ==
    ASSUME Inv, KernelInv, ~halted, GetFreeProcEntry
    PROVE  BootPacked' /\ ObjectMapped' /\ LooseKnown'
<1>. IInv /\ UMTyped /\ IInv'
  BY HeapInvStep DEF Inv, UMNext, Boot
<1>0. step = "alloc" /\ step' = "init" /\ exited = {} /\ exited' = exited
  BY DEF GetFreeProcEntry, KernelInv, BootPacked
<1>. DEFINE n == ObjEntries
<1>1. PICK i \in Entries : /\ Fits(i, n) /\ AllocAt(i, n, 0) /\ ret' = i
                           /\ \A j \in 0 .. i - 1 : ~Fits(j, n)
  BY GrantAdds, ConstantsTyped DEF GetFreeProcEntry
<1>2. /\ current_entry \in Nat /\ n \in Nat /\ n > 1 /\ i \in Nat
      /\ current_entry' \in Nat /\ current_entry' <= MaxEntries + 1
  BY ConstantsTyped DEF IInv, TypeOK, Entries
<1>3. i <= current_entry
  BY <1>1, FirstFitLow, ConstantsTyped
<1>4. \A e \in Int : e >= 0 => ~(Loose(e) /\ Loose(e + 1) /\ Loose(e + 2))
  BY <1>0 DEF KernelInv, BootPacked
<1>5. i + n >= current_entry
  <2> SUFFICES ASSUME i + n < current_entry
               PROVE  FALSE
    BY <1>2
  <2>1. Vacant(i) /\ Vacant(i + 1) /\ Vacant(i + 2)
    <3>1. \A e \in i .. i + n : Vacant(e)
      BY <1>1 DEF Fits
    <3>2. {i, i + 1, i + 2} \subseteq i .. i + n
      BY <1>2
    <3>. QED BY <3>1, <3>2
  <2>2. Loose(i) /\ Loose(i + 1) /\ Loose(i + 2)
    BY <1>2, <2>1 DEF Loose, Vacant
  <2>. QED BY <1>2, <1>4, <2>2
<1>6. current_entry' = i + n + 2
  BY <1>1, <1>5 DEF AllocAt
<1>7. \A e \in Slots : Loose(e)' =>
         /\ e \notin i .. i + n - 1
         /\ Loose(e) \/ e \in {i + n, i + n + 1}
         /\ e \in dirty' => \/ Loose(e) /\ e \in dirty
                            \/ e \in Fresh(i, n) \/ e \in skipped'
         /\ e \in skipped => e \in skipped'
  BY <1>1, <1>3, LooseAfter, ConstantsTyped
<1>8. BootPacked'
  <2> SUFFICES ASSUME NEW e \in Int, e >= 0,
                      Loose(e)', Loose(e + 1)', Loose(e + 2)'
               PROVE  FALSE
    BY <1>0 DEF BootPacked, Loose
  <2>1. e + 2 < i + n + 2
    BY <1>6 DEF Loose
  <2>2. {e, e + 1, e + 2} \subseteq Slots
    BY <1>1, <1>2, <2>1, ConstantsTyped DEF Slots, Fits
  <2>3. \A x \in {e, e + 1, e + 2} :
           /\ x \notin i .. i + n - 1
           /\ Loose(x) \/ x \in {i + n, i + n + 1}
    BY <1>7, <2>2
  <2>4. e + 2 < i
    BY <1>2, <2>1, <2>3
  <2>5. Loose(e) /\ Loose(e + 1) /\ Loose(e + 2)
    BY <1>2, <2>3, <2>4
  <2>. QED BY <1>4, <2>5
<1>9. kmapped' = kmapped \cup (current_entry .. i + n) \cup {i}
  BY <1>1 DEF GetFreeProcEntry, Mapped, Fresh
<1>10. ObjectMapped'
  <2>1. PICK k \in 0 .. Processes : Objects = 0 .. k - 1
    BY DEF UMTyped
  <2>2. Cardinality(Objects) = k /\ k < Processes
    BY <2>1, ObjectsCounted DEF GetFreeProcEntry
  <2>3. object' = [p \in Objects \cup {k} |->
                     IF p \in Objects THEN object[p] ELSE i]
    BY <1>1, <2>2 DEF GetFreeProcEntry
  <2>4. Objects' = 0 .. (k + 1) - 1 /\ k + 1 \in 0 .. Processes
    BY <2>1, <2>2, <2>3, ConstantsTyped DEF Objects
  <2>5. Cardinality(Objects') = k + 1
    <3>1. Cardinality(0 .. k) = IF 0 > k THEN 0 ELSE k - 0 + 1
      BY FS_Interval, <2>1
    <3>. QED BY <2>4, <3>1
  <2>6. object'[k] = i
    BY <2>1, <2>3
  <2>7. i \in kmapped' /\ i + n \in kmapped'
    BY <1>2, <1>5, <1>9
  <2>. QED BY <2>5, <2>6, <2>7 DEF ObjectMapped, Tail
<1>11. LooseKnown'
  <2>1. \A e \in Slots : Loose(e) /\ e \in dirty => e \in kmapped \cup skipped
    BY <1>0 DEF KernelInv, LooseKnown
  <2>2. ASSUME NEW e \in Slots, Loose(e)', e \in dirty'
        PROVE  e \in kmapped' \cup skipped'
    BY <1>7, <1>9, <2>1, <2>2 DEF Fresh
  <2>. QED BY <2>2 DEF LooseKnown
<1>. QED BY <1>8, <1>10, <1>11

\* A palloc keeps LooseKnown as well: what it brings into use it maps.
LEMMA PallocKeeps ==
    ASSUME Inv, KernelInv, NEW p \in Running, NEW n \in Counts, Palloc(p, n)
    PROVE  LooseKnown'
<1>. IInv
  BY DEF Inv
<1>0. p \in Pids
  BY RunningPids DEF Inv
<1>1. PICK i \in Entries : /\ Fits(i, n) /\ AllocAt(i, n, p) /\ ret' = i
                           /\ \A j \in 0 .. i - 1 : ~Fits(j, n)
  BY <1>0, GrantAdds DEF Palloc
<1>2. i <= current_entry
  BY <1>1, FirstFitLow
<1>3. UNCHANGED <<exited, step>> /\ kmapped' = kmapped \cup Fresh(i, n)
  BY <1>1 DEF Palloc, Mapped, Fresh
<1>4. ASSUME exited = {}, step # "free", NEW e \in Slots, Loose(e)', e \in dirty'
      PROVE  e \in kmapped' \cup skipped'
  <2>1. \/ Loose(e) /\ e \in dirty
        \/ e \in Fresh(i, n) \/ e \in skipped'
    BY <1>0, <1>1, <1>2, <1>4, LooseAfter
  <2>2. e \in skipped => e \in skipped'
    BY <1>0, <1>1, <1>2, <1>4, LooseAfter
  <2>. QED BY <1>3, <1>4, <2>1, <2>2 DEF KernelInv, LooseKnown
<1>. QED BY <1>3, <1>4 DEF LooseKnown

\* Nobody else brings entries into use, and after the first release nothing is
\* claimed any more.
LEMMA KernelStep == Inv /\ KernelInv /\ [UMNext]_umvars => KernelInv'
<1> SUFFICES ASSUME Inv, KernelInv, [UMNext]_umvars
             PROVE  KernelInv'
  OBVIOUS
<1>. UMTyped /\ BootPacked /\ ObjectMapped /\ LooseKnown /\ HaltsExplained
  BY DEF KernelInv, Inv
<1>1. CASE ~halted /\ GetFreeProcEntry
  <2>1. BootPacked' /\ ObjectMapped' /\ LooseKnown'
    BY <1>1, BootStep
  <2>. QED BY <1>1, <2>1 DEF KernelInv, GetFreeProcEntry, HaltsExplained
<1>2. CASE InitProcess
  <2>1. halted' = FALSE
    BY <1>2 DEF InitProcess, ObjectMapped
  <2>2. step = "init" /\ step' = "alloc" /\ UNCHANGED <<current_entry, used,
          dirty, skipped, object, exited, kmapped>>
    BY <1>2, <2>1 DEF InitProcess, info
  <2>. QED BY <2>1, <2>2
           DEF KernelInv, BootPacked, ObjectMapped, LooseKnown, HaltsExplained,
               Loose
<1>3. ASSUME UNCHANGED <<current_entry, used, dirty, skipped, exited, kmapped>>,
             step' = step \/ (step' = "run" /\ step # "free"),
             step = "init" => UNCHANGED object,
             halted' = halted \/ exited # {} \/ skipped \cap dirty # {}
      PROVE  KernelInv'
  <2>1. HaltsExplained'
    BY <1>3, Zenon DEF HaltsExplained
  <2>2. BootPacked' /\ ObjectMapped' /\ LooseKnown'
    BY <1>3 DEF BootPacked, ObjectMapped, LooseKnown, Loose, Tail, Objects
  <2>. QED BY <2>1, <2>2 DEF KernelInv
<1>4. CASE Booted \/ UNCHANGED umvars
  <2>1. UNCHANGED <<current_entry, used, dirty, skipped, exited, kmapped,
                    object, halted>>
    BY <1>4 DEF Booted, umvars, vars
  <2>2. step' = step \/ (step' = "run" /\ step # "free")
    BY <1>4 DEF Booted, umvars
  <2>. QED BY <1>3, <2>1, <2>2
<1>5. ASSUME NEW n \in Counts, ScanHalts(n), step # "free"
      PROVE  KernelInv'
  <2>1. PICK e \in Cleared(Visited(n)) : e \notin kmapped
    BY <1>5 DEF ScanHalts, ClearFaults
  <2>2. e \in Slots /\ Loose(e) /\ e \in dirty
    BY <2>1 DEF Cleared, Visited, Loose
  <2>3. exited # {} \/ skipped \cap dirty # {}
    BY <1>5, <2>1, <2>2 DEF LooseKnown
  <2>. QED BY <1>3, <1>5, <2>3 DEF ScanHalts, vars
<1>6. ASSUME NEW p \in Running, NEW n \in Counts, Palloc(p, n),
             step = "run", ~halted
      PROVE  KernelInv'
  <2>1. LooseKnown'
    BY <1>6, PallocKeeps
  <2>2. step' = "run" /\ ~halted'
    BY <1>6 DEF Palloc
  <2>. QED BY <2>1, <2>2 DEF KernelInv, BootPacked, ObjectMapped, HaltsExplained
<1>7. ASSUME NEW p \in Running, NEW n \in Counts, PallocUnmet(p, n)
      PROVE  KernelInv'
  <2>1. UNCHANGED <<current_entry, used, dirty, skipped, exited, kmapped,
                    object, halted, step>>
    BY <1>7 DEF PallocUnmet, AllocFails, info
  <2>. QED BY <1>3, <2>1
<1>8. ASSUME NEW p \in Running, ExitReleases(p), step = "run", ~halted
      PROVE  KernelInv'
  BY <1>8 DEF ExitReleases, KernelInv, BootPacked, ObjectMapped, LooseKnown,
              HaltsExplained
<1>9. CASE ExitFrees
  <2>1. exited' # {} /\ step' = "run"
    BY <1>9 DEF ExitFrees
  <2>. QED BY <2>1 DEF KernelInv, BootPacked, ObjectMapped, LooseKnown,
                       HaltsExplained
<1>10. ASSUME NEW p \in Running, Store(p)
       PROVE  KernelInv'
  <2>1. UNCHANGED <<current_entry, used, dirty, skipped, exited, kmapped,
                    object, halted, step>>
    BY <1>10 DEF Store, info
  <2>. QED BY <1>3, <2>1
<1>. QED BY <1>1, <1>2, <1>4, <1>5, <1>6, <1>7, <1>8, <1>9, <1>10,
            ConstantsTyped
         DEF UMNext, Boot, UserCall

\* The kernel touches a page its directory does not map only after a process
\* has exited, or where a slot was skipped that looked dirty from the start:
\* one page mapped for an object of many is enough, because AllocEntries maps
\* the pages it brings into use (process.cpp, GetFreeProcEntry; heap.cpp:54).
THEOREM HaltsAreExplained == UMSpec => []HaltsExplained
<1>1. KernelInv => HaltsExplained
  BY DEF KernelInv
<1>. QED BY <1>1, UMInitInv, UMStepInv, KernelInit, KernelStep, PTL DEF UMSpec

-----------------------------------------------------------------------------
(* Page contents, for RAM that holds zeroes *)

\* What may hold data is marked dirty, or the tail of an object.
Traced ==
    unmet = {} => \A e \in data : \/ e \in dirty /\ e < current_entry
                                \/ \E p \in Objects : e = Tail(p)

LEMMA TracedInit == RawData = {} /\ UMInit => Traced
BY DEF UMInit, Init, Traced

\* A granted run holds old data only where it was not marked.
LEMMA GrantClears ==
    ASSUME IInv, NEW n \in Counts, NEW p \in Pids, AllocEntries(n, p)
    PROVE  /\ data' \subseteq data
           /\ \A e \in data' : e \in dirty /\ e < current_entry =>
                 e \in dirty' /\ e < current_entry'
           /\ \A b \in blocks' \ blocks : \A e \in Cover(b) \cap data' :
                 ~(e \in dirty /\ e < current_entry)
<1>1. PICK i \in Entries : /\ Fits(i, n) /\ AllocAt(i, n, p)
                           /\ blocks' = blocks \cup {Block(i, n, p)}
  BY GrantAdds
<1>2. /\ current_entry \in Nat /\ i \in Nat /\ n \in Nat \ {0}
      /\ data' = data \ Cleared(0 .. i + n)
      /\ dirty' = (dirty \ (current_entry .. i + n)) \cup i .. i + n - 1
      /\ current_entry' = IF i + n >= current_entry THEN i + n + 2
                                                    ELSE current_entry
  BY <1>1, ConstantsTyped
     DEF IInv, TypeOK, Entries, AllocAt, Block, Cover, Fresh
<1>3. ASSUME NEW e \in data', e \in dirty, e < current_entry
      PROVE  e \in dirty' /\ e < current_entry'
  <2>1. e \in Nat
    BY <1>2 DEF IInv, TypeOK, Entries
  <2>. QED BY <1>2, <1>3, <2>1
<1>4. ASSUME NEW e \in i .. i + n - 1, e \in data', e \in dirty,
             e < current_entry
      PROVE  FALSE
  <2>1. e \in i .. i + n /\ e \in 0 .. i + n
    BY <1>2
  <2>2. Vacant(e)
    BY <1>1, <2>1 DEF Fits
  <2>. QED BY <1>2, <1>4, <2>1, <2>2 DEF Cleared, Vacant
<1>5. \A b \in blocks' \ blocks : Cover(b) = i .. i + n - 1
  BY <1>1 DEF Block, Cover
<1>. QED BY <1>2, <1>3, <1>4, <1>5

\* A process writes into its own blocks, which are marked; Create writes into
\* its object and the tail behind it.
LEMMA TracedStep == Inv /\ KernelInv /\ Traced /\ [UMNext]_umvars => Traced'
<1> SUFFICES ASSUME Inv, KernelInv, Traced, [UMNext]_umvars, unmet' = {}
             PROVE  \A e \in data' :
                       \/ e \in dirty' /\ e < current_entry'
                       \/ \E p \in Objects' : e = Tail(p)'
  BY DEF Traced
<1>. UMTyped /\ IInv /\ MapsKnown /\ ObjectsApart
  BY DEF Inv
<1>. DEFINE Marked(e) == e \in dirty /\ e < current_entry
            AtTail(e) == \E p \in Objects : e = Tail(p)
<1>1. ASSUME unmet = {}, data' \subseteq data,
             \A e \in data' : Marked(e) => Marked(e)',
             UNCHANGED object
      PROVE  \A e \in data' : Marked(e)' \/ AtTail(e)'
  BY <1>1 DEF Traced, Tail, Objects
<1>2. CASE GetFreeProcEntry
  <2>1. /\ data' \subseteq data
        /\ \A e \in data' : Marked(e) => Marked(e)'
    BY <1>2, GrantClears, ConstantsTyped DEF GetFreeProcEntry
  <2>2. unmet = {} /\ \A p \in Objects : p \in Objects' /\ Tail(p)' = Tail(p)
    BY <1>2 DEF GetFreeProcEntry, Tail, Objects
  <2>. QED BY <2>1, <2>2 DEF Traced
<1>3. CASE InitProcess
  <2>1. PICK k \in 0 .. Processes : Objects = 0 .. k - 1
    BY DEF UMTyped
  <2>2. Cardinality(Objects) = k /\ k - 1 \in Objects
    BY <1>3, <2>1, ObjectsCounted, ConstantsTyped DEF UMTyped, InitProcess
  <2>3. /\ data' = data \/ data' = data \cup {object[k - 1], Tail(k - 1)}
        /\ unmet = {}
        /\ UNCHANGED <<object, dirty, current_entry>>
    BY <1>3, <2>2 DEF InitProcess, info
  <2>4. Marked(object[k - 1])
    <3>1. exited = {}
      BY <1>3 DEF KernelInv, BootPacked, InitProcess
    <3>2. ObjBlock(k - 1) \in blocks /\ object[k - 1] \in Nat
      BY <2>2, <3>1 DEF ObjectsApart, Live, UMTyped, Entries
    <3>3. object[k - 1] \in Cover(ObjBlock(k - 1))
      BY <3>2, ConstantsTyped DEF Cover, ObjBlock, Block
    <3>. QED BY <3>2, <3>3 DEF IInv, Owned
  <2>5. \A e \in data : Marked(e) \/ AtTail(e)
    BY <2>3 DEF Traced
  <2>6. \A e \in data' : Marked(e) \/ AtTail(e)
    BY <2>2, <2>3, <2>4, <2>5
  <2>7. \A e : (Marked(e) => Marked(e)') /\ (AtTail(e) => AtTail(e)')
    BY <2>3 DEF Tail, Objects
  <2>. QED BY <2>6, <2>7
<1>4. CASE \/ Booted \/ UNCHANGED umvars
           \/ \E n \in Counts : ScanHalts(n)
           \/ \E p \in Running : ExitReleases(p)
           \/ ExitFrees
  <2>1. UNCHANGED <<data, dirty, current_entry, object, unmet>>
    BY <1>4 DEF Booted, umvars, vars, ScanHalts, ExitReleases, ExitFrees,
                FreeAllProcessEntries, FreeEntries
  <2>. QED BY <1>1, <2>1
<1>5. ASSUME NEW p \in Running, NEW n \in Counts, Palloc(p, n)
      PROVE  \A e \in data' : Marked(e)' \/ AtTail(e)'
  <2>1. /\ data' \subseteq data
        /\ \A e \in data' : Marked(e) => Marked(e)'
    BY <1>5, RunningPids, GrantClears DEF Palloc
  <2>2. UNCHANGED <<object, unmet>>
    BY <1>5 DEF Palloc
  <2>. QED BY <1>1, <2>1, <2>2
<1>6. ASSUME NEW p \in Running, NEW n \in Counts, PallocUnmet(p, n)
      PROVE  FALSE
  BY <1>6 DEF PallocUnmet
<1>7. ASSUME NEW p \in Running, Store(p)
      PROVE  \A e \in data' : Marked(e)' \/ AtTail(e)'
  <2>1. UNCHANGED <<object, unmet, dirty, current_entry>>
    BY <1>7 DEF Store, info
  <2>2. PICK f \in mapped[p] :
           data' = IF f < LowFrames THEN data ELSE data \cup {f - LowFrames}
    BY <1>7 DEF Store
  <2>3. p \in 0 .. Processes - 1 /\ p # Idle
    BY RunningPids DEF Idle
  <2>4. PICK x \in Charged(p) : f = FrameOf(x)
    BY <2>1, <2>2, <2>3 DEF MapsKnown
  <2>5. PICK b \in blocks : x \in Cover(b)
    BY <2>4 DEF Charged
  <2>6. x \in Int
    BY <2>5 DEF Cover, IInv, TypeOK, Entries
  <2>7. Marked(x)
    BY <2>5 DEF IInv, Owned
  <2>8. f - LowFrames = x
    BY <2>4, <2>6, ConstantsTyped DEF FrameOf
  <2>9. \A e \in data' : Marked(e) \/ AtTail(e)
    BY <2>1, <2>2, <2>7, <2>8 DEF Traced
  <2>10. \A e : (Marked(e) => Marked(e)') /\ (AtTail(e) => AtTail(e)')
    BY <2>1 DEF Tail, Objects
  <2>. QED BY <2>9, <2>10
<1>. QED BY <1>2, <1>3, <1>4, <1>5, <1>6, <1>7, ConstantsTyped
         DEF UMNext, Boot, UserCall

\* Only a grant adds a block, and it has cleared what was marked.
LEMMA GrantForgets ==
    ASSUME Inv, Traced, [UMNext]_umvars, unmet = {}
    PROVE  \A b \in blocks' \ blocks :
              Cover(b) \cap data' \subseteq {Tail(p) : p \in Objects}
<1>. UMTyped /\ IInv
  BY DEF Inv
<1>1. ASSUME NEW n \in Counts, NEW p \in Pids, AllocEntries(n, p)
      PROVE  \A b \in blocks' \ blocks :
                Cover(b) \cap data' \subseteq {Tail(q) : q \in Objects}
  BY <1>1, GrantClears DEF Traced
<1>2. CASE ~\E n \in Counts, p \in Pids : AllocEntries(n, p)
  <2>1. [Next]_vars \/ Touches
    BY StepKinds
  <2>2. blocks' \subseteq blocks
    BY <1>2, <2>1 DEF Next, vars, Touches, AllocFails, FreeEntries,
                      FreeAllProcessEntries, ClientWrite
  <2>. QED BY <2>2
<1>. QED BY <1>1, <1>2

\* A process is never handed what another one wrote, but for the tails of
\* objects, until a palloc that failed has been reported as a success
\* (heap.cpp:57; syscalls.cpp:61).
THEOREM GrantsAreForgetful == RawData = {} /\ UMSpec => GrantsForget
BY UMInitInv, UMStepInv, KernelInit, KernelStep, TracedInit, TracedStep,
   GrantForgets, PTL DEF UMSpec, GrantsForget

-----------------------------------------------------------------------------
(* The page pool *)

LEMMA UMPoolStep ==
    Inv /\ [UMNext]_umvars => [Pool!PoolNext]_(Pool!poolVars)
<1> SUFFICES ASSUME Inv, [UMNext]_umvars PROVE [Pool!PoolNext]_(Pool!poolVars)
  OBVIOUS
<1>1. CASE [Next]_vars
  BY <1>1, StepIsPoolStep DEF Inv
<1>2. CASE Touches
  BY <1>2 DEF Touches, info, Lost, Covered, Cover, Pool!poolVars
<1>. QED BY <1>1, <1>2, StepKinds

\* Among its real callers too UserHeap grants from free entries only and
\* refuses only when no run is free, whatever bits the RAM held (heap.cpp,
\* process.cpp, syscalls.cpp).
THEOREM UserHeapIsPool == UMSpec => ImplementsPool
<1>1. UMInit => Pool!PoolInit
  BY PoolStarts DEF UMInit
<1>. QED BY <1>1, UMInitInv, UMStepInv, UMPoolStep, PTL
         DEF UMSpec, ImplementsPool, Pool!PoolSpec
=============================================================================
