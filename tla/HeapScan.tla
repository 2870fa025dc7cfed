------------------------------ MODULE HeapScan ------------------------------
(***************************************************************************)
(* Heap::AllocEntries (lib/heap.cpp), one step per loop iteration: the     *)
(* retry loop over i, the inner loop over s that initialises, tests and    *)
(* clears entries, and the marking loop.  Releases are single steps.  The  *)
(* module is checked to implement Heap, whose AllocEntries states the      *)
(* outcome of the whole scan, and to terminate.                            *)
(***************************************************************************)
EXTENDS Integers

CONSTANTS MaxEntries, Counts, Pids, RawUsed, RawDirty, RawPids, RawData

Entries == 0 .. MaxEntries - 1
Slots == 0 .. MaxEntries
Null == -1

\* The constants are those of Heap.
ASSUME HeapScanAssumption ==
    /\ MaxEntries \in Nat \ {0}
    /\ Counts \subseteq Nat \ {0}
    /\ RawUsed \subseteq Slots
    /\ RawDirty \subseteq Slots
    /\ RawPids \subseteq Pids
    /\ RawData \subseteq Entries

VARIABLES
    current_entry, used, dirty, AllocPID, data, ret, refused, blocks, skipped,
    pc,      \* "idle" or the loop that runs next
    i, s,    \* the counters of the source
    call,    \* arguments of the call: [count, PID]
    before   \* history: the heap at the moment of the running call

heap == <<current_entry, used, dirty, AllocPID, data, skipped>>
vars == <<heap, ret, refused, blocks, pc, i, s, call, before>>

Snapshot == [current_entry |-> current_entry, used |-> used, dirty |-> dirty,
             AllocPID |-> AllocPID, data |-> data, skipped |-> skipped]

NoCall == [count |-> 0, PID |-> 0]
NoSnapshot == [current_entry |-> 0, used |-> {}, dirty |-> {},
               AllocPID |-> <<>>, data |-> {}, skipped |-> {}]

Init ==
    /\ current_entry = 0
    /\ used \in SUBSET RawUsed
    /\ dirty \in SUBSET RawDirty
    /\ AllocPID \in [Slots -> RawPids]
    /\ data \in SUBSET RawData
    /\ ret = Null
    /\ refused = 0
    /\ blocks = {}
    /\ skipped = {}
    /\ pc = "idle" /\ i = 0 /\ s = 0
    /\ call = NoCall
    /\ before = NoSnapshot

Call(n, p) ==
    /\ pc = "idle"
    /\ pc' = "retry"
    /\ i' = 0 /\ s' = 0
    /\ call' = [count |-> n, PID |-> p]
    /\ before' = Snapshot
    /\ UNCHANGED <<heap, ret, refused, blocks>>

Return(value) ==
    /\ ret' = value
    /\ refused' = IF value = Null THEN call.count ELSE 0
    /\ pc' = "idle"
    /\ i' = 0 /\ s' = 0
    /\ call' = NoCall
    /\ before' = NoSnapshot

\* Mutant of Retry: the bound is off by one.
RetryTooFar ==
    /\ pc = "retry"
    /\ \/ /\ i + call.count > MaxEntries
          /\ Return(Null)
       \/ /\ i + call.count <= MaxEntries
          /\ pc' = "extend"
          /\ s' = 0
          /\ UNCHANGED <<ret, refused, i, call, before>>
    /\ UNCHANGED <<heap, blocks>>

\* loop: give up when no run of count + 1 entries starts at i.
Retry ==
    /\ pc = "retry"
    /\ \/ /\ i + call.count >= MaxEntries
          /\ Return(Null)
       \/ /\ i + call.count < MaxEntries
          /\ pc' = "extend"
          /\ s' = 0
          /\ UNCHANGED <<ret, refused, i, call, before>>
    /\ UNCHANGED <<heap, blocks>>

\* The first reference beyond current_entry initialises the rest of the run,
\* steps current_entry over it and then once more.
Extend ==
    /\ pc = "extend"
    /\ pc' = "test"
    /\ IF i + s >= current_entry
       THEN LET run == i + s .. i + call.count IN
            /\ used' = used \ run
            /\ dirty' = dirty \ run
            /\ current_entry' = current_entry + (call.count - s + 1) + 1
            /\ skipped' = skipped \cup {i + call.count + 1}
       ELSE UNCHANGED <<used, dirty, current_entry, skipped>>
    /\ UNCHANGED <<AllocPID, data, ret, refused, blocks, i, s, call, before>>

\* Mutants of Test: the scan restarts at the used entry itself; a dirty entry
\* is cleared before used is tested.
TestSameAgain ==
    /\ pc = "test"
    /\ \/ /\ i + s \in used
          /\ i' = i + s
          /\ pc' = "retry"
          /\ UNCHANGED <<data, s>>
       \/ /\ i + s \notin used
          /\ data' = IF i + s \in dirty THEN data \ {i + s} ELSE data
          /\ IF s < call.count THEN s' = s + 1 /\ pc' = "extend"
                               ELSE s' = 0 /\ pc' = "mark"
          /\ UNCHANGED i
    /\ UNCHANGED <<current_entry, used, dirty, AllocPID, skipped, ret,
                   refused, blocks, call, before>>
TestAfterClear ==
    /\ pc = "test"
    /\ data' = IF i + s \in dirty THEN data \ {i + s} ELSE data
    /\ \/ /\ i + s \in used
          /\ i' = i + s + 1
          /\ pc' = "retry"
          /\ UNCHANGED s
       \/ /\ i + s \notin used
          /\ IF s < call.count THEN s' = s + 1 /\ pc' = "extend"
                               ELSE s' = 0 /\ pc' = "mark"
          /\ UNCHANGED i
    /\ UNCHANGED <<current_entry, used, dirty, AllocPID, skipped, ret,
                   refused, blocks, call, before>>

\* A used entry restarts the scan behind it, a dirty one is cleared.
Test ==
    /\ pc = "test"
    /\ \/ /\ i + s \in used
          /\ i' = i + s + 1
          /\ pc' = "retry"
          /\ UNCHANGED <<data, s>>
       \/ /\ i + s \notin used
          /\ data' = IF i + s \in dirty THEN data \ {i + s} ELSE data
          /\ IF s < call.count THEN s' = s + 1 /\ pc' = "extend"
                               ELSE s' = 0 /\ pc' = "mark"
          /\ UNCHANGED i
    /\ UNCHANGED <<current_entry, used, dirty, AllocPID, skipped, ret,
                   refused, blocks, call, before>>

\* ind = i: mark count entries, one at a time, then return their address.
Mark ==
    /\ pc = "mark"
    /\ \/ /\ s < call.count
          /\ used' = used \cup {i + s}
          /\ dirty' = dirty \cup {i + s}
          /\ AllocPID' = [AllocPID EXCEPT ![i + s] = call.PID]
          /\ skipped' = skipped \ {i + s}
          /\ s' = s + 1
          /\ UNCHANGED <<current_entry, data, ret, refused, blocks, pc, i,
                         call, before>>
       \/ /\ s = call.count
          /\ Return(i)
          /\ blocks' = blocks \cup
                {[start |-> i, len |-> call.count, pid |-> call.PID]}
          /\ UNCHANGED heap

Rest == <<dirty, AllocPID, data, skipped, current_entry, ret, pc, i, s, call, before>>

FreeEntries(b) ==
    /\ pc = "idle"
    /\ used' = used \ {e \in b.start .. b.start + b.len - 1 : e < current_entry}
    /\ blocks' = blocks \ {b}
    /\ refused' = 0
    /\ UNCHANGED Rest

FreeAllProcessEntries(p) ==
    /\ pc = "idle"
    /\ used' = {e \in used : ~(e < current_entry /\ AllocPID[e] = p)}
    /\ blocks' = {b \in blocks : b.pid # p}
    /\ refused' = 0
    /\ UNCHANGED Rest

ClientWrite(b) ==
    /\ pc = "idle"
    /\ \E e \in b.start .. b.start + b.len - 1 : data' = data \cup {e}
    /\ UNCHANGED <<used, dirty, AllocPID, skipped, current_entry, ret,
                   refused, blocks, pc, i, s, call, before>>

AllocStep == Retry \/ Extend \/ Test \/ Mark

Next ==
    \/ \E n \in Counts, p \in Pids : Call(n, p)
    \/ AllocStep
    \/ \E b \in blocks : FreeEntries(b)
    \/ \E p \in Pids : FreeAllProcessEntries(p)
    \/ \E b \in blocks : ClientWrite(b)

\* The processor keeps executing a call that has begun.
Spec == Init /\ [][Next]_vars /\ WF_vars(AllocStep)

-----------------------------------------------------------------------------
TypeOK ==
    /\ pc \in {"idle", "retry", "extend", "test", "mark"}
    /\ i \in 0 .. MaxEntries
    /\ s \in 0 .. MaxEntries
    /\ current_entry \in 0 .. MaxEntries + 1
    /\ used \cup dirty \cup skipped \subseteq Slots
    /\ data \subseteq Entries

\* While a call runs, what its effects so far do not show is the heap as it
\* was: that is the state the atomic specification is still in.
Seen == IF pc = "idle" THEN Snapshot ELSE before

Atomic == INSTANCE Heap WITH
    current_entry <- Seen.current_entry, used <- Seen.used,
    dirty <- Seen.dirty, AllocPID <- Seen.AllocPID, data <- Seen.data,
    skipped <- Seen.skipped

\* The loops compute what Heap states in one step: the lowest fitting run,
\* the same clearing, the same advance of current_entry, and a null result
\* exactly when nothing fits (heap.cpp, AllocEntries).
ImplementsHeap == Atomic!Spec

\* The scan never looks at an EntryInfo outside the table and never restarts
\* behind current_entry, so the extension always begins exactly there.
ScanInBounds ==
    /\ TypeOK
    /\ pc \in {"extend", "test"} => i + s < MaxEntries /\ i <= current_entry
    /\ pc = "extend" /\ i + s >= current_entry => i + s = current_entry

\* The goto loop ends: every call returns.
CallReturns == pc # "idle" ~> pc = "idle"
=============================================================================
