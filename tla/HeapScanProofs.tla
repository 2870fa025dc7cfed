---------------------------- MODULE HeapScanProofs ----------------------------
(***************************************************************************)
(* The loops of Heap::AllocEntries compute what Heap states in one step,   *)
(* for every size of the table.  The invariant says, for every place of    *)
(* the loops, what the entries visited so far were like when the call      *)
(* began and how much of its effect is already in the table.               *)
(***************************************************************************)
EXTENDS HeapScan, TLAPS

HeapStates ==
    [current_entry : 0 .. MaxEntries + 1,
     used : SUBSET Slots, dirty : SUBSET Slots, AllocPID : [Slots -> Pids],
     data : SUBSET Entries, skipped : SUBSET Slots]

\* What Heap calls Vacant, Fits and Cleared, of the heap the call found.
WasVacant(e) == e >= before.current_entry \/ e \notin before.used
WasFit(j) ==
    /\ j + call.count < MaxEntries
    /\ \A e \in j .. j + call.count : WasVacant(e)
WasCleared(last) ==
    {e \in 0 .. last : /\ e < before.current_entry
                       /\ e \notin before.used
                       /\ e \in before.dirty}

\* The entries the call brings into use, once its run has reached them.
New == before.current_entry .. i + call.count

\* No run below i fits.
Passed == \A j \in 0 .. i - 1 : ~WasFit(j)

\* The used entry that last restarted the scan is the first without enough
\* room behind it, if it is one.
Restarted ==
    i > 0 => /\ call.count < MaxEntries
             /\ ~WasVacant(i - 1)
             /\ \A u \in 0 .. i - 2 :
                   ~WasVacant(u) => u + 1 + call.count < MaxEntries

\* The run has not, or has, got to the entries that were never in use.
Unreached ==
    /\ current_entry = before.current_entry
    /\ used = before.used /\ dirty = before.dirty
    /\ skipped = before.skipped
Reached ==
    /\ current_entry = i + call.count + 2
    /\ used = before.used \ New /\ dirty = before.dirty \ New
    /\ skipped = before.skipped \cup {i + call.count + 1}

AtRetry ==
    /\ Unreached
    /\ Restarted
    /\ AllocPID = before.AllocPID
    /\ data = before.data \ WasCleared(i - 1)

\* Extend and Test look at entry i + s; those before it in the run are vacant.
AtEntry ==
    /\ i + call.count < MaxEntries
    /\ s <= call.count
    /\ \A e \in i .. i + s - 1 : WasVacant(e)
    /\ AllocPID = before.AllocPID
    /\ data = before.data \ WasCleared(i + s - 1)
    /\ \/ /\ Unreached
          /\ i + s <= before.current_entry
          /\ pc = "test" => i + s # before.current_entry
       \/ /\ Reached
          /\ before.current_entry <= i + s
          /\ pc = "extend" => i + s # before.current_entry

AtMark ==
    /\ WasFit(i)
    /\ s <= call.count
    /\ used = (before.used \ New) \cup (i .. i + s - 1)
    /\ dirty = (before.dirty \ New) \cup (i .. i + s - 1)
    /\ AllocPID = [e \in Slots |-> IF e \in i .. i + s - 1
                                   THEN call.PID ELSE before.AllocPID[e]]
    /\ data = before.data \ WasCleared(i + call.count)
    /\ current_entry = IF i + call.count >= before.current_entry
                       THEN i + call.count + 2 ELSE before.current_entry
    /\ skipped = (before.skipped \cup
                    (IF i + call.count >= before.current_entry
                     THEN {i + call.count + 1} ELSE {}))
                 \ (i .. i + s - 1)

Held == \A b \in blocks : /\ b.start \in Nat /\ b.len \in Nat
                          /\ b.start + b.len < MaxEntries

\* During a call.
Running ==
    /\ before \in HeapStates
    /\ call \in [count : Counts, PID : Pids]
    /\ i <= before.current_entry
    /\ Passed
    /\ pc = "retry" => AtRetry
    /\ pc \in {"extend", "test"} => AtEntry
    /\ pc = "mark" => AtMark

ScanInv ==
    /\ TypeOK
    /\ AllocPID \in [Slots -> Pids]
    /\ Held
    /\ pc # "idle" => Running

-----------------------------------------------------------------------------
(* The invariant is inductive. *)

LEMMA SnapshotTyped == ScanInv => Snapshot \in HeapStates
  BY DEF ScanInv, TypeOK, Snapshot, HeapStates

\* The numbers of a running call.
LEMMA Numbers ==
  ASSUME ScanInv, pc # "idle"
  PROVE  /\ MaxEntries \in Nat /\ i \in Nat /\ s \in Nat
         /\ call.count \in Nat \ {0} /\ call.count \in Counts
         /\ call.PID \in Pids
         /\ before.current_entry \in 0 .. MaxEntries + 1
         /\ before.used \subseteq Slots /\ before.dirty \subseteq Slots
         /\ before.skipped \subseteq Slots /\ before.data \subseteq Entries
         /\ before.AllocPID \in [Slots -> Pids]
         /\ i <= before.current_entry
<1>1. Running /\ MaxEntries \in Nat /\ i \in Nat /\ s \in Nat
  BY HeapScanAssumption DEF ScanInv, TypeOK
<1>2. call.count \in Counts /\ call.PID \in Pids
  BY <1>1 DEF Running
<1>3. call.count \in Nat \ {0}
  BY <1>2, HeapScanAssumption
<1>4. before \in HeapStates /\ i <= before.current_entry
  BY <1>1 DEF Running
<1> QED
  BY <1>1, <1>2, <1>3, <1>4 DEF HeapStates

LEMMA InitScan == Init => ScanInv
  BY HeapScanAssumption DEF Init, ScanInv, TypeOK, Held, Slots, Entries

LEMMA CallScan ==
  ASSUME ScanInv, NEW n \in Counts, NEW p \in Pids, Call(n, p)
  PROVE  ScanInv'
<1>1. before' \in HeapStates
  BY SnapshotTyped DEF Call
<1>2. /\ pc' = "retry" /\ i' = 0 /\ s' = 0
      /\ call' = [count |-> n, PID |-> p] /\ before' = Snapshot
      /\ UNCHANGED <<current_entry, used, dirty, AllocPID, data, skipped, blocks>>
  BY DEF Call, heap
<1>3. /\ i' \in 0 .. MaxEntries /\ s' \in 0 .. MaxEntries
  BY <1>2, HeapScanAssumption
<1>4. WasCleared(i - 1)' = {}
  BY <1>2 DEF WasCleared
<1>5. AtRetry'
  BY <1>2, <1>4 DEF AtRetry, Unreached, Restarted, Snapshot
<1>6. Passed' /\ i' <= before'.current_entry
  BY <1>1, <1>2 DEF Passed, HeapStates
<1>7. Running'
  BY <1>1, <1>2, <1>5, <1>6 DEF Running
<1> QED
  BY <1>2, <1>3, <1>7 DEF ScanInv, TypeOK, Held

LEMMA RetryScan ==
  ASSUME ScanInv, Retry
  PROVE  ScanInv'
<1>1. CASE i + call.count >= MaxEntries /\ Return(Null)
  BY <1>1, HeapScanAssumption DEF Retry, Return, ScanInv, TypeOK, Held, heap
<1>2. CASE /\ i + call.count < MaxEntries
           /\ pc' = "extend" /\ s' = 0
           /\ UNCHANGED <<ret, refused, i, call, before>>
  <2>1. /\ pc = "retry" /\ UNCHANGED <<heap, blocks>> /\ Running /\ AtRetry
    BY DEF Retry, ScanInv, Running
  <2>2. /\ call.count \in Nat /\ i \in Nat /\ before.current_entry \in Nat
        /\ s' \in 0 .. MaxEntries
    BY <1>2, <2>1, Numbers
  <2>3. WasCleared(i - 1) = WasCleared(i + s - 1)'
    BY <1>2, <2>1, <2>2 DEF WasCleared
  <2>4. AtEntry'
    BY <1>2, <2>1, <2>2, <2>3 DEF AtEntry, AtRetry, Unreached, Running, heap, WasVacant
  <2>5. Passed'
    BY <1>2, <2>1 DEF Running, Passed, WasFit, WasVacant
  <2>6. Running'
    BY <1>2, <2>1, <2>4, <2>5 DEF Running
  <2> QED
    BY <1>2, <2>1, <2>2, <2>6 DEF ScanInv, TypeOK, Held, heap
<1> QED
  BY <1>1, <1>2 DEF Retry

LEMMA ExtendScan ==
  ASSUME ScanInv, Extend
  PROVE  ScanInv'
<1>1. /\ pc = "extend" /\ pc' = "test" /\ Running /\ AtEntry
      /\ UNCHANGED <<AllocPID, data, ret, refused, blocks, i, s, call,
                     before>>
  BY DEF Extend, ScanInv, Running
<1>2. /\ call.count \in Nat /\ i \in Nat /\ s \in Nat
      /\ before.current_entry \in Nat /\ MaxEntries \in Nat
      /\ i + call.count < MaxEntries
  BY <1>1, Numbers DEF AtEntry
<1>3. Passed' /\ WasCleared(i + s - 1)' = WasCleared(i + s - 1)
  BY <1>1 DEF Running, Passed, WasFit, WasVacant, WasCleared
<1>4. \A e \in i .. i + s - 1 : WasVacant(e)'
  BY <1>1 DEF AtEntry, WasVacant
<1>5. CASE i + s >= current_entry
  <2>1. Unreached /\ i + s = before.current_entry
    BY <1>1, <1>2, <1>5 DEF AtEntry, Unreached, Reached
  <2>2. /\ used' = before.used \ New' /\ dirty' = before.dirty \ New'
        /\ skipped' = before.skipped \cup {i + call.count + 1}
        /\ current_entry' = i + call.count + 2
    BY <1>1, <1>2, <1>5, <2>1 DEF Extend, Unreached, New
  <2>3. Reached'
    BY <1>1, <2>2 DEF Reached
  <2>4. AtEntry'
    BY <1>1, <1>2, <1>3, <1>4, <2>1, <2>3 DEF AtEntry
  <2>5. Running'
    BY <1>1, <1>3, <2>4 DEF Running
  <2>6. TypeOK'
    BY <1>1, <1>2, <2>2 DEF Running, HeapStates, ScanInv, TypeOK, Slots
  <2> QED
    BY <1>1, <2>5, <2>6 DEF ScanInv, Held
<1>6. CASE ~(i + s >= current_entry)
  <2>1. UNCHANGED <<used, dirty, current_entry, skipped>>
    BY <1>6 DEF Extend
  <2>2. \/ Unreached /\ i + s < before.current_entry
        \/ Reached /\ before.current_entry <= i + s
    BY <1>1, <1>2, <1>6 DEF AtEntry, Unreached
  <2>3. \/ Unreached' /\ i + s < before.current_entry
        \/ Reached' /\ before.current_entry <= i + s
    BY <1>1, <2>1, <2>2 DEF Unreached, Reached, New
  <2>4. AtEntry'
    BY <1>1, <1>2, <1>3, <1>4, <2>3 DEF AtEntry
  <2>5. Running'
    BY <1>1, <1>3, <2>4 DEF Running
  <2> QED
    BY <1>1, <2>1, <2>5 DEF ScanInv, TypeOK, Held
<1> QED
  BY <1>5, <1>6

LEMMA TestScan ==
  ASSUME ScanInv, Test
  PROVE  ScanInv'
<1>1. /\ pc = "test" /\ Running /\ AtEntry
      /\ UNCHANGED <<current_entry, used, dirty, AllocPID, skipped, ret, refused,
                     blocks, call, before>>
  BY DEF Test, ScanInv, Running
<1>2. /\ call.count \in Nat /\ i \in Nat /\ s \in Nat
      /\ before.current_entry \in Nat /\ MaxEntries \in Nat
      /\ i + call.count < MaxEntries /\ s <= call.count
      /\ i + s \in Slots
  BY <1>1, Numbers DEF AtEntry, Slots
<1>3. /\ \A e : WasVacant(e)' = WasVacant(e)
      /\ \A j : WasFit(j)' = WasFit(j)
      /\ \A last : WasCleared(last)' =
            {e \in 0 .. last : /\ e < before.current_entry
                               /\ e \notin before.used
                               /\ e \in before.dirty}
  BY <1>1 DEF WasVacant, WasFit, WasCleared
<1>4. CASE /\ i + s \in used
           /\ i' = i + s + 1
           /\ pc' = "retry"
           /\ UNCHANGED <<data, s>>
  <2>1. Unreached /\ i + s < before.current_entry
    BY <1>1, <1>2, <1>4 DEF AtEntry, Reached, New
  <2>2. ~WasVacant(i + s)
    BY <1>2, <1>4, <2>1 DEF Unreached, WasVacant
  <2>3. Passed'
    <3> SUFFICES ASSUME NEW j \in 0 .. i + s
                 PROVE  ~WasFit(j)
      BY <1>2, <1>3, <1>4 DEF Passed
    <3>1. CASE j < i
      BY <1>1, <1>2, <3>1 DEF Running, Passed
    <3>2. CASE ~(j < i)
      BY <1>2, <2>2, <3>2 DEF WasFit
    <3> QED
      BY <3>1, <3>2
  <2>4. Restarted'
    <3>1. ASSUME NEW u \in 0 .. i + s - 1, ~WasVacant(u)
          PROVE  u + 1 + call.count < MaxEntries
      BY <1>1, <1>2, <3>1 DEF AtEntry
    <3> QED
      BY <1>1, <1>2, <1>3, <1>4, <2>2, <3>1 DEF Restarted
  <2>5. data = before.data \ WasCleared(i - 1)'
    <3>1. WasCleared(i - 1)' = WasCleared(i + s - 1)
      BY <1>1, <1>2, <1>3, <1>4, <2>2 DEF WasCleared, WasVacant
    <3> QED
      BY <1>1, <3>1 DEF AtEntry
  <2>6. AtRetry'
    BY <1>1, <1>4, <2>1, <2>4, <2>5 DEF AtRetry, Unreached, AtEntry
  <2>7. Running'
    BY <1>1, <1>2, <1>4, <2>1, <2>3, <2>6 DEF Running
  <2> QED
    BY <1>1, <1>2, <1>4, <2>7 DEF ScanInv, TypeOK, Held
<1>5. CASE /\ i + s \notin used
           /\ data' = IF i + s \in dirty THEN data \ {i + s} ELSE data
           /\ IF s < call.count THEN s' = s + 1 /\ pc' = "extend"
                                ELSE s' = 0 /\ pc' = "mark"
           /\ UNCHANGED i
  <2>1. WasVacant(i + s)
    BY <1>1, <1>2, <1>5 DEF AtEntry, Unreached, WasVacant
  <2>2. \A e \in i .. i + s : WasVacant(e)
    BY <1>1, <1>2, <2>1 DEF AtEntry
  <2>3. data' = before.data \ WasCleared(i + s)
    <3>1. CASE Unreached /\ i + s < before.current_entry
      BY <1>1, <1>2, <1>5, <3>1 DEF AtEntry, Unreached, WasCleared
    <3>2. CASE Reached /\ before.current_entry <= i + s
      <4>1. i + s \notin dirty
        BY <1>2, <3>2, Numbers, <1>1 DEF Reached, New
      <4>2. WasCleared(i + s) = WasCleared(i + s - 1)
        BY <1>2, <3>2 DEF WasCleared
      <4> QED
        BY <1>1, <1>5, <4>1, <4>2 DEF AtEntry
    <3> QED
      BY <1>1, <1>2, <3>1, <3>2 DEF AtEntry
  <2>4. Passed'
    BY <1>1, <1>3, <1>5 DEF Running, Passed
  <2>5. data' \subseteq Entries
    BY <1>5 DEF ScanInv, TypeOK
  <2>6. CASE s < call.count
    <3>1. s' = s + 1 /\ pc' = "extend" /\ i' = i
      BY <1>5, <2>6
    <3>2. data' = before.data \ WasCleared(i + s - 1)'
      BY <1>1, <1>2, <1>3, <2>3, <3>1 DEF WasCleared
    <3>3. \A e \in i .. i + s' - 1 : WasVacant(e)'
      BY <1>2, <1>3, <2>2, <3>1
    <3>4. AtEntry'
      BY <1>1, <1>2, <2>6, <3>1, <3>2, <3>3 DEF AtEntry, Unreached, Reached, New
    <3>5. Running'
      BY <1>1, <2>4, <3>1, <3>4 DEF Running
    <3> QED
      BY <1>1, <1>2, <2>5, <2>6, <3>1, <3>5 DEF ScanInv, TypeOK, Held
  <2>7. CASE ~(s < call.count)
    <3>1. s' = 0 /\ pc' = "mark" /\ i' = i /\ s = call.count
      BY <1>2, <1>5, <2>7
    <3>2. WasFit(i)'
      BY <1>2, <1>3, <2>2, <3>1 DEF WasFit
    <3>3. data' = before.data \ WasCleared(i + call.count)'
      BY <1>1, <1>3, <2>3, <3>1 DEF WasCleared
    <3>4. \/ Unreached /\ i + call.count < before.current_entry
          \/ Reached /\ before.current_entry <= i + call.count
      BY <1>1, <1>2, <3>1 DEF AtEntry
    <3>5. /\ used = before.used \ New /\ dirty = before.dirty \ New
          /\ current_entry = IF i + call.count >= before.current_entry
                             THEN i + call.count + 2 ELSE before.current_entry
          /\ skipped = (before.skipped \cup
                          (IF i + call.count >= before.current_entry
                           THEN {i + call.count + 1} ELSE {}))
      BY <1>1, <1>2, <3>4 DEF Unreached, Reached, New
    <3>6. i' .. i' + s' - 1 = {}
      BY <1>2, <3>1
    <3>7. AllocPID' = [e \in Slots |-> IF e \in i' .. i' + s' - 1
                                       THEN call.PID ELSE before.AllocPID[e]]
      <4>1. AllocPID' = before.AllocPID
        BY <1>1 DEF AtEntry
      <4> QED
        BY <1>1, <3>6, <4>1, Numbers
    <3>8. New' = New
      BY <1>1, <3>1 DEF New
    <3>9. AtMark'
      <4>1. /\ used' = (before'.used \ New') \cup (i' .. i' + s' - 1)
            /\ dirty' = (before'.dirty \ New') \cup (i' .. i' + s' - 1)
        BY <1>1, <3>5, <3>6, <3>8
      <4>2. skipped' = (before'.skipped \cup
                    (IF i' + call'.count >= before'.current_entry
                     THEN {i' + call'.count + 1} ELSE {}))
                 \ (i' .. i' + s' - 1)
        BY <1>1, <3>1, <3>5, <3>6
      <4>3. current_entry' = IF i' + call'.count >= before'.current_entry
                             THEN i' + call'.count + 2 ELSE before'.current_entry
        BY <1>1, <3>1, <3>5
      <4>4. s' <= call'.count
        BY <1>1, <1>2, <3>1
      <4> QED
        BY <1>1, <3>2, <3>3, <3>7, <4>1, <4>2, <4>3, <4>4 DEF AtMark
    <3>10. Running'
      BY <1>1, <2>4, <3>1, <3>9 DEF Running
    <3> QED
      BY <1>1, <1>2, <2>5, <3>1, <3>10 DEF ScanInv, TypeOK, Held
  <2> QED
    BY <2>6, <2>7
<1> QED
  BY <1>4, <1>5 DEF Test

LEMMA MarkScan ==
  ASSUME ScanInv, Mark
  PROVE  ScanInv'
<1>1. pc = "mark" /\ Running /\ AtMark
  BY DEF Mark, ScanInv, Running
<1>2. /\ call.count \in Nat \ {0} /\ i \in Nat /\ s \in Nat
      /\ before.current_entry \in Nat /\ MaxEntries \in Nat
      /\ i + call.count < MaxEntries /\ s <= call.count
  BY <1>1, Numbers DEF AtMark, WasFit
<1>3. CASE /\ s < call.count
           /\ used' = used \cup {i + s}
           /\ dirty' = dirty \cup {i + s}
           /\ AllocPID' = [AllocPID EXCEPT ![i + s] = call.PID]
           /\ skipped' = skipped \ {i + s}
           /\ s' = s + 1
           /\ UNCHANGED <<current_entry, data, ret, refused, blocks, pc, i, call, before>>
  <2>1. i .. i' + s' - 1 = (i .. i + s - 1) \cup {i + s}
    BY <1>2, <1>3
  <2>2. AllocPID' = [e \in Slots |-> IF e \in i' .. i' + s' - 1
                                     THEN call.PID ELSE before.AllocPID[e]]
    BY <1>1, <1>2, <1>3, <2>1 DEF AtMark, Slots
  <2>3. WasFit(i)' /\ New' = New /\ Passed'
    BY <1>1, <1>3 DEF AtMark, WasFit, WasVacant, New, Running, Passed
  <2>4. WasCleared(i + call.count)' = WasCleared(i + call.count)
    BY <1>3 DEF WasCleared
  <2>5. /\ used' = (before'.used \ New') \cup (i' .. i' + s' - 1)
        /\ dirty' = (before'.dirty \ New') \cup (i' .. i' + s' - 1)
    BY <1>1, <1>3, <2>1, <2>3 DEF AtMark
  <2>6. skipped' = (before'.skipped \cup
                    (IF i' + call'.count >= before'.current_entry
                     THEN {i' + call'.count + 1} ELSE {}))
                   \ (i' .. i' + s' - 1)
    BY <1>1, <1>3, <2>1 DEF AtMark
  <2>7. AtMark'
    BY <1>1, <1>2, <1>3, <2>2, <2>3, <2>4, <2>5, <2>6 DEF AtMark
  <2>8. Running'
    BY <1>1, <1>3, <2>3, <2>7 DEF Running
  <2>9. AllocPID' \in [Slots -> Pids]
    BY <1>1, <1>3, <2>2, Numbers
  <2>10. i + s \in Slots
    BY <1>2, <1>3 DEF Slots
  <2> QED
    BY <1>2, <1>3, <2>8, <2>9, <2>10 DEF ScanInv, TypeOK, Held
<1>4. CASE /\ s = call.count
           /\ Return(i)
           /\ blocks' = blocks \cup
                 {[start |-> i, len |-> call.count, pid |-> call.PID]}
           /\ UNCHANGED heap
  <2>1. Held'
    BY <1>2, <1>4 DEF ScanInv, Held
  <2>2. pc' = "idle" /\ i' = 0 /\ s' = 0
    BY <1>4 DEF Return
  <2> QED
    BY <1>2, <1>4, <2>1, <2>2 DEF ScanInv, TypeOK, heap
<1> QED
  BY <1>3, <1>4 DEF Mark

\* The other calls start and end between two runs of the loops.
LEMMA OtherScan ==
  ASSUME ScanInv,
         \/ \E b \in blocks : FreeEntries(b)
         \/ \E p \in Pids : FreeAllProcessEntries(p)
         \/ \E b \in blocks : ClientWrite(b)
  PROVE  ScanInv'
<1>1. ASSUME NEW b \in blocks, FreeEntries(b)
      PROVE  ScanInv'
  BY <1>1 DEF FreeEntries, Rest, ScanInv, TypeOK, Held
<1>2. ASSUME NEW p \in Pids, FreeAllProcessEntries(p)
      PROVE  ScanInv'
  BY <1>2 DEF FreeAllProcessEntries, Rest, ScanInv, TypeOK, Held
<1>3. ASSUME NEW b \in blocks, ClientWrite(b)
      PROVE  ScanInv'
  <2>1. b.start \in Nat /\ b.len \in Nat /\ b.start + b.len < MaxEntries
    BY DEF ScanInv, Held
  <2>2. b.start .. b.start + b.len - 1 \subseteq Entries
    BY <2>1, HeapScanAssumption DEF Entries
  <2>3. data' \subseteq Entries
    BY <1>3, <2>2 DEF ClientWrite, ScanInv, TypeOK
  <2> QED
    BY <1>3, <2>3 DEF ClientWrite, ScanInv, TypeOK, Held
<1> QED
  BY <1>1, <1>2, <1>3

LEMMA StutterScan ==
  ASSUME ScanInv, UNCHANGED vars
  PROVE  ScanInv'
<1>1. UNCHANGED <<current_entry, used, dirty, AllocPID, data, skipped, ret, refused,
                  blocks, pc, i, s, call, before>>
  BY DEF vars, heap
<1>2. TypeOK' /\ Held' /\ AllocPID' \in [Slots -> Pids]
  BY <1>1 DEF ScanInv, TypeOK, Held
<1>3. Running => Running'
  BY <1>1 DEF Running, Passed, AtRetry, AtEntry, AtMark, Unreached, Reached,
              Restarted, New, WasFit, WasVacant, WasCleared
<1> QED
  BY <1>1, <1>2, <1>3 DEF ScanInv

THEOREM ScanInvariant == Spec => []ScanInv
<1>1. Init => ScanInv
  BY InitScan
<1>2. ScanInv /\ [Next]_vars => ScanInv'
  BY CallScan, RetryScan, ExtendScan, TestScan, MarkScan, OtherScan, StutterScan
     DEF Next, AllocStep
<1> QED
  BY <1>1, <1>2, PTL DEF Spec

\* AllocEntries never reads an EntryInfo outside the table, never restarts
\* behind current_entry, and extends the table exactly at its end.
THEOREM NeverOutside == Spec => []ScanInBounds
<1>1. ScanInv => ScanInBounds
  <2> SUFFICES ASSUME ScanInv
               PROVE  ScanInBounds
    OBVIOUS
  <2>1. TypeOK
    BY DEF ScanInv
  <2>2. ASSUME pc \in {"extend", "test"}
        PROVE  /\ i + s < MaxEntries /\ i <= current_entry
               /\ pc = "extend" /\ i + s >= current_entry => i + s = current_entry
    <3>1. AtEntry
      BY <2>2 DEF ScanInv, Running
    <3> QED
      BY <2>2, <3>1, Numbers DEF AtEntry, Unreached, Reached
  <2> QED
    BY <2>1, <2>2 DEF ScanInBounds
<1> QED
  BY <1>1, ScanInvariant, PTL

-----------------------------------------------------------------------------
(* The loops implement the steps of Heap. *)

\* During a call Heap is where the call found it.
LEMMA SeenBefore ==
  ASSUME pc # "idle"
  PROVE  /\ Seen = before
         /\ \A e : Atomic!Vacant(e) <=> WasVacant(e)
         /\ \A j : Atomic!Fits(j, call.count) <=> WasFit(j)
         /\ \A last : Atomic!Cleared(0 .. last) = WasCleared(last)
         /\ Atomic!Fresh(i, call.count) = New
<1>1. Seen = before
  BY DEF Seen
<1>2. \A e : Atomic!Vacant(e) <=> WasVacant(e)
  BY <1>1 DEF Atomic!Vacant, WasVacant
<1>3. \A j : Atomic!Fits(j, call.count) <=> WasFit(j)
  BY <1>1 DEF Atomic!Fits, Atomic!Vacant, WasVacant, WasFit
<1> QED
  BY <1>1, <1>2, <1>3 DEF Atomic!Cleared, WasCleared, Atomic!Fresh, New

LEMMA RefusalRefines ==
  ASSUME ScanInv, pc = "retry", i + call.count >= MaxEntries,
         Return(Null), UNCHANGED <<heap, blocks>>
  PROVE  Atomic!AllocFails(call.count)
<1>1. Running /\ AtRetry /\ Unreached /\ Restarted
  BY DEF ScanInv, Running, AtRetry
<1>2. /\ MaxEntries \in Nat /\ i \in Nat /\ call.count \in Nat
      /\ before.current_entry \in Nat /\ before.data \subseteq Entries
  BY Numbers
<1>3. /\ Seen = before /\ Seen' = Snapshot
      /\ UNCHANGED <<current_entry, used, dirty, AllocPID, data, skipped, blocks>>
  BY SeenBefore DEF Return, Seen, Snapshot, heap
<1>4. \A j \in Entries : ~Atomic!Fits(j, call.count)
  <2>1. \A j \in Entries : ~WasFit(j)
    BY <1>1, <1>2 DEF Running, Passed, WasFit, Entries
  <2> QED
    BY <2>1, SeenBefore
<1>5. Seen'.data = IF call.count >= MaxEntries THEN before.data
                   ELSE before.data \ Atomic!Cleared(
                          {e \in Entries : \A u \in Atomic!GaveUpAt(call.count) : e <= u})
  <2>1. Seen'.data = before.data \ WasCleared(i - 1)
    BY <1>1, <1>3 DEF AtRetry, Snapshot
  <2>2. CASE call.count >= MaxEntries
    <3>1. i = 0
      BY <1>1, <1>2, <2>2 DEF Restarted
    <3>2. WasCleared(i - 1) = {}
      BY <3>1 DEF WasCleared
    <3> QED
      BY <2>1, <2>2, <3>2
  <2>3. CASE call.count < MaxEntries
    <3>1. i > 0
      BY <1>2, <2>3
    <3>2. /\ ~WasVacant(i - 1)
          /\ \A u \in 0 .. i - 2 : ~WasVacant(u) => u + 1 + call.count < MaxEntries
      BY <1>1, <3>1 DEF Restarted
    <3>3. i - 1 \in Entries
      BY <1>1, <1>2, <3>1, <3>2 DEF Entries, ScanInv, TypeOK
    <3>4. \A u : u \in Atomic!GaveUpAt(call.count) <=>
                   u \in Entries /\ ~WasVacant(u) /\ u + 1 + call.count >= MaxEntries
      BY SeenBefore DEF Atomic!GaveUpAt, Atomic!Entries, Entries
    <3>5. i - 1 \in Atomic!GaveUpAt(call.count)
      BY <1>2, <3>2, <3>3, <3>4
    <3>6. \A u \in Atomic!GaveUpAt(call.count) : u \in Nat /\ i - 1 <= u
      BY <1>2, <3>2, <3>4 DEF Entries
    <3>7. {e \in Entries : \A u \in Atomic!GaveUpAt(call.count) : e <= u} = 0 .. i - 1
      BY <1>2, <3>3, <3>5, <3>6 DEF Entries
    <3>8. Atomic!Cleared({e \in Entries : \A u \in Atomic!GaveUpAt(call.count) : e <= u})
            = WasCleared(i - 1)
      BY <3>7, SeenBefore
    <3>9. ~(call.count >= MaxEntries)
      BY <1>2, <2>3
    <3> QED
      BY <2>1, <3>8, <3>9
  <2> QED
    BY <1>2, <2>2, <2>3
<1>6. UNCHANGED <<Seen.current_entry, Seen.used, Seen.dirty, Seen.AllocPID,
                  Seen.skipped, blocks>>
  BY <1>1, <1>3 DEF Unreached, AtRetry, Snapshot
<1>7. ret' = Null /\ refused' = call.count
  BY DEF Return
<1> QED
  BY <1>3, <1>4, <1>5, <1>6, <1>7
     DEF Atomic!AllocFails, Atomic!info, Atomic!Entries, Entries, Atomic!Null, Null

LEMMA GrantRefines ==
  ASSUME ScanInv, pc = "mark", s = call.count, Return(i),
         blocks' = blocks \cup
            {[start |-> i, len |-> call.count, pid |-> call.PID]},
         UNCHANGED heap
  PROVE  Atomic!AllocEntries(call.count, call.PID)
<1>1. Running /\ AtMark /\ WasFit(i) /\ Passed
  BY DEF ScanInv, Running, AtMark
<1>2. /\ MaxEntries \in Nat /\ i \in Nat /\ call.count \in Nat \ {0}
      /\ before.current_entry \in Nat
  BY Numbers
<1>3. /\ Seen = before /\ Seen' = Snapshot /\ ret' = i /\ refused' = 0
      /\ UNCHANGED <<current_entry, used, dirty, AllocPID, data, skipped>>
  BY <1>2, SeenBefore DEF Null, Return, Seen, Snapshot, heap
<1>4. i \in Entries
  BY <1>1, <1>2 DEF WasFit, Entries
<1>5. Atomic!Fits(i, call.count) /\ \A j \in 0 .. i - 1 : ~Atomic!Fits(j, call.count)
  BY <1>1, SeenBefore DEF Passed
<1>6. Atomic!Cover(Atomic!Block(i, call.count, call.PID)) = i .. i + s - 1
  BY DEF Atomic!Cover, Atomic!Block
<1>7. /\ Seen'.used = (Seen.used \ New) \cup (i .. i + s - 1)
      /\ Seen'.dirty = (Seen.dirty \ New) \cup (i .. i + s - 1)
      /\ Seen'.AllocPID = [e \in Slots |-> IF e \in i .. i + s - 1
                                 THEN call.PID ELSE Seen.AllocPID[e]]
      /\ Seen'.data = Seen.data \ WasCleared(i + call.count)
      /\ Seen'.current_entry = IF i + call.count >= Seen.current_entry
                               THEN i + call.count + 2 ELSE Seen.current_entry
  BY <1>1, <1>3 DEF AtMark, Snapshot
<1>8. Seen'.skipped = (Seen.skipped \ (i .. i + s - 1)) \cup
                 (IF i + call.count >= Seen.current_entry
                  THEN {i + call.count + 1} ELSE {})
  <2>1. i + call.count + 1 \notin i .. i + s - 1
    BY <1>2
  <2>2. Seen'.skipped = (Seen.skipped \cup
                    (IF i + call.count >= Seen.current_entry
                     THEN {i + call.count + 1} ELSE {}))
                   \ (i .. i + s - 1)
    BY <1>1, <1>3 DEF AtMark, Snapshot
  <2> QED
    BY <2>1, <2>2
<1>9. Atomic!AllocAt(i, call.count, call.PID)
  BY <1>3, <1>6, <1>7, <1>8, SeenBefore
     DEF Atomic!AllocAt, Atomic!Block, Atomic!Slots, Slots
<1> QED
  BY <1>4, <1>5, <1>9 DEF Atomic!AllocEntries, Atomic!Entries, Entries

\* Every other step of the loops leaves Heap where it is.
LEMMA ScanStutters ==
  ASSUME pc # "idle", pc' # "idle", UNCHANGED <<ret, refused, blocks, before>>
  PROVE  UNCHANGED Atomic!vars
  BY DEF Seen, Atomic!vars

LEMMA StepRefines ==
  ASSUME ScanInv, [Next]_vars
  PROVE  [Atomic!Next]_(Atomic!vars)
<1>1. ASSUME NEW n \in Counts, NEW p \in Pids, Call(n, p)
      PROVE  UNCHANGED Atomic!vars
  <2>1. /\ pc = "idle" /\ pc' = "retry" /\ before' = Snapshot
        /\ UNCHANGED <<ret, refused, blocks>>
    BY <1>1 DEF Call
  <2>2. Seen' = Seen
    BY <2>1 DEF Seen
  <2> QED
    BY <2>1, <2>2 DEF Atomic!vars
<1>2. ASSUME Retry
      PROVE  [Atomic!Next]_(Atomic!vars)
  <2>1. CASE i + call.count >= MaxEntries /\ Return(Null)
    <3>1. Atomic!AllocFails(call.count) /\ call.count \in Counts
      BY <1>2, <2>1, RefusalRefines, Numbers DEF Retry
    <3> QED
      BY <3>1 DEF Atomic!Next
  <2>2. CASE pc' = "extend" /\ UNCHANGED <<ret, refused, i, call, before>>
    BY <1>2, <2>2, ScanStutters DEF Retry
  <2> QED
    BY <1>2, <2>1, <2>2 DEF Retry
<1>3. ASSUME Extend
      PROVE  UNCHANGED Atomic!vars
  BY <1>3, ScanStutters DEF Extend
<1>4. ASSUME Test
      PROVE  UNCHANGED Atomic!vars
  BY <1>4, ScanStutters DEF Test
<1>5. ASSUME Mark
      PROVE  [Atomic!Next]_(Atomic!vars)
  <2>1. CASE UNCHANGED <<ret, refused, blocks, pc, before>>
    BY <1>5, <2>1, ScanStutters DEF Mark
  <2>2. CASE /\ s = call.count
             /\ Return(i)
             /\ blocks' = blocks \cup
                   {[start |-> i, len |-> call.count, pid |-> call.PID]}
             /\ UNCHANGED heap
    <3>1. /\ Atomic!AllocEntries(call.count, call.PID)
          /\ call.count \in Counts /\ call.PID \in Pids
      BY <1>5, <2>2, GrantRefines, Numbers DEF Mark
    <3> QED
      BY <3>1 DEF Atomic!Next
  <2> QED
    BY <1>5, <2>1, <2>2 DEF Mark
<1>6. ASSUME NEW b \in blocks, FreeEntries(b)
      PROVE  Atomic!FreeEntries(b)
  <2>1. Seen = Snapshot /\ Seen' = Snapshot'
    BY <1>6 DEF FreeEntries, Rest, Seen
  <2> QED
    BY <1>6, <2>1 DEF FreeEntries, Rest, Snapshot, Atomic!FreeEntries, Atomic!Cover
<1>7. ASSUME NEW p \in Pids, FreeAllProcessEntries(p)
      PROVE  Atomic!FreeAllProcessEntries(p)
  <2>1. Seen = Snapshot /\ Seen' = Snapshot'
    BY <1>7 DEF FreeAllProcessEntries, Rest, Seen
  <2> QED
    BY <1>7, <2>1 DEF FreeAllProcessEntries, Rest, Snapshot, Atomic!FreeAllProcessEntries
<1>8. ASSUME NEW b \in blocks, ClientWrite(b)
      PROVE  Atomic!ClientWrite(b)
  <2>1. Seen = Snapshot /\ Seen' = Snapshot'
    BY <1>8 DEF ClientWrite, Seen
  <2> QED
    BY <1>8, <2>1 DEF ClientWrite, Snapshot, Atomic!ClientWrite, Atomic!Cover, Atomic!info
<1>9. CASE UNCHANGED vars
  <2>1. Seen' = Seen
    BY <1>9 DEF vars, heap, Seen, Snapshot
  <2> QED
    BY <1>9, <2>1 DEF vars, Atomic!vars
<1> QED
  BY <1>1, <1>2, <1>3, <1>4, <1>5, <1>6, <1>7, <1>8, <1>9
     DEF Next, AllocStep, Atomic!Next

\* What Heap states of AllocEntries in one step is what its loops do: the
\* lowest fitting run, the same pages cleared, the same table left behind,
\* and a null result exactly when no run fits (heap.cpp, AllocEntries).
THEOREM ScanImplementsHeap == Spec => ImplementsHeap
<1>1. Init => Atomic!Init
  BY DEF Init, Seen, Snapshot, Atomic!Init, Atomic!Slots, Slots, Atomic!Null, Null
<1>2. ScanInv /\ [Next]_vars => [Atomic!Next]_(Atomic!vars)
  BY StepRefines
<1> QED
  BY <1>1, <1>2, ScanInvariant, PTL DEF Spec, ImplementsHeap, Atomic!Spec
=============================================================================
