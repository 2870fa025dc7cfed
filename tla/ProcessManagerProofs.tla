------------------------ MODULE ProcessManagerProofs ------------------------
(***************************************************************************)
(* Theorems about the scheduler and the system calls, for any number of    *)
(* modules and, where not said otherwise, with kernel code putting any     *)
(* processes into any states.                                              *)
(***************************************************************************)
EXTENDS ProcessManager, FiniteSetTheorems, TLAPS

USE ProcessAssumption

\* As much of the types as the argument needs; that the table never shrinks
\* below zero is a matter of counting and not needed.
Typed ==
    /\ booted \in BOOLEAN
    /\ DOMAIN state = Procs
    /\ pid \in [Procs -> Procs]
    /\ ctx \in [Procs -> Context]
    /\ DOMAIN processes_heap = Buffer
    /\ num \in Int /\ num <= Modules + 1
    /\ processes_count = num
    /\ current_thread \in Procs
    /\ cpu \in Context
    /\ progress \in [Procs -> 0 .. Steps - 1]
    /\ cr3 \in Procs \cup {Kernel}

\* Every slot of the table holds a process.
TableFilled == \A j \in Buffer : j < num => At(j) \in Procs

\* The saved registers of a process are its own, or those of kernel code.
OwnContexts == \A p \in Procs : ctx[p].code \in Procs => ctx[p].code = p

\* Before the timer handler is registered only boot code runs.
BootAlone == ~booted => cpu.code = BootLoop /\ cr3 = Kernel /\ ~started

CallerInv ==
    /\ Typed
    /\ TableFilled
    /\ OwnContexts
    /\ BootAlone
    /\ SyscallActsOnCaller
    /\ DeadNeverRuns
    /\ OwnAddressSpace

\* Codes outside Procs are told apart from processes by their sign.
LEMMA CodesApart ==
    /\ BootLoop \notin Procs /\ end_handle \notin Procs
    /\ SwitchLoop \notin Procs /\ Halted \notin Procs
    /\ Kernel \notin Procs /\ Wild \notin Procs
    /\ \A c \in {BootLoop, end_handle, SwitchLoop, Halted} :
          Code(c) \in Context /\ Code(c).code = c
BY DEF BootLoop, end_handle, SwitchLoop, Halted, Kernel, Wild, Procs, Code, Context

\* Indices of the table are indices of the buffer.
LEMMA BufferIndices ==
    ASSUME Typed, NEW j \in Int, 0 <= j, j < num
    PROVE  j \in Buffer /\ j \in Procs
<1>1. num \in Int /\ num <= Modules + 1
  BY DEF Typed
<1> QED
  BY <1>1 DEF Buffer, Procs

LEMMA InitCaller == Init => CallerInv
<1> SUFFICES ASSUME Init PROVE CallerInv
  OBVIOUS
<1>1. Typed
  <2>1. 0 \in Procs /\ 0 \in 0 .. Steps - 1 /\ Modules \in Nat
    BY DEF Procs
  <2>2. cpu \in Context
    BY CodesApart DEF Init
  <2>3. \A p \in Procs : [code |-> p, at |-> 0] \in Context
    BY <2>1 DEF Context
  <2>4. ctx \in [Procs -> Context]
    BY <2>3 DEF Init
  <2>5. /\ pid \in [Procs -> Procs]
        /\ progress \in [Procs -> 0 .. Steps - 1]
    BY <2>1 DEF Init
  <2> QED
    <3>1. /\ booted \in BOOLEAN /\ DOMAIN state = Procs
          /\ DOMAIN processes_heap = Buffer /\ cr3 = Kernel
      BY DEF Init
    <3>2. num \in Int /\ num <= Modules + 1 /\ processes_count = num
      BY <2>1 DEF Init
    <3>3. current_thread \in Procs
      BY <2>1 DEF Init
    <3> QED
      BY <2>2, <2>4, <2>5, <3>1, <3>2, <3>3 DEF Typed
<1>2. TableFilled
  BY DEF Init, TableFilled, Buffer
<1>3. OwnContexts
  BY DEF Init, OwnContexts
<1>4. BootAlone /\ SyscallActsOnCaller /\ DeadNeverRuns /\ OwnAddressSpace
  BY CodesApart DEF Init, BootAlone, SyscallActsOnCaller, DeadNeverRuns,
                    OwnAddressSpace, Code
<1> QED
  BY <1>1, <1>2, <1>3, <1>4 DEF CallerInv

LEMMA CreateCaller == CallerInv /\ Create => CallerInv'
<1> SUFFICES ASSUME CallerInv, Create PROVE CallerInv'
  OBVIOUS
<1> USE DEF CallerInv
<1>1. /\ processes_count \in Procs /\ num \in Procs /\ num \in Buffer
      /\ ~booted /\ cpu.code = BootLoop /\ cr3 = Kernel /\ ~started
  BY DEF Create, Typed, BootAlone, Buffer, Procs
<1>2. /\ state' = [state EXCEPT ![processes_count] = "running"]
      /\ pid' = [pid EXCEPT ![processes_count] = processes_count]
      /\ processes_heap' = [processes_heap EXCEPT ![num] = processes_count]
      /\ num' = num + 1
      /\ processes_count' = processes_count + 1
      /\ UNCHANGED <<booted, ctx, current_thread, started, cpu, cr3, progress>>
  BY DEF Create
<1>3. Typed'
  <2>1. pid' \in [Procs -> Procs]
    BY <1>1, <1>2 DEF Typed
  <2>2. num' \in Int /\ num' <= Modules + 1 /\ processes_count' = num'
    BY <1>1, <1>2 DEF Typed, Procs
  <2>3. DOMAIN state' = Procs /\ DOMAIN processes_heap' = Buffer
    BY <1>2 DEF Typed
  <2> QED
    BY <1>2, <2>1, <2>2, <2>3 DEF Typed
<1>4. TableFilled'
  BY <1>1, <1>2 DEF Typed, TableFilled, At, Buffer
<1>5. OwnContexts' /\ BootAlone'
  BY <1>2 DEF OwnContexts, BootAlone
<1>6. SyscallActsOnCaller' /\ DeadNeverRuns' /\ OwnAddressSpace'
  BY <1>1, <1>2, CodesApart DEF SyscallActsOnCaller, DeadNeverRuns, OwnAddressSpace
<1> QED
  BY <1>3, <1>4, <1>5, <1>6

LEMMA RegisterCaller == CallerInv /\ RegisterHandler => CallerInv'
<1> SUFFICES ASSUME CallerInv, RegisterHandler PROVE CallerInv'
  OBVIOUS
<1>1. booted' /\ UNCHANGED <<state, pid, ctx, table, current_thread, started,
                             cpu, cr3, progress>>
  BY DEF RegisterHandler
<1> QED
  BY <1>1 DEF CallerInv, Typed, TableFilled, OwnContexts, BootAlone, At, table,
              SyscallActsOnCaller, DeadNeverRuns, OwnAddressSpace

\* What a tick saves are a process's own registers, because the slot it saves
\* them in is the running process's.
LEMMA SavedOwn ==
    ASSUME CallerInv, Tick
    PROVE  /\ Saved \in [Procs -> Context]
           /\ \A p \in Procs : Saved[p].code \in Procs => Saved[p].code = p
<1>1. CASE ~started
  BY <1>1 DEF Saved, CallerInv, Typed, OwnContexts
<1>2. CASE started
  <2>1. Saved = [ctx EXCEPT ![At(current_thread)] = cpu]
    BY <1>2 DEF Saved
  <2> QED
    BY <2>1 DEF CallerInv, Typed, OwnContexts, SyscallActsOnCaller
<1> QED
  BY <1>1, <1>2

LEMMA TickCaller == CallerInv /\ Tick => CallerInv'
<1> SUFFICES ASSUME CallerInv, Tick PROVE CallerInv'
  OBVIOUS
<1>1. /\ ctx' = Saved /\ booted
      /\ UNCHANGED <<booted, state, pid, table, progress>>
  BY DEF Tick, Interruptible
<1>2. TableFilled' /\ OwnContexts' /\ BootAlone'
  BY <1>1, SavedOwn DEF CallerInv, TableFilled, OwnContexts, BootAlone, At, table
<1>3. CASE Ready(zeross') = {}
  <2>1. cpu' = Code(SwitchLoop) /\ cr3' = Kernel /\ UNCHANGED current_thread
    BY <1>3 DEF Tick
  <2>2. cpu' \in Context /\ cpu'.code \notin Procs
    BY <2>1, CodesApart
  <2>3. Typed'
    BY <1>1, <2>1, <2>2, SavedOwn DEF CallerInv, Typed, table
  <2>4. SyscallActsOnCaller' /\ DeadNeverRuns' /\ OwnAddressSpace'
    BY <2>1, <2>2 DEF SyscallActsOnCaller, DeadNeverRuns, OwnAddressSpace
  <2> QED
    BY <1>2, <2>3, <2>4 DEF CallerInv
<1>4. CASE Ready(zeross') # {}
  <2>1. PICK j \in Ready(zeross') : /\ current_thread' = j
                                    /\ cpu' = Saved[At(j)]
                                    /\ cr3' = At(j)
    BY <1>4 DEF Tick
  <2>2. j \in Buffer /\ j \in Procs /\ At(j) \in Procs /\ state[At(j)] = "running"
    BY BufferIndices DEF Ready, CallerInv, Typed, TableFilled
  <2>3. Typed'
    BY <1>1, <2>1, <2>2, SavedOwn DEF CallerInv, Typed, table
  <2>4. At(j)' = At(j) /\ state' = state
    BY <1>1 DEF At, table
  <2>5. cpu'.code \in Procs => cpu'.code = At(j)
    BY <2>1, <2>2, SavedOwn
  <2>6. SyscallActsOnCaller' /\ DeadNeverRuns' /\ OwnAddressSpace'
    BY <1>1, <2>1, <2>2, <2>4, <2>5
       DEF SyscallActsOnCaller, DeadNeverRuns, OwnAddressSpace, At, table
  <2> QED
    BY <1>2, <2>3, <2>6 DEF CallerInv
<1> QED
  BY <1>3, <1>4

\* Programs, faults and the system calls that leave the table alone.
LEMMA ProgramCaller ==
    ASSUME CallerInv, NEW p \in Procs,
           \/ Execute(p) \/ Fault(p) \/ SysPalloc(p) \/ SysPallocRefused(p)
           \/ ReturnFromMain(p) \/ StoreBehindObject(p) \/ TickSavesWild
    PROVE  CallerInv'
<1>1. /\ UNCHANGED <<booted, state, pid, ctx, table, current_thread, started>>
      /\ booted
  BY DEF Execute, Fault, SysPalloc, SysPallocRefused, ReturnFromMain, Calls,
         StoreBehindObject, TickSavesWild, Running, Interruptible
<1>2. TableFilled' /\ OwnContexts' /\ BootAlone'
  BY <1>1 DEF CallerInv, TableFilled, OwnContexts, BootAlone, At, table
<1>3. cpu' \in Context /\ (cpu'.code = cpu.code \/ cpu'.code \notin Procs)
  <2>1. CASE Execute(p)
    BY <2>1, CodesApart DEF Execute, CallerInv, Typed, Context
  <2>2. CASE Fault(p)
    BY <2>2, CodesApart DEF Fault
  <2>3. CASE ~Execute(p) /\ ~Fault(p)
    BY <2>3 DEF SysPalloc, SysPallocRefused, ReturnFromMain, StoreBehindObject,
                TickSavesWild, CallerInv, Typed
  <2> QED
    BY <2>1, <2>2, <2>3
<1>4. \/ cr3' = cr3
      \/ cr3' = Kernel
      \/ cr3' = At(current_thread) /\ cr3' = p /\ cpu.code = p
  BY DEF Execute, Fault, SysPalloc, SysPallocRefused, ReturnFromMain, Calls,
         StoreBehindObject, TickSavesWild, Running, CallerInv, SyscallActsOnCaller
<1>5. progress' \in [Procs -> 0 .. Steps - 1]
  <2>1. progress \in [Procs -> 0 .. Steps - 1]
    BY DEF CallerInv, Typed
  <2>2. (progress[p] + 1) % Steps \in 0 .. Steps - 1
    BY <2>1
  <2>3. \/ progress' = [progress EXCEPT ![p] = (@ + 1) % Steps]
        \/ UNCHANGED progress
    BY DEF Execute, Fault, SysPalloc, SysPallocRefused, ReturnFromMain,
           StoreBehindObject, TickSavesWild
  <2> QED
    BY <2>1, <2>2, <2>3
<1>6. Typed'
  BY <1>1, <1>3, <1>4, <1>5 DEF CallerInv, Typed, table
<1>7. SyscallActsOnCaller' /\ DeadNeverRuns'
  BY <1>1, <1>3 DEF CallerInv, SyscallActsOnCaller, DeadNeverRuns, At, table
<1>8. OwnAddressSpace'
  BY <1>1, <1>4, CodesApart
     DEF CallerInv, OwnAddressSpace, DeadNeverRuns, At, table
<1> QED
  BY <1>2, <1>6, <1>7, <1>8 DEF CallerInv

\* remove leaves a process in every slot that remains.
LEMMA RemovedFilled ==
    ASSUME Typed, TableFilled, NEW pos \in Procs, NEW j \in Buffer, j < num - 1
    PROVE  Removed(pos)[j] \in Procs
<1>1. j \in Int /\ 0 <= j /\ num \in Int
  BY DEF Typed, Buffer
<1>2. j + 1 < num /\ j + 1 \in Buffer
  BY <1>1, BufferIndices
<1>3. At(j) \in Procs /\ At(j + 1) \in Procs
  BY <1>1, <1>2 DEF TableFilled
<1> QED
  BY <1>3 DEF Removed

LEMMA ExitCaller ==
    ASSUME CallerInv, NEW p \in Procs, SysExit(p)
    PROVE  CallerInv'
<1>1. booted /\ At(current_thread) = p
  BY DEF SysExit, SigKill, Destroy, Calls, Running, Interruptible, CallerInv, SyscallActsOnCaller
<1>2. /\ state' = [state EXCEPT ![p] = "dead"]
      /\ cr3' = Kernel
      /\ cpu' = Code(end_handle)
      /\ UNCHANGED <<booted, pid, ctx, current_thread, started, progress>>
  BY <1>1 DEF SysExit, SigKill, Destroy
<1>3. \/ UNCHANGED table
      \/ /\ processes_heap' = Removed(pid[p])
         /\ num' = num - 1
         /\ processes_count' = processes_count - 1
  BY <1>1 DEF SysExit, SigKill, Destroy
<1>4. cpu' \in Context /\ cpu'.code \notin Procs
  BY <1>2, CodesApart
<1>5. Typed'
  BY <1>2, <1>3, <1>4 DEF CallerInv, Typed, Removed, table
<1>6. TableFilled'
  <2>1. CASE UNCHANGED table
    BY <2>1 DEF CallerInv, TableFilled, At, table
  <2>2. CASE processes_heap' = Removed(pid[p]) /\ num' = num - 1
    <3>1. pid[p] \in Procs
      BY DEF CallerInv, Typed
    <3>2. \A j \in Buffer : j < num - 1 => Removed(pid[p])[j] \in Procs
      BY <3>1, RemovedFilled DEF CallerInv
    <3> QED
      BY <2>2, <3>2 DEF TableFilled, At
  <2> QED
    BY <1>3, <2>1, <2>2
<1>7. OwnContexts' /\ BootAlone'
  BY <1>1, <1>2 DEF CallerInv, OwnContexts, BootAlone
<1>8. SyscallActsOnCaller' /\ DeadNeverRuns' /\ OwnAddressSpace'
  BY <1>2, <1>4 DEF SyscallActsOnCaller, DeadNeverRuns, OwnAddressSpace
<1> QED
  BY <1>5, <1>6, <1>7, <1>8 DEF CallerInv

LEMMA SignalCaller ==
    ASSUME CallerInv, NEW p \in Signalled, NEW s \in Signals, Signal(p, s)
    PROVE  CallerInv'
<1>1. /\ state' = [state EXCEPT ![p] = s]
      /\ UNCHANGED <<booted, pid, ctx, table, current_thread, started, cpu, cr3,
                     progress>>
  BY DEF Signal
<1>2. p \in Procs /\ s # "dead"
  BY DEF AliveStates
<1>3. \A q \in Procs : state'[q] = "dead" => state[q] = "dead"
  BY <1>1, <1>2 DEF CallerInv, Typed
<1>4. Typed' /\ TableFilled' /\ OwnContexts' /\ BootAlone' /\ SyscallActsOnCaller'
  BY <1>1 DEF CallerInv, Typed, TableFilled, OwnContexts, BootAlone, At, table,
              SyscallActsOnCaller
<1>5. DeadNeverRuns' /\ OwnAddressSpace'
  <2>1. cr3 # Kernel => cr3 \in Procs
    BY DEF CallerInv, Typed
  <2> QED
    BY <1>1, <1>3, <2>1 DEF CallerInv, DeadNeverRuns, OwnAddressSpace, At, table
<1> QED
  BY <1>4, <1>5 DEF CallerInv

LEMMA StepCaller == CallerInv /\ [Next]_vars => CallerInv'
<1> SUFFICES ASSUME CallerInv, [Next]_vars PROVE CallerInv'
  OBVIOUS
<1>1. CASE Create
  BY <1>1, CreateCaller
<1>2. CASE RegisterHandler
  BY <1>2, RegisterCaller
<1>3. CASE Tick
  BY <1>3, TickCaller
<1>4. CASE TickSavesWild
  <2>1. 0 \in Procs
    BY DEF Procs
  <2> QED
    BY <1>4, <2>1, ProgramCaller
<1>5. CASE \E p \in Procs : SysExit(p)
  BY <1>5, ExitCaller
<1>6. CASE \E p \in Procs : \/ Execute(p) \/ Fault(p) \/ SysPalloc(p)
                            \/ SysPallocRefused(p) \/ ReturnFromMain(p)
                            \/ StoreBehindObject(p)
  BY <1>6, ProgramCaller
<1>7. CASE \E p \in Signalled, s \in Signals : Signal(p, s)
  BY <1>7, SignalCaller
<1>8. CASE UNCHANGED vars
  BY <1>8 DEF vars, CallerInv, Typed, TableFilled, OwnContexts, BootAlone, At,
              table, SyscallActsOnCaller, DeadNeverRuns, OwnAddressSpace
<1> QED
  BY <1>1, <1>2, <1>3, <1>4, <1>5, <1>6, <1>7, <1>8 DEF Next

\* GetCurrentProcess is always the process that makes the system call.
THEOREM CallerIsCurrent == Spec => []SyscallActsOnCaller
<1>1. CallerInv => SyscallActsOnCaller
  BY DEF CallerInv
<1> QED
  BY <1>1, InitCaller, StepCaller, PTL DEF Spec

\* A process that has exited never gets the processor again.
THEOREM DeadStayOff == Spec => []DeadNeverRuns
<1>1. CallerInv => DeadNeverRuns
  BY DEF CallerInv
<1> QED
  BY <1>1, InitCaller, StepCaller, PTL DEF Spec

\* The processor uses the kernel's page directory or that of the live process
\* in the current slot, never one that exit has destroyed.
THEOREM AddressSpaceIsOwn == Spec => []OwnAddressSpace
<1>1. CallerInv => OwnAddressSpace
  BY DEF CallerInv
<1> QED
  BY <1>1, InitCaller, StepCaller, PTL DEF Spec

-----------------------------------------------------------------------------
(* Saved registers *)

\* The boot loop runs until the first dispatch and never again.
StartInv ==
    /\ started => cpu.code # BootLoop
    /\ ~started => cpu.code \notin Procs
    /\ \A p \in Procs : ctx[p].code # BootLoop

LEMMA InitStart == Init => StartInv
BY CodesApart DEF Init, StartInv

LEMMA StepStart == CallerInv /\ StartInv /\ [Next]_vars => StartInv'
<1> SUFFICES ASSUME CallerInv, StartInv, [Next]_vars PROVE StartInv'
  OBVIOUS
<1>1. CASE Create \/ RegisterHandler \/ TickSavesWild
  <2>1. UNCHANGED <<ctx, cpu, started>>
    BY <1>1 DEF Create, RegisterHandler, TickSavesWild
  <2> QED
    BY <2>1 DEF StartInv
<1>2. CASE Tick
  <2>1. started => \A p \in Procs : Saved[p].code # BootLoop
    BY DEF Saved, StartInv, CallerInv, Typed
  <2>2. ~started => \A p \in Procs : Saved[p].code # BootLoop
    BY DEF Saved, StartInv
  <2>3. CASE Ready(zeross') = {}
    BY <1>2, <2>1, <2>2, <2>3, CodesApart
       DEF Tick, StartInv, BootLoop, SwitchLoop, Code
  <2>4. CASE Ready(zeross') # {}
    <3>1. PICK j \in Ready(zeross') : cpu' = Saved[At(j)] /\ started' = TRUE
      BY <1>2, <2>4 DEF Tick
    <3>2. At(j) \in Procs
      BY BufferIndices DEF Ready, CallerInv, Typed, TableFilled
    <3>3. ctx' = Saved
      BY <1>2 DEF Tick
    <3> QED
      BY <2>1, <2>2, <3>1, <3>2, <3>3 DEF StartInv
  <2> QED
    BY <2>3, <2>4
<1>3. CASE \E p \in Procs : \/ Execute(p) \/ Fault(p) \/ SysExit(p) \/ SysPalloc(p)
                            \/ SysPallocRefused(p) \/ ReturnFromMain(p)
                            \/ StoreBehindObject(p)
  <2>1. cpu.code \in Procs /\ UNCHANGED <<started, ctx>>
    BY <1>3 DEF Execute, Fault, SysExit, SigKill, Destroy, SysPalloc, SysPallocRefused, Running,
                ReturnFromMain, StoreBehindObject, Calls
  <2>2. cpu'.code \in {cpu.code, end_handle, Halted}
    <3>1. PICK p \in Procs : \/ Execute(p) \/ Fault(p) \/ SysExit(p) \/ SysPalloc(p)
                            \/ SysPallocRefused(p) \/ ReturnFromMain(p)
                            \/ StoreBehindObject(p)
      BY <1>3
    <3>2. cpu \in Context
      BY DEF CallerInv, Typed
    <3>3. CASE Execute(p) \/ Fault(p)
      BY <3>2, <3>3, CodesApart DEF Execute, Fault, Context
    <3>4. CASE SysExit(p)
      BY <3>4, CodesApart DEF SysExit
    <3>5. CASE SysPalloc(p) \/ SysPallocRefused(p) \/ ReturnFromMain(p) \/ StoreBehindObject(p)
      BY <3>2, <3>5 DEF SysPalloc, SysPallocRefused, ReturnFromMain, StoreBehindObject, Context
    <3> QED
      BY <3>1, <3>3, <3>4, <3>5
  <2> QED
    BY <2>1, <2>2, CodesApart DEF StartInv, BootLoop, end_handle, Halted
<1>4. CASE \E p \in Signalled, s \in Signals : Signal(p, s)
  BY <1>4 DEF Signal, StartInv
<1>5. CASE UNCHANGED vars
  BY <1>5 DEF vars, StartInv
<1> QED
  BY <1>1, <1>2, <1>3, <1>4, <1>5 DEF Next

LEMMA ContextLoss ==
    ASSUME CallerInv, StartInv, [Next]_vars
    PROVE  \A p \in Procs : ctx'[p] # ctx[p] => cpu.code \in {p, end_handle}
<1> SUFFICES ASSUME NEW p \in Procs, ctx'[p] # ctx[p]
             PROVE  cpu.code \in {p, end_handle}
  OBVIOUS
<1>1. Tick
  BY DEF Next, vars, Create, RegisterHandler, TickSavesWild, Execute, Fault,
     SysExit, SigKill, Destroy, SysPalloc, SysPallocRefused, ReturnFromMain, StoreBehindObject,
     Signal
<1>2. started /\ At(current_thread) = p
  BY <1>1 DEF Tick, Saved, CallerInv, Typed
<1>3. cpu.code \notin {BootLoop, SwitchLoop, Halted}
  BY <1>1, <1>2 DEF Tick, Interruptible, StartInv
<1>4. cpu.code \in Procs \cup {end_handle}
  BY <1>3 DEF CallerInv, Typed, Context
<1> QED
  BY <1>2, <1>4 DEF CallerInv, SyscallActsOnCaller

\* The registers saved for a process are overwritten by a tick that interrupts
\* that process or end_handle, and in no other way.
THEOREM ContextLostOnlyByExit == Spec => ContextLostOnlyAfterExit
BY InitCaller, StepCaller, InitStart, StepStart, ContextLoss, PTL
   DEF Spec, ContextLostOnlyAfterExit

\* A process that does not run and has not exited will resume where it stopped.
ResumeInv ==
    /\ Resumes
    /\ ~booted => \A p \in Procs : state[p] # "dead"
    /\ \A p \in Procs :
          /\ state[p] # "dead" /\ ctx[p].code = p
          /\ cpu.code # p /\ cpu.code # Halted
          => ctx[p].at = progress[p]

LEMMA InitResume == Init => ResumeInv
BY CodesApart DEF Init, ResumeInv, Resumes

LEMMA TickResume ==
    ASSUME CallerInv, StartInv, ResumeInv, Tick
    PROVE  ResumeInv'
<1>1. /\ ctx' = Saved
      /\ UNCHANGED <<state, progress, booted>>
      /\ cpu.code # Halted
  BY DEF Tick, Interruptible
<1>2. ASSUME NEW p \in Procs, state[p] # "dead", Saved[p].code = p
      PROVE  Saved[p].at = progress[p]
  <2>1. CASE ~started
    BY <1>1, <1>2, <2>1 DEF Saved, StartInv, ResumeInv
  <2>2. CASE started /\ p = At(current_thread)
    <3>1. Saved[p] = cpu
      BY <2>2 DEF Saved, CallerInv, Typed
    <3> QED
      BY <1>2, <3>1 DEF ResumeInv, Resumes
  <2>3. CASE started /\ p # At(current_thread)
    <3>1. Saved[p] = ctx[p]
      BY <2>3 DEF Saved, CallerInv, Typed
    <3>2. cpu.code # p
      BY <2>3 DEF CallerInv, SyscallActsOnCaller
    <3> QED
      BY <1>1, <1>2, <3>1, <3>2 DEF ResumeInv
  <2> QED
    BY <2>1, <2>2, <2>3
<1>3. Resumes'
  <2>1. CASE Ready(zeross') = {}
    BY <2>1, CodesApart DEF Tick, Resumes
  <2>2. CASE Ready(zeross') # {}
    <3>1. PICK j \in Ready(zeross') : cpu' = Saved[At(j)]
      BY <2>2 DEF Tick
    <3>2. At(j) \in Procs /\ state[At(j)] # "dead"
      BY <3>1, BufferIndices DEF Ready, CallerInv, Typed, TableFilled
    <3> QED
      BY <1>1, <1>2, <3>1, <3>2, SavedOwn DEF Resumes
  <2> QED
    BY <2>1, <2>2
<1> QED
  BY <1>1, <1>2, <1>3 DEF ResumeInv

LEMMA StepResume ==
    Signals = {} /\ CallerInv /\ StartInv /\ ResumeInv /\ [Next]_vars => ResumeInv'
<1> SUFFICES ASSUME Signals = {}, CallerInv, StartInv, ResumeInv, [Next]_vars
             PROVE  ResumeInv'
  OBVIOUS
<1>1. CASE Tick
  BY <1>1, TickResume
<1>2. CASE Create
  <2>1. processes_count \in Procs /\ cpu.code \notin Procs /\ cpu.code # Halted
    BY <1>2, CodesApart DEF Create, CallerInv, BootAlone, BootLoop, Halted
  <2>2. ~started /\ UNCHANGED <<ctx, cpu, progress>>
    BY <1>2 DEF Create, CallerInv, BootAlone
  <2>3. ~booted /\ \A p \in Procs : state[p] # "dead" /\ state'[p] # "dead"
    BY <1>2 DEF Create, ResumeInv, CallerInv, Typed
  <2> QED
    BY <2>1, <2>2, <2>3 DEF ResumeInv, Resumes
<1>3. CASE RegisterHandler \/ TickSavesWild
  BY <1>3 DEF RegisterHandler, TickSavesWild, ResumeInv, Resumes
<1>4. ASSUME NEW p \in Procs, Execute(p) PROVE ResumeInv'
  <2>1. /\ cpu.code = p /\ UNCHANGED <<ctx, state, booted>>
    BY <1>4 DEF Execute, Running
  <2>2. CASE p = 0 \/ cr3 = p
    <3>1. /\ cpu' = [cpu EXCEPT !.at = (@ + 1) % Steps]
          /\ progress' = [progress EXCEPT ![p] = (@ + 1) % Steps]
      BY <1>4, <2>2 DEF Execute
    <3>2. cpu'.code = p /\ cpu'.at = (cpu.at + 1) % Steps
      BY <2>1, <3>1 DEF CallerInv, Typed, Context
    <3>3. progress'[p] = (progress[p] + 1) % Steps
      BY <3>1 DEF CallerInv, Typed
    <3>4. \A q \in Procs : q # p => progress'[q] = progress[q]
      BY <3>1 DEF CallerInv, Typed
    <3>5. Halted # p
      BY CodesApart
    <3> QED
      BY <2>1, <3>2, <3>3, <3>4, <3>5 DEF ResumeInv, Resumes
  <2>3. CASE ~(p = 0 \/ cr3 = p)
    BY <1>4, <2>3, CodesApart DEF Execute, ResumeInv, Resumes
  <2> QED
    BY <2>2, <2>3
<1>5. ASSUME NEW p \in Procs, Fault(p) PROVE ResumeInv'
  BY <1>5, CodesApart DEF Fault, ResumeInv, Resumes
<1>6. ASSUME NEW p \in Procs, SysExit(p) PROVE ResumeInv'
  <2>1. /\ cpu.code = p /\ At(current_thread) = p
        /\ booted'
    BY <1>6 DEF SysExit, SigKill, Destroy, Calls, Running, Interruptible, CallerInv,
                SyscallActsOnCaller
  <2>2. /\ state' = [state EXCEPT ![p] = "dead"]
        /\ UNCHANGED <<ctx, progress>>
        /\ cpu'.code = end_handle
    BY <1>6, <2>1, CodesApart DEF SysExit, SigKill, Destroy
  <2>3. \A q \in Procs : state'[q] # "dead" => q # p /\ state[q] # "dead"
    BY <2>2 DEF CallerInv, Typed
  <2>4. cpu.code # Halted
    BY <2>1, CodesApart
  <2> QED
    BY <2>1, <2>2, <2>3, <2>4, CodesApart DEF ResumeInv, Resumes
<1>7. ASSUME NEW p \in Procs,
             SysPalloc(p) \/ SysPallocRefused(p) \/ ReturnFromMain(p) \/ StoreBehindObject(p)
      PROVE  ResumeInv'
  BY <1>7 DEF SysPalloc, SysPallocRefused, ReturnFromMain, StoreBehindObject,
     ResumeInv, Resumes
<1>8. CASE UNCHANGED vars
  BY <1>8 DEF vars, ResumeInv, Resumes
<1> QED
  BY <1>1, <1>2, <1>3, <1>4, <1>5, <1>6, <1>7, <1>8 DEF Next

\* Whatever the interleaving of ticks, exits and other calls, a process that is
\* given the processor continues exactly where it lost it, as long as nobody
\* changes its state from outside.
THEOREM ProcessesResume == Signals = {} /\ Spec => []Resumes
<1> SUFFICES ASSUME Signals = {} PROVE Spec => []Resumes
  OBVIOUS
<1>1. ResumeInv => Resumes
  BY DEF ResumeInv
<1>2. CallerInv /\ StartInv /\ ResumeInv /\ [Next]_vars => ResumeInv'
  BY StepResume
<1> QED
  BY <1>1, <1>2, InitCaller, StepCaller, InitStart, StepStart, InitResume,
     PTL DEF Spec

-----------------------------------------------------------------------------
(* Nothing undefined before the first exit, or with one module *)

NoneDead == \A p \in Procs : state[p] # "dead"

\* Until a process exits the table lists all of them in the order of creation,
\* which is that of their pids, and the current slot is one of theirs.
TableWhole ==
    NoneDead =>
       /\ num >= 0
       /\ \A p \in Procs : state[p] # "none" <=> p < num
       /\ \A p \in Procs : p < num => At(p) = p /\ pid[p] = p
       /\ started => current_thread < num

\* With one module the exit leaves its pointer in the slot behind the table, so
\* that a tick that still finds it there writes to the object it belonged to.
OneLeft ==
    OneModule /\ ~NoneDead =>
       /\ 1 \in Procs /\ num = 1
       /\ At(0) = 0 /\ At(1) = 1
       /\ state[0] # "dead" /\ state[1] = "dead"
       /\ current_thread \in {0, 1}

DefinedInv ==
    /\ TableWhole
    /\ OneLeft
    /\ ~booted => NoneDead /\ ruin = "none"
    /\ \A p \in Procs : state[p] \in {"none", "running", "dead"}
    /\ WellDefined

LEMMA CapacityOfTwo == ~(0 >= Capacity(2))
<1>. DEFINE Powers == {2 ^ k : k \in 0 .. 2}
            Least(c) == c >= 2 /\ \A d \in Powers : d >= 2 => c <= d
<1>1. 2 ^ 0 = 1 /\ 2 ^ 1 = 2 /\ 2 ^ 2 = 4
  OBVIOUS
<1>2. Powers = {1, 2, 4}
  <2>1. \A k \in 0 .. 2 : k = 0 \/ k = 1 \/ k = 2
    OBVIOUS
  <2>. QED BY <1>1, <2>1
<1>3. Capacity(2) = CHOOSE c \in Powers : Least(c)
  BY DEF Capacity
<1>. HIDE DEF Powers
<1>4. 2 \in Powers /\ Least(2)
  BY <1>2
<1>. HIDE DEF Least
<1>5. Capacity(2) \in Powers
  BY <1>3, <1>4
<1>. QED BY <1>2, <1>5

LEMMA OneModuleTable ==
    ASSUME CallerInv, TableWhole, NoneDead, OneModule, NEW p \in Procs, p # 0,
           state[p] # "none"
    PROVE  /\ p = 1 /\ num = 2 /\ Created = {0, 1}
           /\ At(0) = 0 /\ At(1) = 1 /\ pid[1] = 1
           /\ 0 \in Buffer /\ 1 \in Buffer
<1>1. num \in Int /\ num <= Modules + 1 /\ Modules \in Nat
  BY DEF CallerInv, Typed
<1>2. p = 1 /\ p < num
  BY DEF OneModule, Created, TableWhole
<1>3. ~(num > 2)
  <2> SUFFICES ASSUME num > 2 PROVE FALSE
    BY <1>1
  <2>1. 2 \in Procs
    BY <1>1 DEF Procs
  <2>2. 2 \in Created
    BY <2>1 DEF TableWhole, Created
  <2>. QED BY <2>2 DEF OneModule
<1>4. num = 2 /\ 0 \in Procs /\ 1 \in Procs
  BY <1>1, <1>2, <1>3 DEF Procs
<1>5. 0 \in Buffer /\ 1 \in Buffer
  BY <1>1 DEF Buffer
<1>6. \A q \in Procs : q < num => q \in Created /\ At(q) = q /\ pid[q] = q
  BY DEF TableWhole, Created
<1>7. Created = {0, 1}
  <2>1. 0 \in Created /\ 1 \in Created
    BY <1>4, <1>6
  <2>. QED BY <2>1 DEF OneModule
<1>8. At(0) = 0 /\ At(1) = 1 /\ pid[1] = 1
  BY <1>4, <1>6
<1>. QED BY <1>2, <1>4, <1>5, <1>7, <1>8

LEMMA InitDefined == Init => DefinedInv
<1> SUFFICES ASSUME Init PROVE DefinedInv
  OBVIOUS
<1>1. /\ \A p \in Procs : state[p] = "none"
      /\ num = 0 /\ ~started /\ ruin = "none"
  BY DEF Init
<1>2. \A p \in Procs : p \in Int /\ ~(p < 0)
  BY DEF Procs
<1>3. TableWhole /\ NoneDead
  <2>1. NoneDead
    BY <1>1 DEF NoneDead
  <2>2. \A p \in Procs : ~(p < num)
    BY <1>1, <1>2
  <2>. QED BY <1>1, <2>1, <2>2 DEF TableWhole
<1>4. OneLeft /\ WellDefined
  BY <1>1, <1>3 DEF OneLeft, WellDefined
<1>. QED BY <1>1, <1>3, <1>4 DEF DefinedInv

LEMMA CreateDefined ==
    ASSUME CallerInv, DefinedInv, Create
    PROVE  DefinedInv'
<1>1. /\ processes_count \in Procs /\ num = processes_count /\ num \in Procs
      /\ num \in Buffer /\ NoneDead /\ ~started /\ ~booted
  BY DEF Create, CallerInv, Typed, BootAlone, Buffer, Procs, DefinedInv
<1>2. /\ state' = [state EXCEPT ![num] = "running"]
      /\ pid' = [pid EXCEPT ![num] = num]
      /\ processes_heap' = [processes_heap EXCEPT ![num] = num]
      /\ num' = num + 1
      /\ UNCHANGED <<booted, started, ruin, palloced>>
  BY <1>1 DEF Create
<1>3. /\ \A p \in Procs : state'[p] = IF p = num THEN "running" ELSE state[p]
      /\ \A p \in Procs : pid'[p] = IF p = num THEN num ELSE pid[p]
      /\ \A p \in Procs : At(p)' = IF p = num THEN num ELSE At(p)
  <2>1. \A p \in Procs : p \in Buffer
    BY DEF Procs, Buffer
  <2>. QED BY <1>1, <1>2, <2>1 DEF CallerInv, Typed, At
<1>4. NoneDead'
  BY <1>1, <1>3 DEF NoneDead
<1>5. TableWhole'
  <2>1. \A p \in Procs : p \in Int
    BY DEF Procs
  <2>2. \A p \in Procs : p < num' <=> p < num \/ p = num
    BY <1>1, <1>2, <2>1
  <2>3. num' >= 0
    BY <1>1, <1>2 DEF Procs
  <2>. QED BY <1>1, <1>2, <1>3, <2>2, <2>3 DEF DefinedInv, TableWhole
<1>6. WellDefined'
  <2>1. ruin = "none"
    BY <1>1 DEF DefinedInv
  <2>. QED BY <1>2, <2>1 DEF WellDefined
<1>. QED BY <1>1, <1>2, <1>3, <1>4, <1>5, <1>6 DEF DefinedInv, OneLeft

LEMMA TickDefined ==
    ASSUME CallerInv, DefinedInv, Tick
    PROVE  DefinedInv'
<1>1. UNCHANGED <<booted, state, pid, table, palloced, ruin>>
  BY DEF Tick
<1>2. \/ UNCHANGED <<current_thread, started>>
      \/ started' /\ current_thread' \in Ready(zeross')
  BY DEF Tick
<1>3. \A j \in Ready(zeross') : j \in Int /\ 0 <= j /\ j < num
  BY DEF Ready, CallerInv, Typed
<1>4. TableWhole'
  BY <1>1, <1>2, <1>3 DEF DefinedInv, TableWhole, NoneDead, At, table
<1>5. OneLeft'
  <2>1. num = 1 => \A j \in Ready(zeross') : j = 0
    BY <1>3
  <2>. QED BY <1>1, <1>2, <2>1
           DEF DefinedInv, OneLeft, OneModule, Created, NoneDead, At, table
<1>. QED BY <1>1, <1>4, <1>5
         DEF DefinedInv, NoneDead, WellDefined, OneModule, Created

LEMMA WildDefined ==
    ASSUME CallerInv, DefinedInv, TickSavesWild
    PROVE  DefinedInv'
<1>1. /\ UNCHANGED <<booted, state, pid, table, palloced, current_thread, started>>
      /\ started /\ At(current_thread) = Wild /\ ruin' = "wild save"
      /\ current_thread \in Procs
      /\ booted'
  BY DEF TickSavesWild, Interruptible, CallerInv, Typed
<1>2. ~NoneDead
  BY <1>1, CodesApart DEF DefinedInv, TableWhole
<1>3. ~OneModule
  BY <1>1, <1>2, CodesApart DEF DefinedInv, OneLeft, Wild
<1>4. TableWhole' /\ OneLeft'
  BY <1>1, <1>2, <1>3
     DEF DefinedInv, TableWhole, OneLeft, NoneDead, OneModule, Created
<1>5. WellDefined'
  BY <1>1, <1>2, <1>3 DEF WellDefined, OneModule, Created, NoneDead
<1>. QED BY <1>1, <1>4, <1>5 DEF DefinedInv, NoneDead

\* The one module that can exit is the one there is, and it is in its place.
LEMMA ExitOfOnly ==
    ASSUME CallerInv, StartInv, DefinedInv, NEW p \in Procs, SysExit(p), OneModule'
    PROVE  /\ OneModule /\ NoneDead /\ p = 1 /\ current_thread = 1 /\ 0 \in Procs
           /\ state[p] # "none" /\ num = 2 /\ Created = {0, 1}
           /\ At(0) = 0 /\ At(1) = 1 /\ pid[1] = 1
           /\ 0 \in Buffer /\ 1 \in Buffer
<1>1. /\ cpu.code = p /\ p # 0 /\ started
      /\ At(current_thread) = p /\ state[p] # "dead"
  BY DEF SysExit, Calls, Running, Interruptible, CallerInv, SyscallActsOnCaller,
         DeadNeverRuns, StartInv
<1>2. state' = [state EXCEPT ![p] = "dead"]
  BY <1>1 DEF SysExit, SigKill
<1>3. /\ state'[p] = "dead"
      /\ \A q \in Procs : q # p => state'[q] = state[q]
  BY <1>2 DEF CallerInv, Typed
<1>4. OneModule /\ p = 1
  <2>1. \A q \in Created : q \in Created'
    BY <1>3 DEF Created
  <2>2. p \in Created'
    BY <1>3 DEF Created
  <2>. QED BY <1>1, <2>1, <2>2 DEF OneModule
<1>5. NoneDead
  BY <1>1, <1>4 DEF DefinedInv, OneLeft
<1>6. state[p] # "none" /\ current_thread = p
  <2>1. current_thread \in Procs
    BY DEF CallerInv, Typed
  <2>. QED BY <1>1, <1>5, <2>1 DEF DefinedInv, TableWhole
<1>7. /\ num = 2 /\ Created = {0, 1} /\ At(0) = 0 /\ At(1) = 1 /\ pid[1] = 1
      /\ 0 \in Buffer /\ 1 \in Buffer
  BY <1>1, <1>4, <1>5, <1>6, OneModuleTable DEF DefinedInv
<1>8. 0 \in Procs
  BY <1>7 DEF Created
<1>. QED BY <1>4, <1>5, <1>6, <1>7, <1>8

LEMMA ExitDefined ==
    ASSUME CallerInv, StartInv, DefinedInv, NEW p \in Procs, SysExit(p)
    PROVE  DefinedInv'
<1>1. /\ booted /\ At(current_thread) = p /\ ruin = "none"
  BY DEF SysExit, Calls, Running, Interruptible, CallerInv, SyscallActsOnCaller
<1>2. /\ SigKill(p) /\ state' = [state EXCEPT ![p] = "dead"]
      /\ UNCHANGED <<booted, pid, current_thread, started, palloced>>
  BY <1>1 DEF SysExit, SigKill
<1>3. /\ state'[p] = "dead"
      /\ \A q \in Procs : q # p => state'[q] = state[q]
  BY <1>2 DEF CallerInv, Typed
<1>4. ~NoneDead'
  BY <1>3 DEF NoneDead
<1>5. CASE ~OneModule'
  BY <1>1, <1>2, <1>3, <1>4, <1>5
     DEF DefinedInv, TableWhole, OneLeft, NoneDead, WellDefined
<1>6. CASE OneModule'
  <2>1. /\ NoneDead /\ p = 1 /\ current_thread = 1 /\ 0 \in Procs
        /\ state[p] # "none" /\ num = 2 /\ Created = {0, 1}
        /\ At(0) = 0 /\ At(1) = 1 /\ pid[1] = 1
        /\ 0 \in Buffer /\ 1 \in Buffer
    BY <1>6, ExitOfOnly
  <2>2. Alive(p)
    BY <2>1 DEF DefinedInv, NoneDead, Alive, AliveStates
  <2>3. /\ processes_heap' = Removed(1)
        /\ num' = num - 1
        /\ ruin' = IF Overruns(1) THEN "overrun" ELSE ruin
    BY <1>2, <2>1, <2>2 DEF SigKill, Destroy
  <2>4. num' = 1 /\ At(0)' = 0 /\ At(1)' = 1
    BY <2>1, <2>3 DEF Removed, At
  <2>5. ruin' = "none"
    <3>1. Cardinality({0, 1}) = 2
      <4>1. Cardinality({0}) = 1 /\ IsFiniteSet({0})
        BY FS_Singleton
      <4>2. Cardinality({0} \cup {1}) = Cardinality({0}) + 1
        <5>1. 1 \notin {0}
          OBVIOUS
        <5>. QED BY <4>1, <5>1, FS_AddElement
      <4>3. {0, 1} = {0} \cup {1}
        OBVIOUS
      <4>. QED BY <4>1, <4>2, <4>3
    <3>2. ~Overruns(1)
      BY <2>1, <3>1, CapacityOfTwo DEF Overruns
    <3>. QED BY <1>1, <2>3, <3>2
  <2>6. state'[0] # "dead"
    BY <1>3, <2>1 DEF NoneDead
  <2>7. OneLeft'
    BY <1>2, <1>3, <2>1, <2>4, <2>6 DEF OneLeft
  <2>. QED BY <1>1, <1>2, <1>3, <1>4, <2>5, <2>7
           DEF DefinedInv, TableWhole, NoneDead, WellDefined
<1>. QED BY <1>5, <1>6

\* Only another process can find one that has exited.
LEMMA ProgramDefined ==
    ASSUME CallerInv, DefinedInv, NEW p \in Procs,
           \/ Execute(p) \/ Fault(p) \/ SysPalloc(p) \/ SysPallocRefused(p)
           \/ ReturnFromMain(p) \/ StoreBehindObject(p)
    PROVE  DefinedInv'
<1>1. /\ UNCHANGED <<booted, state, pid, table, current_thread, started>>
      /\ Running(p) /\ ruin = "none" /\ booted'
  <2>1. /\ UNCHANGED <<booted, state, pid, table, current_thread, started>>
        /\ Running(p) /\ ruin = "none"
    BY DEF Execute, Fault, SysPalloc, SysPallocRefused, ReturnFromMain, Calls,
           StoreBehindObject, Running, Interruptible
  <2>2. booted
    BY <2>1 DEF Running, Interruptible
  <2>3. booted'
    BY <2>1, <2>2
  <2>. QED BY <2>1, <2>3
<1>2. TableWhole' /\ OneLeft'
      /\ \A q \in Procs : state'[q] \in {"none", "running", "dead"}
  BY <1>1 DEF DefinedInv, TableWhole, OneLeft, NoneDead, OneModule, Created, At,
              table
<1>3. CASE ruin' = "none"
  BY <1>1, <1>2, <1>3 DEF DefinedInv, WellDefined
<1>4. CASE SysPalloc(p) /\ ruin' # "none"
  <2>1. ruin' = "reuse" /\ p # 0 /\ ~NoneDead
    BY <1>1, <1>4 DEF SysPalloc, Calls, NoneDead
  <2>2. At(current_thread) = p /\ state[p] # "dead"
    BY <1>1 DEF Running, CallerInv, SyscallActsOnCaller, DeadNeverRuns
  <2>3. ~OneModule
    BY <2>1, <2>2 DEF DefinedInv, OneLeft
  <2>. QED BY <1>1, <1>2, <2>1, <2>3
           DEF DefinedInv, WellDefined, NoneDead, OneModule, Created
<1>5. CASE StoreBehindObject(p)
  <2>1. ruin' = "control block" /\ palloced' = p
    BY <1>5 DEF StoreBehindObject
  <2>. QED BY <1>1, <1>2, <2>1, CodesApart DEF DefinedInv, WellDefined, Nobody, Wild
<1>6. CASE Execute(p) \/ Fault(p) \/ SysPallocRefused(p) \/ ReturnFromMain(p)
  BY <1>1, <1>3, <1>6 DEF Execute, Fault, SysPallocRefused, ReturnFromMain
<1>. QED BY <1>3, <1>4, <1>5, <1>6

LEMMA StepDefined ==
    Signals = {} /\ CallerInv /\ StartInv /\ DefinedInv /\ [Next]_vars => DefinedInv'
<1> SUFFICES ASSUME Signals = {}, CallerInv, StartInv, DefinedInv, [Next]_vars
             PROVE  DefinedInv'
  OBVIOUS
<1>1. CASE Create
  BY <1>1, CreateDefined
<1>2. CASE RegisterHandler \/ UNCHANGED vars
  <2>1. UNCHANGED <<state, pid, table, current_thread, started, palloced, ruin>>
        /\ (booted => booted')
    BY <1>2 DEF RegisterHandler, vars
  <2>. QED BY <2>1 DEF DefinedInv, TableWhole, OneLeft, NoneDead, WellDefined,
                       OneModule, Created, At, table
<1>3. CASE Tick
  BY <1>3, TickDefined
<1>4. CASE TickSavesWild
  BY <1>4, WildDefined
<1>5. ASSUME NEW p \in Procs, SysExit(p) PROVE DefinedInv'
  BY <1>5, ExitDefined
<1>6. ASSUME NEW p \in Procs,
             \/ Execute(p) \/ Fault(p) \/ SysPalloc(p) \/ SysPallocRefused(p)
             \/ ReturnFromMain(p) \/ StoreBehindObject(p)
      PROVE  DefinedInv'
  BY <1>6, ProgramDefined
<1>. QED BY <1>1, <1>2, <1>3, <1>4, <1>5, <1>6 DEF Next

\* Whatever the ticks, system calls and faults of the one module do, no register
\* is saved through a wild pointer, remove does not overrun the table and no
\* memory in use is handed out; with more modules not before an exit or palloc.
\* Nobody changes a process's state from outside.
THEOREM DefinedUntilExit == Signals = {} /\ Spec => []WellDefined
<1> SUFFICES ASSUME Signals = {} PROVE Spec => []WellDefined
  OBVIOUS
<1>1. DefinedInv => WellDefined
  BY DEF DefinedInv
<1>2. CallerInv /\ StartInv /\ DefinedInv /\ [Next]_vars => DefinedInv'
  BY StepDefined
<1> QED
  BY <1>1, <1>2, InitCaller, StepCaller, InitStart, StepStart, InitDefined,
     PTL DEF Spec

\* end_handle runs only after an exit, and with one module only until the next
\* tick, which saves its registers in the object of the process that exited.
HandleInv ==
    /\ NoneDead => /\ cpu.code # end_handle
                   /\ \A p \in Procs : ctx[p].code # end_handle
    /\ OneModule /\ ~NoneDead => /\ ctx[0].code # end_handle
                                 /\ cpu.code = end_handle => At(current_thread) = 1

LEMMA InitHandle == Init => HandleInv
<1> SUFFICES ASSUME Init PROVE HandleInv
  OBVIOUS
<1>1. NoneDead
  BY DEF Init, NoneDead
<1>2. cpu.code = BootLoop /\ \A p \in Procs : ctx[p].code = p
  BY CodesApart DEF Init
<1>. QED BY <1>1, <1>2, CodesApart DEF HandleInv, BootLoop, end_handle

LEMMA TickHandle ==
    ASSUME CallerInv, DefinedInv, HandleInv, Tick
    PROVE  HandleInv'
<1>1. /\ ctx' = Saved /\ UNCHANGED <<state, table>>
      /\ num = processes_count
  BY DEF Tick, CallerInv, Typed
<1>2. SwitchLoop # end_handle /\ Code(SwitchLoop).code = SwitchLoop
  BY CodesApart DEF SwitchLoop, end_handle
<1>3. CASE NoneDead
  <2>1. \A p \in Procs : Saved[p].code # end_handle
    BY <1>3 DEF Saved, HandleInv, CallerInv, Typed
  <2>2. cpu'.code # end_handle
    <3>1. CASE Ready(zeross') = {}
      BY <1>2, <3>1 DEF Tick
    <3>2. CASE Ready(zeross') # {}
      <4>1. PICK j \in Ready(zeross') : cpu' = Saved[At(j)]
        BY <3>2 DEF Tick
      <4>2. At(j) \in Procs
        BY BufferIndices DEF Ready, CallerInv, Typed, TableFilled
      <4>. QED BY <2>1, <4>1, <4>2
    <3>. QED BY <3>1, <3>2
  <2>. QED BY <1>1, <1>3, <2>1, <2>2 DEF HandleInv, NoneDead
<1>4. CASE ~NoneDead /\ OneModule
  <2>1. /\ num = 1 /\ At(0) = 0 /\ 0 \in Procs
    BY <1>4 DEF DefinedInv, OneLeft, Procs
  <2>2. Saved[0].code # end_handle
    BY <1>4, <2>1 DEF Saved, HandleInv, CallerInv, Typed
  <2>3. cpu'.code # end_handle
    <3>1. CASE Ready(zeross') = {}
      BY <1>2, <3>1 DEF Tick
    <3>2. CASE Ready(zeross') # {}
      <4>1. PICK j \in Ready(zeross') : cpu' = Saved[At(j)]
        BY <3>2 DEF Tick
      <4>2. j = 0
        BY <1>1, <2>1 DEF Ready
      <4>. QED BY <2>1, <2>2, <4>1, <4>2
    <3>. QED BY <3>1, <3>2
  <2>. QED BY <1>1, <1>4, <2>2, <2>3 DEF HandleInv, NoneDead
<1>5. CASE ~NoneDead /\ ~OneModule
  BY <1>1, <1>5 DEF HandleInv, NoneDead, OneModule, Created
<1>. QED BY <1>3, <1>4, <1>5

LEMMA StepHandle ==
    /\ Signals = {} /\ CallerInv /\ StartInv /\ DefinedInv /\ HandleInv
    /\ [Next]_vars
    => HandleInv'
<1> SUFFICES ASSUME Signals = {}, CallerInv, StartInv, DefinedInv, HandleInv,
                    [Next]_vars
             PROVE  HandleInv'
  OBVIOUS
<1>1. CASE Create
  <2>1. NoneDead /\ UNCHANGED <<ctx, cpu>>
    BY <1>1 DEF Create, DefinedInv
  <2>2. NoneDead'
    BY <1>1, <2>1 DEF Create, NoneDead, CallerInv, Typed
  <2>. QED BY <2>1, <2>2 DEF HandleInv
<1>2. CASE RegisterHandler \/ TickSavesWild \/ UNCHANGED vars
  BY <1>2 DEF RegisterHandler, TickSavesWild, vars, table, HandleInv, NoneDead,
              OneModule, Created, At
<1>3. CASE Tick
  BY <1>3, TickHandle
<1>4. ASSUME NEW p \in Procs, SysExit(p)
      PROVE  HandleInv'
  <2>1. At(current_thread) = p
    BY <1>4 DEF SysExit, Calls, Running, CallerInv, SyscallActsOnCaller
  <2>2. /\ state'[p] = "dead"
        /\ UNCHANGED <<ctx, current_thread>>
    BY <1>4, <2>1 DEF SysExit, SigKill, CallerInv, Typed
  <2>3. ~NoneDead'
    BY <2>2 DEF NoneDead
  <2>4. CASE OneModule'
    <3>1. NoneDead /\ 0 \in Procs /\ current_thread = 1
      BY <1>4, <2>4, ExitOfOnly
    <3>2. At(1)' = 1
      <4>1. DefinedInv'
        BY <1>4, ExitDefined
      <4>. QED BY <2>3, <2>4, <4>1 DEF DefinedInv, OneLeft
    <3>3. At(current_thread)' = 1
      BY <2>2, <3>1, <3>2 DEF At
    <3>. QED BY <2>2, <2>3, <3>1, <3>3 DEF HandleInv
  <2>5. CASE ~OneModule'
    BY <2>3, <2>5 DEF HandleInv
  <2>. QED BY <2>4, <2>5
<1>5. ASSUME NEW p \in Procs,
             \/ Execute(p) \/ Fault(p) \/ SysPalloc(p) \/ SysPallocRefused(p)
             \/ ReturnFromMain(p) \/ StoreBehindObject(p)
      PROVE  HandleInv'
  <2>1. UNCHANGED <<state, table, current_thread, ctx>>
    BY <1>5 DEF Execute, Fault, SysPalloc, SysPallocRefused, ReturnFromMain,
                StoreBehindObject
  <2>2. cpu'.code \in {cpu.code, Halted}
    <3>1. cpu \in Context
      BY DEF CallerInv, Typed
    <3>2. CASE Execute(p) \/ Fault(p)
      BY <3>1, <3>2, CodesApart DEF Execute, Fault, Context
    <3>3. CASE SysPalloc(p) \/ SysPallocRefused(p) \/ ReturnFromMain(p) \/ StoreBehindObject(p)
      BY <3>3 DEF SysPalloc, SysPallocRefused, ReturnFromMain, StoreBehindObject
    <3> QED
      BY <1>5, <3>2, <3>3
  <2>. QED BY <2>1, <2>2 DEF HandleInv, NoneDead, OneModule, Created, At, table,
                             Halted, end_handle
<1>. QED BY <1>1, <1>2, <1>3, <1>4, <1>5 DEF Next

LEMMA OnlyOwnTick ==
    ASSUME CallerInv, StartInv, DefinedInv, HandleInv, [Next]_vars, OneModule,
           NEW p \in Procs, state[p] # "dead", ctx'[p] # ctx[p]
    PROVE  cpu.code = p
<1>1. cpu.code \in {p, end_handle}
  BY ContextLoss
<1>2. Tick
  BY DEF Next, vars, Create, RegisterHandler, TickSavesWild, Execute, Fault,
     SysExit, SigKill, Destroy, SysPalloc, SysPallocRefused, ReturnFromMain,
     StoreBehindObject, Signal
<1>3. At(current_thread) = p
  BY <1>2 DEF Tick, Saved, CallerInv, Typed
<1>4. cpu.code = end_handle => At(current_thread) = 1 /\ state[1] = "dead"
  BY DEF HandleInv, DefinedInv, OneLeft
<1>. QED BY <1>1, <1>3, <1>4

\* With one module no tick, not even one that interrupts end_handle, overwrites
\* the saved registers of a process that has not exited.  Nobody changes a
\* process's state from outside.
THEOREM ContextSurvivesExit == Signals = {} /\ Spec => ContextKept
<1> SUFFICES ASSUME Signals = {} PROVE Spec => ContextKept
  OBVIOUS
<1>1. CallerInv /\ StartInv /\ DefinedInv /\ [Next]_vars => DefinedInv'
  BY StepDefined
<1>2. CallerInv /\ StartInv /\ DefinedInv /\ HandleInv /\ [Next]_vars => HandleInv'
  BY StepHandle
<1>3. CallerInv /\ StartInv /\ DefinedInv /\ HandleInv /\ [Next]_vars
      => (OneModule => \A p \in Procs :
             state[p] # "dead" /\ ctx'[p] # ctx[p] => cpu.code = p)
  BY OnlyOwnTick
<1> QED
  BY <1>1, <1>2, <1>3, InitCaller, StepCaller, InitStart, StepStart, InitDefined,
     InitHandle, PTL DEF Spec, ContextKept

-----------------------------------------------------------------------------
(* The table is exact.  Destroy goes to the index that equals the pid and   *)
(* does not look whether the table is still that long: what matters is what *)
(* lies behind it.                                                          *)

Living(p) == state[p] \notin {"none", "dead"}

\* Nothing in the buffer has ever moved up.
Slid ==
    \A j \in Buffer :
       At(j) # Wild => At(j) \in Procs /\ At(j) >= j /\ state[At(j)] # "none"

\* Until the timer handler is registered processes are created in order.
Booting ==
    ~booted =>
        /\ ~misremoved
        /\ \A j \in Buffer : At(j) = IF j < num THEN j ELSE Wild
        /\ \A p \in Procs : Living(p) <=> p < num
        /\ \A p \in Procs : state[p] # "dead"

\* The table is sorted and lists the living, and an index behind it that would
\* be taken for a living process's is that of the last entry's.
Listed ==
    /\ \A j, k \in 0 .. num - 1 : j < k => At(j) < At(k)
    /\ \A j \in 0 .. num - 1 : At(j) \in Procs /\ Living(At(j))
    /\ \A p \in Procs : Living(p) => \E j \in 0 .. num - 1 : At(j) = p
    /\ \A p \in Procs : Living(p) /\ p >= num /\ At(p) = p => At(num - 1) = p

TableInv ==
    /\ \A p \in Procs : state[p] \in AliveStates \cup {"none", "dead"}
    /\ \A p \in Procs : state[p] # "none" => pid[p] = p
    /\ Slid
    /\ Booting
    /\ ~misremoved => Listed

LEMMA ProcsInBuffer ==
    /\ \A j \in Procs : j \in Int /\ j >= 0 /\ j \in Buffer /\ j + 1 \in Buffer
    /\ \A j \in Buffer : j \in Int /\ j >= 0
    /\ \A j \in Procs : j # Wild
BY DEF Procs, Buffer, Wild

LEMMA InitTable == Init => TableInv
<1> SUFFICES ASSUME Init PROVE TableInv
  OBVIOUS
<1>1. /\ \A p \in Procs : state[p] = "none" /\ ~Living(p)
      /\ \A j \in Buffer : At(j) = Wild
      /\ num = 0 /\ ~misremoved
  BY DEF Init, At, Living
<1>2. Booting
  BY <1>1, ProcsInBuffer DEF Booting
<1>3. Listed
  BY <1>1, ProcsInBuffer DEF Listed
<1> QED
  BY <1>1, <1>2, <1>3 DEF TableInv, Slid

\* Before the handler is registered the table is the identity.
LEMMA BootListed ==
    ASSUME Typed, ~booted, Booting
    PROVE  Listed
<1>1. \A j \in Buffer : At(j) = IF j < num THEN j ELSE Wild
  BY DEF Booting
<1>2. \A p \in Procs : Living(p) <=> p < num
  BY DEF Booting
<1>3. ASSUME NEW j \in 0 .. num - 1
      PROVE  j \in Buffer /\ j \in Procs /\ j \in Int /\ At(j) = j /\ j < num
  <2>1. num \in Int /\ 0 <= j /\ j < num
    BY DEF Typed
  <2> QED
    BY <1>1, <2>1, BufferIndices
<1>4. ASSUME NEW p \in Procs, Living(p)
      PROVE  \E j \in 0 .. num - 1 : At(j) = p
  <2>1. p \in 0 .. num - 1
    BY <1>2, <1>4, ProcsInBuffer DEF Typed
  <2> QED
    BY <2>1, <1>3
<1>5. \A p \in Procs : ~(p >= num /\ At(p) = p)
  BY <1>1, ProcsInBuffer DEF Typed
<1>6. \A j, k \in 0 .. num - 1 : j < k => At(j) < At(k)
  BY <1>3
<1>7. \A j \in 0 .. num - 1 : At(j) \in Procs /\ Living(At(j))
  BY <1>2, <1>3
<1> QED
  BY <1>4, <1>5, <1>6, <1>7 DEF Listed

LEMMA CreateTable ==
    ASSUME CallerInv, TableInv, Create
    PROVE  TableInv'
<1>1. /\ num \in Procs /\ num \in Buffer /\ num \in Int /\ ~booted
      /\ state' = [state EXCEPT ![num] = "running"]
      /\ pid' = [pid EXCEPT ![num] = num]
      /\ processes_heap' = [processes_heap EXCEPT ![num] = num]
      /\ num' = num + 1
      /\ UNCHANGED <<booted, misremoved>>
  BY ProcsInBuffer DEF Create, CallerInv, Typed
<1>2. /\ \A p \in Procs : state'[p] = IF p = num THEN "running" ELSE state[p]
      /\ \A p \in Procs : pid'[p] = IF p = num THEN num ELSE pid[p]
      /\ \A j \in Buffer : At(j)' = IF j = num THEN num ELSE At(j)
  BY <1>1 DEF CallerInv, Typed, At
<1>3. /\ ~misremoved
      /\ \A j \in Buffer : At(j) = IF j < num THEN j ELSE Wild
      /\ \A p \in Procs : Living(p) <=> p < num
      /\ \A p \in Procs : state[p] # "dead"
  BY <1>1 DEF TableInv, Booting
<1>4. Booting'
  <2>1. ASSUME NEW j \in Buffer
        PROVE  At(j)' = IF j < num + 1 THEN j ELSE Wild
    BY <1>1, <1>2, <1>3, ProcsInBuffer
  <2>2. ASSUME NEW p \in Procs
        PROVE  (Living(p)' <=> p < num + 1) /\ state'[p] # "dead"
    <3>1. CASE p = num
      BY <3>1, <1>1, <1>2 DEF Living
    <3>2. CASE p # num
      <4>1. state'[p] = state[p]
        BY <3>2, <1>2
      <4>2. Living(p)' <=> Living(p)
        BY <4>1 DEF Living
      <4> QED
        BY <3>2, <4>1, <4>2, <1>1, <1>3, ProcsInBuffer
    <3> QED
      BY <3>1, <3>2
  <2> QED
    BY <1>1, <1>3, <2>1, <2>2 DEF Booting
<1>5. Listed'
  <2>1. Typed'
    BY CreateCaller DEF CallerInv
  <2>2. Typed' /\ ~booted' /\ Booting' => Listed'
    BY BootListed, PTL
  <2> QED
    BY <1>1, <1>4, <2>1, <2>2
<1>6. Slid'
  <2> SUFFICES ASSUME NEW j \in Buffer, At(j)' # Wild
               PROVE  At(j)' \in Procs /\ At(j)' >= j /\ state'[At(j)'] # "none"
    BY DEF Slid
  <2>1. CASE j = num
    BY <2>1, <1>1, <1>2
  <2>2. CASE j # num
    <3>1. At(j)' = At(j)
      BY <2>2, <1>2
    <3>2. At(j) \in Procs /\ At(j) >= j /\ state[At(j)] # "none"
      BY <3>1 DEF TableInv, Slid
    <3> QED
      BY <3>1, <3>2, <1>2
  <2> QED
    BY <2>1, <2>2
<1> QED
  BY <1>2, <1>4, <1>5, <1>6 DEF TableInv, AliveStates

\* Steps that leave the table and the states alone.
LEMMA QuietTable ==
    ASSUME TableInv, UNCHANGED <<state, pid, table, misremoved>>, booted => booted'
    PROVE  TableInv'
<1>1. /\ state' = state /\ pid' = pid /\ processes_heap' = processes_heap
      /\ num' = num /\ misremoved' = misremoved
  BY DEF table
<1>2. Slid' /\ (Listed => Listed')
  BY <1>1 DEF TableInv, Slid, Listed, Living, At
<1>3. Booting'
  BY <1>1 DEF TableInv, Booting, Living, At
<1> QED
  BY <1>1, <1>2, <1>3 DEF TableInv

\* What the caller of exit is.
LEMMA ExitOfLiving ==
    ASSUME CallerInv, TableInv, NEW p \in Procs, SysExit(p)
    PROVE  /\ booted /\ p # 0 /\ Living(p) /\ pid[p] = p
           /\ state' = [state EXCEPT ![p] = "dead"]
           /\ processes_heap' = Removed(p) /\ num' = num - 1
           /\ misremoved' = (misremoved \/ At(p) # p)
           /\ UNCHANGED <<booted, pid>>
<1>1. booted /\ cpu.code = p /\ p # 0 /\ At(current_thread) = p
  BY DEF SysExit, Calls, Running, Interruptible, CallerInv, SyscallActsOnCaller
<1>2. state[p] # "none" /\ state[p] # "dead"
  <2>1. current_thread \in Buffer /\ p # Wild
    BY ProcsInBuffer DEF CallerInv, Typed
  <2>2. state[p] # "none"
    BY <1>1, <2>1 DEF TableInv, Slid
  <2> QED
    BY <1>1, <2>2 DEF CallerInv, DeadNeverRuns
<1>3. Alive(p) /\ pid[p] = p
  BY <1>2 DEF TableInv, Alive
<1> QED
  BY <1>1, <1>2, <1>3 DEF SysExit, SigKill, Destroy, Living

LEMMA ExitTable ==
    ASSUME CallerInv, TableInv, NEW p \in Procs, SysExit(p)
    PROVE  TableInv'
<1>1. /\ booted /\ p # 0 /\ Living(p) /\ pid[p] = p
      /\ state' = [state EXCEPT ![p] = "dead"]
      /\ processes_heap' = Removed(p) /\ num' = num - 1
      /\ misremoved' = (misremoved \/ At(p) # p)
      /\ UNCHANGED <<booted, pid>>
  BY ExitOfLiving
<1>p. p \in Int /\ p >= 1 /\ p \in Buffer /\ num \in Int
  BY <1>1, ProcsInBuffer DEF CallerInv, Typed
<1>2. /\ \A q \in Procs : state'[q] = IF q = p THEN "dead" ELSE state[q]
      /\ \A q \in Procs : Living(q)' <=> Living(q) /\ q # p
  <2>1. \A q \in Procs : state'[q] = IF q = p THEN "dead" ELSE state[q]
    BY <1>1 DEF CallerInv, Typed
  <2> QED
    BY <2>1 DEF Living
<1>3. \A j \in Buffer : At(j)' = IF j \in p .. p + num - 3 /\ j + 1 \in Buffer
                                 THEN At(j + 1) ELSE At(j)
  BY <1>1 DEF At, Removed
<1>4. \A j \in Buffer : At(j) # Wild =>
         At(j) \in Procs /\ At(j) \in Int /\ At(j) >= j /\ state[At(j)] # "none"
  BY ProcsInBuffer DEF TableInv, Slid
<1>5. Slid'
  <2> SUFFICES ASSUME NEW j \in Buffer, At(j)' # Wild
               PROVE  At(j)' \in Procs /\ At(j)' >= j /\ state'[At(j)'] # "none"
    BY DEF Slid
  <2>1. CASE j \in p .. p + num - 3 /\ j + 1 \in Buffer
    <3>1. At(j)' = At(j + 1) /\ j \in Int
      BY <2>1, <1>3, ProcsInBuffer
    <3>2. At(j + 1) \in Procs /\ At(j + 1) \in Int /\ At(j + 1) >= j + 1 /\ state[At(j + 1)] # "none"
      BY <2>1, <3>1, <1>4
    <3> QED
      BY <3>1, <3>2, <1>2
  <2>2. CASE ~(j \in p .. p + num - 3 /\ j + 1 \in Buffer)
    <3>1. At(j)' = At(j)
      BY <2>2, <1>3
    <3> QED
      BY <3>1, <1>2, <1>4
  <2> QED
    BY <2>1, <2>2
<1>6. Booting'
  BY <1>1 DEF Booting
<1>7. ASSUME ~misremoved'
      PROVE  Listed'
  <2>1. ~misremoved /\ At(p) = p /\ Listed
    BY <1>1, <1>7 DEF TableInv
  <2>2. /\ \A j, k \in 0 .. num - 1 : j < k => At(j) < At(k)
        /\ \A j \in 0 .. num - 1 : At(j) \in Procs /\ Living(At(j))
        /\ \A r \in Procs : Living(r) => \E j \in 0 .. num - 1 : At(j) = r
        /\ \A r \in Procs : Living(r) /\ r >= num /\ At(r) = r => At(num - 1) = r
    BY <2>1 DEF Listed
  <2>3. num >= 1 /\ num - 1 \in 0 .. num - 1
    <3>1. PICK j \in 0 .. num - 1 : At(j) = p
      BY <1>1, <2>2
    <3> QED
      BY <1>p
  <2>4. \A j \in 0 .. num - 1 : j \in Buffer /\ j \in Int /\ j >= 0 /\ At(j) \in Int
    <3> SUFFICES ASSUME NEW j \in 0 .. num - 1
                 PROVE  j \in Buffer /\ j \in Int /\ j >= 0 /\ At(j) \in Int
      OBVIOUS
    <3>1. j \in Int /\ 0 <= j /\ j < num
      BY <1>p
    <3>2. j \in Buffer
      BY <3>1, BufferIndices DEF CallerInv
    <3>3. At(j) \in Int
      BY <2>2, ProcsInBuffer
    <3> QED
      BY <3>1, <3>2, <3>3
  \* An entry that stands at its own number has not been shifted there.
  <2>5. ASSUME NEW r \in Procs, At(r)' = r
        PROVE  At(r) = r /\ ~(r \in p .. p + num - 3)
    <3>1. r \in Buffer /\ r + 1 \in Buffer /\ r \in Int /\ r # Wild
      BY ProcsInBuffer
    <3>2. ~(r \in p .. p + num - 3)
      <4>1. SUFFICES ASSUME r \in p .. p + num - 3 PROVE FALSE
        OBVIOUS
      <4>2. At(r + 1) = r
        BY <4>1, <3>1, <2>5, <1>3
      <4> QED
        BY <4>2, <3>1, <1>4
    <3> QED
      BY <3>1, <3>2, <2>5, <1>3
  <2>k. PICK m : m = num - 2
    OBVIOUS
  <2>6. CASE p < num
    <3>1. ASSUME NEW j \in 0 .. num - 2
          PROVE  /\ j \in 0 .. num - 1 /\ j + 1 \in 0 .. num - 1
                 /\ At(j)' = IF j < p THEN At(j) ELSE At(j + 1)
      <4>1. j \in 0 .. num - 1 /\ j + 1 \in 0 .. num - 1
        BY <1>p
      <4>2. j \in Buffer /\ j + 1 \in Buffer
        BY <4>1, <2>4
      <4>3. j < p => ~(j \in p .. p + num - 3)
        BY <1>p
      <4>4. ~(j < p) => j \in p .. p + num - 3
        BY <1>p
      <4> QED
        BY <4>1, <4>2, <4>3, <4>4, <1>3
    <3>2. p \in 0 .. num - 1
      BY <1>p, <2>6
    <3>3. ASSUME NEW j \in 0 .. num - 2, NEW k \in 0 .. num - 2, j < k
          PROVE  At(j)' < At(k)'
      <4>1. /\ j \in 0 .. num - 1 /\ j + 1 \in 0 .. num - 1
            /\ k \in 0 .. num - 1 /\ k + 1 \in 0 .. num - 1
        BY <3>1
      <4>2. CASE k < p
        BY <3>1, <3>3, <4>1, <4>2, <2>2, <1>p
      <4>3. CASE ~(k < p) /\ j < p
        <5>1. At(j)' = At(j) /\ At(k)' = At(k + 1) /\ j < k + 1
          BY <3>1, <3>3, <4>3
        <5> QED
          BY <5>1, <4>1, <2>2
      <4>4. CASE ~(j < p) /\ ~(k < p)
        <5>1. At(j)' = At(j + 1) /\ At(k)' = At(k + 1) /\ j + 1 < k + 1
          BY <3>1, <3>3, <4>4
        <5> QED
          BY <5>1, <4>1, <2>2
      <4> QED
        BY <4>2, <4>3, <4>4, <3>3, <1>p
    <3>4. ASSUME NEW j \in 0 .. num - 2
          PROVE  At(j)' \in Procs /\ Living(At(j))'
      <4>1. CASE j < p
        <5>1. At(j)' = At(j) /\ At(j) \in Procs /\ Living(At(j)) /\ At(j) < At(p)
          BY <4>1, <3>1, <3>2, <2>2
        <5>2. At(j) # p
          BY <5>1, <2>1, <1>p, ProcsInBuffer
        <5> QED
          BY <5>1, <5>2, <1>2 DEF Living
      <4>2. CASE ~(j < p)
        <5>1. At(j)' = At(j + 1) /\ j + 1 \in 0 .. num - 1 /\ p < j + 1
          BY <4>2, <3>1, <1>p
        <5>2. At(j + 1) \in Procs /\ Living(At(j + 1)) /\ At(p) < At(j + 1)
          BY <5>1, <3>2, <2>2
        <5>3. At(j + 1) # p
          BY <5>2, <2>1, <1>p, ProcsInBuffer
        <5> QED
          BY <5>1, <5>2, <5>3, <1>2 DEF Living
      <4> QED
        BY <4>1, <4>2
    <3>5. ASSUME NEW r \in Procs, Living(r)'
          PROVE  \E j \in 0 .. num - 2 : At(j)' = r
      <4>1. Living(r) /\ r # p
        BY <3>5, <1>2
      <4>2. PICK j \in 0 .. num - 1 : At(j) = r
        BY <4>1, <2>2
      <4>3. j # p
        BY <4>1, <4>2, <2>1
      <4>4. CASE j < p
        <5>1. j \in 0 .. num - 2
          BY <4>4, <2>6, <1>p
        <5> QED
          BY <5>1, <4>2, <4>4, <3>1
      <4>5. CASE p < j
        <5>1. j - 1 \in 0 .. num - 2 /\ ~(j - 1 < p) /\ (j - 1) + 1 = j
          BY <4>5, <1>p
        <5>2. At(j - 1)' = At(j)
          BY <5>1, <3>1
        <5> QED
          BY <5>1, <5>2, <4>2
      <4> QED
        BY <4>3, <4>4, <4>5, <1>p
    <3>6. ASSUME NEW r \in Procs, Living(r)', r >= num - 1, At(r)' = r
          PROVE  At(m)' = r
      <4>1. Living(r) /\ r # p /\ At(r) = r /\ ~(r \in p .. p + num - 3) /\ r \in Int
        BY <3>6, <2>5, <1>2, ProcsInBuffer
      <4>2. At(num - 1) = r
        BY <4>1, <3>6, <2>2, <1>p
      <4>3. p # num - 1
        BY <4>1, <4>2, <2>1
      <4>4. m \in 0 .. num - 2 /\ ~(m < p) /\ m + 1 = num - 1
        BY <4>3, <2>6, <2>k, <1>p
      <4>5. At(m)' = At(m + 1)
        BY <4>4, <3>1
      <4> QED
        BY <4>2, <4>4, <4>5
    <3>7. num' - 1 = num - 2 /\ num' - 1 = m /\ num' = num - 1
      BY <1>1, <1>p, <2>k
    <3>8. \A r \in Procs : Living(r)' /\ r >= num' /\ At(r)' = r => processes_heap'[num' - 1] = r
      BY <3>6, <3>7 DEF At
    <3>9. /\ \A j, k \in 0 .. num' - 1 : j < k => At(j)' < At(k)'
          /\ \A j \in 0 .. num' - 1 : At(j)' \in Procs /\ Living(At(j))'
          /\ \A r \in Procs : Living(r)' => \E j \in 0 .. num' - 1 : At(j)' = r
      BY <3>3, <3>4, <3>5, <3>7
    <3> QED
      BY <3>8, <3>9 DEF Listed, At
  <2>7. CASE p >= num
    <3>1. At(num - 1) = p
      BY <1>1, <2>1, <2>2, <2>7
    <3>2. ASSUME NEW j \in 0 .. num - 2
          PROVE  j \in 0 .. num - 1 /\ At(j)' = At(j) /\ At(j) < p
      <4>1. j \in 0 .. num - 1 /\ ~(j \in p .. p + num - 3) /\ j < num - 1
        BY <2>7, <1>p
      <4>2. At(j) < At(num - 1)
        BY <4>1, <2>2, <2>3
      <4> QED
        BY <3>1, <4>1, <4>2, <2>4, <1>3
    <3>3. \A j, k \in 0 .. num - 2 : j < k => At(j)' < At(k)'
      BY <3>2, <2>2
    <3>4. ASSUME NEW j \in 0 .. num - 2
          PROVE  At(j)' \in Procs /\ Living(At(j))'
      <4>1. At(j)' = At(j) /\ At(j) \in Procs /\ Living(At(j)) /\ At(j) < p
        BY <3>2, <2>2
      <4>2. At(j) # p
        BY <4>1, <1>p, ProcsInBuffer
      <4> QED
        BY <4>1, <4>2, <1>2 DEF Living
    <3>5. ASSUME NEW r \in Procs, Living(r)'
          PROVE  \E j \in 0 .. num - 2 : At(j)' = r
      <4>1. Living(r) /\ r # p
        BY <3>5, <1>2
      <4>2. PICK j \in 0 .. num - 1 : At(j) = r
        BY <4>1, <2>2
      <4>3. j \in 0 .. num - 2
        BY <4>1, <4>2, <3>1, <1>p
      <4> QED
        BY <4>2, <4>3, <3>2
    <3>6. ASSUME NEW r \in Procs, Living(r)', r >= num - 1, At(r)' = r
          PROVE  FALSE
      <4>1. Living(r) /\ r # p /\ At(r) = r /\ r \in Int
        BY <3>6, <2>5, <1>2, ProcsInBuffer
      <4>2. At(num - 1) = r
        BY <4>1, <3>6, <2>2, <1>p
      <4> QED
        BY <3>1, <4>1, <4>2
    <3>7. num' - 1 = num - 2 /\ num' = num - 1
      BY <1>1, <1>p
    <3>8. \A r \in Procs : ~(Living(r)' /\ r >= num' /\ At(r)' = r)
      BY <3>6, <3>7
    <3>9. /\ \A j, k \in 0 .. num' - 1 : j < k => At(j)' < At(k)'
          /\ \A j \in 0 .. num' - 1 : At(j)' \in Procs /\ Living(At(j))'
          /\ \A r \in Procs : Living(r)' => \E j \in 0 .. num' - 1 : At(j)' = r
      BY <3>3, <3>4, <3>5, <3>7
    <3> QED
      BY <3>8, <3>9 DEF Listed, At
  <2> QED
    BY <2>6, <2>7, <1>p
<1>8. /\ \A q \in Procs : state'[q] \in AliveStates \cup {"none", "dead"}
      /\ \A q \in Procs : state'[q] # "none" => pid'[q] = q
  BY <1>1, <1>2 DEF TableInv, Living
<1> QED
  BY <1>5, <1>6, <1>7, <1>8 DEF TableInv

LEMMA SignalTable ==
    ASSUME CallerInv, TableInv, "crashed" \notin Signals,
           NEW p \in Signalled, NEW s \in Signals, Signal(p, s)
    PROVE  TableInv'
<1>1. /\ booted /\ \E j \in 0 .. num - 1 : At(j) = p
      /\ state' = [state EXCEPT ![p] = s]
      /\ UNCHANGED <<booted, pid, table, misremoved>>
  BY DEF Signal, Interruptible
<1>2. p \in Procs /\ s \in AliveStates
  OBVIOUS
<1>3. s # "none" /\ s # "dead"
  BY <1>2 DEF AliveStates
<1>4. \A q \in Procs : state'[q] = IF q = p THEN s ELSE state[q]
  BY <1>1, <1>2 DEF CallerInv, Typed
<1>5. /\ processes_heap' = processes_heap /\ num' = num /\ misremoved' = misremoved
      /\ pid' = pid /\ booted'
  BY <1>1 DEF table
<1>6. state[p] # "none"
  <2>1. PICK j \in 0 .. num - 1 : At(j) = p
    BY <1>1
  <2>2. j \in Buffer
    BY BufferIndices DEF CallerInv, Typed
  <2> QED
    BY <1>2, <2>1, <2>2, ProcsInBuffer DEF TableInv, Slid
<1>7. Slid'
  <2> SUFFICES ASSUME NEW j \in Buffer, At(j) # Wild
               PROVE  At(j) \in Procs /\ At(j) >= j /\ state'[At(j)] # "none"
    BY <1>5 DEF Slid, At
  <2> QED
    BY <1>3, <1>4 DEF TableInv, Slid
<1>8. ASSUME ~misremoved
      PROVE  Listed'
  <2>1. Listed
    BY <1>8 DEF TableInv
  <2>2. Living(p)
    BY <1>1, <2>1 DEF Listed
  <2>3. \A q \in Procs : Living(q)' <=> Living(q)
    BY <1>3, <1>4, <2>2 DEF Living
  <2>4. \A j : At(j)' = At(j)
    BY <1>5 DEF At
  <2>5. \A j \in 0 .. num - 1 : At(j) \in Procs /\ Living(At(j))'
    <3> SUFFICES ASSUME NEW j \in 0 .. num - 1 PROVE At(j) \in Procs /\ Living(At(j))'
      OBVIOUS
    <3>1. At(j) \in Procs /\ Living(At(j))
      BY <2>1 DEF Listed
    <3>2. state'[At(j)] \notin {"none", "dead"}
      BY <3>1, <2>3 DEF Living
    <3> QED
      BY <3>1, <3>2, <2>4 DEF Living
  <2> QED
    BY <1>5, <2>1, <2>3, <2>4, <2>5 DEF Listed, At, Living
<1>9. Booting'
  BY <1>5 DEF Booting
<1> QED
  BY <1>2, <1>4, <1>5, <1>6, <1>7, <1>8, <1>9 DEF TableInv

LEMMA StepTable ==
    ASSUME CallerInv, TableInv, "crashed" \notin Signals, [Next]_vars
    PROVE  TableInv'
<1>1. CASE Create
  BY <1>1, CreateTable
<1>2. CASE \E p \in Procs : SysExit(p)
  BY <1>2, ExitTable
<1>3. CASE \E p \in Signalled, s \in Signals : Signal(p, s)
  BY <1>3, SignalTable
<1>4. ASSUME UNCHANGED <<booted, state, pid, table, misremoved>>
      PROVE  TableInv'
  <2>1. booted => booted'
    BY <1>4, Zenon
  <2> QED
    BY <1>4, <2>1, QuietTable
<1>5. CASE RegisterHandler
  <2>1. UNCHANGED <<state, pid, table, misremoved>>
    BY <1>5 DEF RegisterHandler
  <2>2. booted'
    BY <1>5, Zenon DEF RegisterHandler
  <2> QED
    BY <2>1, <2>2, QuietTable
<1>6. CASE Tick
  <2>1. UNCHANGED <<booted, state, pid, table, misremoved>>
    BY <1>6 DEF Tick
  <2> QED
    BY <1>4, <2>1
<1>7. CASE TickSavesWild \/ UNCHANGED vars
  <2>1. UNCHANGED <<booted, state, pid, table, misremoved>>
    BY <1>7 DEF TickSavesWild, vars
  <2> QED
    BY <1>4, <2>1
<1>8. CASE \E p \in Procs : \/ Execute(p) \/ Fault(p) \/ SysPalloc(p)
                            \/ SysPallocRefused(p) \/ ReturnFromMain(p)
                            \/ StoreBehindObject(p)
  <2>1. UNCHANGED <<booted, state, pid, table, misremoved>>
    BY <1>8 DEF Execute, Fault, SysPalloc, SysPallocRefused, ReturnFromMain,
       StoreBehindObject
  <2> QED
    BY <1>4, <2>1
<1> QED
  BY <1>1, <1>2, <1>3, <1>5, <1>6, <1>7, <1>8 DEF Next

\* The process table loses exactly the process that exits, for any number of
\* modules, until Destroy meets another process at the index that equals the
\* pid (process.cpp, Destroy; vector.hpp, remove).  Nobody marks a process
\* crashed: Destroy would ignore it.
THEOREM TableStaysExact == "crashed" \notin Signals /\ Spec => []TableExact
<1> SUFFICES ASSUME "crashed" \notin Signals PROVE Spec => []TableExact
  OBVIOUS
<1>1. CallerInv /\ TableInv => TableExact
  <2> SUFFICES ASSUME CallerInv, TableInv PROVE TableExact
    OBVIOUS
  <2>1. processes_count = num
    BY DEF CallerInv, Typed
  <2>2. ASSUME ~misremoved
        PROVE  /\ {At(j) : j \in 0 .. num - 1} = Created \ {p \in Procs : state[p] = "dead"}
               /\ \A j, k \in 0 .. num - 1 : At(j) = At(k) => j = k
    <3>1. Listed
      BY <2>2 DEF TableInv
    <3>2. \A j \in 0 .. num - 1 : At(j) \in Procs /\ Living(At(j))
      BY <3>1 DEF Listed
    <3>3. \A p \in Procs : Living(p) => \E j \in 0 .. num - 1 : At(j) = p
      BY <3>1 DEF Listed
    <3>4. Created \ {p \in Procs : state[p] = "dead"} = {p \in Procs : Living(p)}
      BY DEF Created, Living
    <3>5. {At(j) : j \in 0 .. num - 1} = {p \in Procs : Living(p)}
      BY <3>2, <3>3
    <3>6. ASSUME NEW j \in 0 .. num - 1, NEW k \in 0 .. num - 1, At(j) = At(k)
          PROVE  j = k
      <4>1. (j < k => At(j) < At(k)) /\ (k < j => At(k) < At(j))
        BY <3>1 DEF Listed
      <4>2. At(j) \in Int /\ num \in Int
        BY <3>2, ProcsInBuffer DEF CallerInv, Typed
      <4> QED
        BY <3>6, <4>1, <4>2
    <3> QED
      BY <3>4, <3>5, <3>6
  <2> QED
    BY <2>1, <2>2 DEF TableExact
<1>2. CallerInv /\ TableInv /\ [Next]_vars => TableInv'
  BY StepTable
<1> QED
  BY <1>1, <1>2, InitCaller, StepCaller, InitTable, PTL DEF Spec
=============================================================================
