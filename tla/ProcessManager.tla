--------------------------- MODULE ProcessManager ---------------------------
(***************************************************************************)
(* Processes, the timer-driven scheduler and the system calls that change  *)
(* process state: lib/process.cpp, std/vector.hpp (the process table),     *)
(* lib/syscalls.cpp and the boot sequence of kernel/kernel.cpp.            *)
(*                                                                         *)
(* Interrupt gates keep IF clear in every handler, so a timer tick and a   *)
(* system call are one step each; between them the processor runs a        *)
(* process, the boot loop or end_handle, and may be interrupted anywhere.  *)
(*                                                                         *)
(* Where the code writes through a pointer it never set, or reuses memory  *)
(* that is still referenced, the machine's further behaviour is not        *)
(* defined: the step records why in ruin, and nothing follows it.          *)
(*                                                                         *)
(* The stack pointer is not modelled: all ring-0 processes run on one      *)
(* kernel stack, and SwitchProcess does not restore esp for them.  Where a *)
(* process resumes is its code position and progress.                      *)
(***************************************************************************)
EXTENDS Integers, FiniteSets

CONSTANTS
    Modules,       \* at most so many ELF modules are loaded (the source: one)
    Steps,         \* a process's progress is counted modulo Steps
    ClientsWrite,  \* whether processes store into the memory palloc gave them
    Signals,       \* the states kernel code puts processes in with Sig*
    Signalled,     \* the processes it does that to
    ZeroWords      \* code whose stack may hold a 0 behind an interrupt's frame

\* Process objects in the order of their creation; 0 is the idle loop().
Procs == 0 .. Modules

AliveStates == {"stopped", "running", "waiting", "sleeping"}

VARIABLES
    booted,           \* ProcessManager::Init has registered the timer handler
    state,            \* the status flags of every process, "none" before Create
    pid,              \* Process.pid
    ctx,              \* Process.regs: whose code, and how far it got
    zeross,           \* the processes whose Process.regs.ss is 0
    processes_heap,   \* the vector's buffer; Wild where nothing was stored
    num,              \* the vector's num
    processes_count,
    current_thread,
    started,
    cpu,              \* the context the processor executes
    cr3,              \* the active page directory: a process's, or Kernel
    palloced,         \* who got the page after the last process object
    progress,         \* history: how far each program has really come
    returned,         \* history: processes whose main has returned
    misremoved,       \* history: Destroy removed the entry of another process
    ruin              \* history: why behaviour is undefined from here on

table == <<processes_heap, num, processes_count>>
vars == <<booted, state, pid, ctx, zeross, table, current_thread, started, cpu, cr3,
          palloced, progress, returned, misremoved, ruin>>

Wild == -1
Nobody == -1
Kernel == -1

\* The vector's buffer and what lies behind it, as far as remove can reach.
Buffer == 0 .. 2 * Modules + 2

\* Code that is not a process's.
BootLoop == -1     \* while (1) at the end of run()
end_handle == -2   \* where exit leaves the processor
SwitchLoop == -3   \* SwitchProcess looking for a process for good
Halted == -4       \* fault_handler, after hlt
Context == [code : Procs \cup {BootLoop, end_handle, SwitchLoop, Halted},
            at : 0 .. Steps - 1]
Code(c) == [code |-> c, at |-> 0]

ASSUME ProcessAssumption ==
    /\ Modules \in Nat
    /\ Steps \in Nat \ {0}
    /\ ClientsWrite \in BOOLEAN
    /\ Signals \subseteq AliveStates \cup {"crashed"}
    /\ Signalled \subseteq Procs
    /\ ZeroWords \subseteq Procs \cup {end_handle}

At(j) == processes_heap[j]
Created == {p \in Procs : state[p] # "none"}
LastCreated == CHOOSE p \in Created : \A q \in Created : q <= p
Alive(p) == state[p] \in AliveStates

\* The capacity after n push_backs: 1, doubled whenever it is exceeded.
Capacity(n) == CHOOSE c \in {2 ^ k : k \in 0 .. n} :
                  c >= n /\ \A d \in {2 ^ k : k \in 0 .. n} : d >= n => c <= d

Init ==
    /\ booted = FALSE
    /\ state = [p \in Procs |-> "none"]
    /\ pid = [p \in Procs |-> 0]
    /\ ctx = [p \in Procs |-> [code |-> p, at |-> 0]]
    /\ zeross = {}
    /\ processes_heap = [j \in Buffer |-> Wild]
    /\ num = 0
    /\ processes_count = 0
    /\ current_thread = 0
    /\ started = FALSE
    /\ cpu = Code(BootLoop)
    /\ cr3 = Kernel
    /\ palloced = Nobody
    /\ progress = [p \in Procs |-> 0]
    /\ returned = {}
    /\ misremoved = FALSE
    /\ ruin = "none"

-----------------------------------------------------------------------------
(* Boot: Create and SigRun for loop() and then for every module. *)

Create ==
    /\ ~booted
    /\ processes_count \in Procs
    /\ LET p == processes_count IN
       /\ state' = [state EXCEPT ![p] = "running"]
       /\ pid' = [pid EXCEPT ![p] = processes_count]
       /\ processes_heap' = [processes_heap EXCEPT ![num] = p]
    /\ num' = num + 1
    /\ processes_count' = processes_count + 1
    /\ UNCHANGED <<booted, ctx, zeross, current_thread, started, cpu, cr3,
                   palloced, progress, returned, misremoved, ruin>>

\* ProcessManager::Init: from here on timer ticks reach SwitchProcess.  When it
\* is called the idle loop and the modules loaded, if any, have been created.
RegisterHandler ==
    /\ ~booted /\ 0 \in Created
    /\ booted' = TRUE
    /\ UNCHANGED <<state, pid, ctx, zeross, table, current_thread, started,
                   cpu, cr3, palloced, progress, returned, misremoved, ruin>>

-----------------------------------------------------------------------------
(* SwitchProcess *)

Interruptible == booted /\ ruin = "none" /\ cpu.code \notin {SwitchLoop, Halted}

\* Mutant of First: the table seems one shorter.
FirstTooEarly ==
    IF current_thread + 2 >= processes_count THEN 0 ELSE current_thread + 1

\* The slot looked at first.
First == IF current_thread + 1 >= processes_count THEN 0 ELSE current_thread + 1
Distance(j) == (j - First) % processes_count

\* Mutants of Saved: before the first dispatch too; after current_thread has
\* moved on; never.
SavedAlways == [ctx EXCEPT ![At(current_thread)] = cpu]
SavedLate == IF started THEN [ctx EXCEPT ![At(First)] = cpu] ELSE ctx
SavedNever == ctx

Saved == IF started THEN [ctx EXCEPT ![At(current_thread)] = cpu] ELSE ctx

\* All processes are ring-0 code, interrupted without a change of stack: what
\* is saved as ss is the word of the stack behind the frame.
SavedZero ==
    LET p == At(current_thread) IN
    IF started
    THEN IF cpu.code \in ZeroWords THEN {zeross \ {p}, zeross \cup {p}}
                                   ELSE {zeross \ {p}}
    ELSE {zeross}

\* The slots the loop stops at, given whose saved ss is 0; the saved cs and ds
\* never are.
Ready(zero) == {j \in 0 .. processes_count - 1 :
                  state[At(j)] = "running" /\ At(j) \notin zero}

\* With nobody ready the loop never ends, and interrupts are off.  A crashed
\* process is passed to Destroy, which ignores it because is_alive is clear.
Tick ==
    /\ Interruptible /\ processes_count > 0
    /\ ~started \/ At(current_thread) # Wild
    /\ ctx' = Saved
    /\ zeross' \in SavedZero
    /\ IF Ready(zeross') = {}
       THEN /\ cpu' = Code(SwitchLoop)
            /\ cr3' = Kernel
            /\ UNCHANGED <<current_thread, started>>
       ELSE \E j \in Ready(zeross') :
               /\ \A k \in Ready(zeross') : Distance(j) <= Distance(k)
               /\ current_thread' = j
               /\ cpu' = Saved[At(j)]
               /\ cr3' = At(j)
               /\ started' = TRUE
    /\ UNCHANGED <<booted, state, pid, table, palloced, progress, returned,
                   misremoved, ruin>>

\* The registers are saved through a pointer that was never stored.
TickSavesWild ==
    /\ Interruptible /\ started /\ At(current_thread) = Wild
    /\ ruin' = "wild save"
    /\ UNCHANGED <<booted, state, pid, ctx, zeross, table, current_thread,
                   started, cpu, cr3, palloced, progress, returned,
                   misremoved>>

-----------------------------------------------------------------------------
(* The running program *)

Running(p) == Interruptible /\ cpu.code = p

\* A program advances; a module whose directory is not active faults, because
\* only kernel code is mapped in the kernel's directory.
Execute(p) ==
    /\ Running(p)
    /\ IF p = 0 \/ cr3 = p
       THEN /\ cpu' = [cpu EXCEPT !.at = (@ + 1) % Steps]
            /\ progress' = [progress EXCEPT ![p] = (@ + 1) % Steps]
       ELSE cpu' = Code(Halted) /\ UNCHANGED progress
    /\ UNCHANGED <<booted, state, pid, ctx, zeross, table, current_thread,
                   started, cr3, palloced, returned, misremoved, ruin>>

\* An exception in a module: fault_handler disables interrupts and halts.
Fault(p) ==
    /\ Running(p) /\ p # 0
    /\ cpu' = Code(Halted)
    /\ UNCHANGED <<booted, state, pid, ctx, zeross, table, current_thread,
                   started, cr3, palloced, progress, returned, misremoved,
                   ruin>>

-----------------------------------------------------------------------------
(* System calls, made by modules (the idle loop makes none) *)

Calls(p) == Running(p) /\ p # 0 /\ cr3 = p /\ p \notin returned

\* Mutants of Removed: the last entry is forgotten; the freed slot is wiped.
RemovedShort(pos) ==
    [j \in Buffer |-> IF j \in pos .. pos + num - 4 /\ j + 1 \in Buffer
                      THEN At(j + 1) ELSE At(j)]
RemovedWiped(pos) ==
    [j \in Buffer |-> IF j = num - 1 THEN Wild
                      ELSE IF j \in pos .. num - 2 THEN At(j + 1) ELSE At(j)]

\* vector::remove(pos): entries shift down from pos on, num - 2 of them.
Removed(pos) ==
    [j \in Buffer |-> IF j \in pos .. pos + num - 3 /\ j + 1 \in Buffer
                      THEN At(j + 1) ELSE At(j)]

Overruns(pos) == pos + num - 3 >= Capacity(Cardinality(Created))

\* Destroy: the table loses the entry at the index pid; a process that is not
\* alive is left alone.
Destroy(proc) ==
    IF Alive(proc)
    THEN /\ processes_heap' = Removed(pid[proc])
         /\ num' = num - 1
         /\ processes_count' = processes_count - 1
         /\ misremoved' = (misremoved \/ At(pid[proc]) # proc)
         /\ ruin' = IF Overruns(pid[proc]) THEN "overrun" ELSE ruin
    ELSE UNCHANGED <<table, misremoved, ruin>>

SigKill(proc) == Destroy(proc) /\ state' = [state EXCEPT ![proc] = "dead"]

\* Mutants of SysExit: the caller goes on running; its directory stays active.
SysExitReturns(p) ==
    /\ Calls(p)
    /\ SigKill(At(current_thread))
    /\ cr3' = Kernel
    /\ UNCHANGED <<booted, pid, ctx, zeross, current_thread, started, cpu,
                   palloced, progress, returned>>
SysExitKeepsDir(p) ==
    /\ Calls(p)
    /\ SigKill(At(current_thread))
    /\ cpu' = Code(end_handle)
    /\ UNCHANGED <<booted, pid, ctx, zeross, current_thread, started, cr3,
                   palloced, progress, returned>>

\* Syscall 1: the caller's entry, directory and object are released, and the
\* processor goes on in end_handle.
SysExit(p) ==
    /\ Calls(p)
    /\ SigKill(At(current_thread))
    /\ cr3' = Kernel
    /\ cpu' = Code(end_handle)
    /\ UNCHANGED <<booted, pid, ctx, zeross, current_thread, started,
                   palloced, progress, returned>>

\* Syscall 2.  Until a process has been destroyed the block comes from behind
\* the process objects, beginning in the page that holds the last bytes of the
\* last object; afterwards the heaps hand out and clear released memory that is
\* still in use (the kernel's page tables, the end of the object before).
SysPalloc(p) ==
    /\ Calls(p)
    /\ LET proc == At(current_thread) IN
       IF \E q \in Procs : state[q] = "dead"
       THEN ruin' = "reuse" /\ UNCHANGED <<palloced, cr3>>
       ELSE /\ palloced' = IF palloced = Nobody THEN proc ELSE palloced
            /\ cr3' = proc
            /\ UNCHANGED ruin
    /\ UNCHANGED <<booted, state, pid, ctx, zeross, table, current_thread,
                   started, cpu, progress, returned, misremoved>>

\* Syscall 2 with a count of zero or beyond the heap: an early return that
\* leaves the kernel's directory active.
SysPallocRefused(p) ==
    /\ Calls(p)
    /\ cr3' = Kernel
    /\ UNCHANGED <<booted, state, pid, ctx, zeross, table, current_thread,
                   started, cpu, palloced, progress, returned, misremoved,
                   ruin>>

\* The start stub after main: it makes syscall 0 and then loops for good.
ReturnFromMain(p) ==
    /\ Calls(p)
    /\ returned' = returned \cup {p}
    /\ UNCHANGED <<booted, state, pid, ctx, zeross, table, current_thread,
                   started, cpu, cr3, palloced, progress, misremoved, ruin>>

\* A store into the block palloc gave out overwrites the control fields of the
\* last process created.
StoreBehindObject(p) ==
    /\ ClientsWrite
    /\ Running(p) /\ cr3 = p /\ palloced = p /\ state[LastCreated] # "dead"
    /\ ruin' = "control block"
    /\ UNCHANGED <<booted, state, pid, ctx, zeross, table, current_thread,
                   started, cpu, cr3, palloced, progress, returned,
                   misremoved>>

\* SigWait, SigSleep, SigWake, SigStop, SigRun and SigCrash set all the flags,
\* whatever they were.
Signal(p, s) ==
    /\ Interruptible
    /\ \E j \in 0 .. num - 1 : At(j) = p
    /\ state' = [state EXCEPT ![p] = s]
    /\ UNCHANGED <<booted, pid, ctx, zeross, table, current_thread, started,
                   cpu, cr3, palloced, progress, returned, misremoved, ruin>>

-----------------------------------------------------------------------------
Next ==
    \/ Create
    \/ RegisterHandler
    \/ Tick
    \/ TickSavesWild
    \/ \E p \in Procs : \/ Execute(p)
                        \/ Fault(p)
                        \/ SysExit(p)
                        \/ SysPalloc(p)
                        \/ SysPallocRefused(p)
                        \/ ReturnFromMain(p)
                        \/ StoreBehindObject(p)
    \/ \E p \in Signalled, s \in Signals : Signal(p, s)

\* Boot code keeps running and the timer keeps ticking.
Fairness == WF_vars(Create \/ RegisterHandler) /\ WF_vars(Tick \/ TickSavesWild)

Spec == Init /\ [][Next]_vars /\ Fairness

-----------------------------------------------------------------------------
(* Properties *)

\* Every variable has its type; current_thread may be one past the table right
\* after the last process has exited.
TypeOK ==
    /\ booted \in BOOLEAN
    /\ state \in [Procs -> AliveStates \cup {"none", "crashed", "dead"}]
    /\ pid \in [Procs -> Procs]
    /\ ctx \in [Procs -> Context]
    /\ zeross \subseteq Procs
    /\ processes_heap \in [Buffer -> Procs \cup {Wild}]
    /\ num \in 0 .. Modules + 1
    /\ processes_count \in 0 .. Modules + 1
    /\ current_thread \in Procs
    /\ started \in BOOLEAN
    /\ cpu \in Context
    /\ cr3 \in Procs \cup {Kernel}
    /\ palloced \in Procs \cup {Nobody}
    /\ progress \in [Procs -> 0 .. Steps - 1]
    /\ returned \subseteq Procs
    /\ misremoved \in BOOLEAN
    /\ ruin \in {"none", "wild save", "overrun", "reuse", "control block"}

\* GetCurrentProcess is the process that is running, so a system call acts on
\* its caller, after any sequence of ticks and exits (syscalls.cpp, cases 1
\* and 2).
SyscallActsOnCaller ==
    cpu.code \in Procs => At(current_thread) = cpu.code

\* The table lists exactly the processes that were not destroyed, each once,
\* and processes_count is its length, as long as every Destroy found its
\* process at the index equal to its pid.
TableExact ==
    /\ processes_count = num
    /\ ~misremoved => /\ {At(j) : j \in 0 .. num - 1} = Created \ {p \in Procs : state[p] = "dead"}
                      /\ \A j, k \in 0 .. num - 1 : At(j) = At(k) => j = k

\* The active directory is the kernel's or belongs to the process in the
\* current slot and has not been destroyed.
OwnAddressSpace ==
    cr3 # Kernel => cr3 = At(current_thread) /\ state[cr3] # "dead"

\* A process resumes where it was interrupted: no work is lost or done twice,
\* however the ticks and the other processes' calls fall.
Resumes == cpu.code \in Procs => cpu.at = progress[cpu.code]

\* A process that has exited executes nothing any more, although its object
\* and its saved registers may still be written.
DeadNeverRuns == cpu.code \in Procs => state[cpu.code] # "dead"

\* The system as the source boots it.
OneModule == Created \subseteq {0, 1}

\* Nothing undefined happens, whatever the one module of the booted system
\* does short of storing into its palloc'ed memory; with several modules not
\* until one has called exit or palloc.
WellDefined ==
    /\ OneModule => ruin \in {"none", "control block"}
    /\ ruin # "none" => palloced # Nobody \/ \E p \in Procs : state[p] = "dead"

\* With one module the saved registers of a process that has not exited are
\* written only when it is the one interrupted.
ContextKept ==
    [][OneModule => \A p \in Procs :
          state[p] # "dead" /\ ctx'[p] # ctx[p] => cpu.code = p]_vars

\* With several modules the context of a bystander is lost in one way only:
\* by a tick that interrupts end_handle.
ContextLostOnlyAfterExit ==
    [][\A p \in Procs : ctx'[p] # ctx[p] => cpu.code \in {p, end_handle}]_vars

Stopped == cpu.code = Halted \/ ruin # "none"

\* The idle loop runs again and again until the machine stops: the processor
\* comes back after an exit, and the scheduler's loop, which runs with
\* interrupts off, always finds a process.  One thing can end that: a 0 saved
\* as the ss of the idle loop, which then is never dispatched again.
IdleRuns == []<>(cpu.code = 0 \/ Stopped \/ 0 \in zeross)

\* Round robin: until a process exits or the machine stops, every process that
\* was created gets the processor again and again, whatever is saved for the
\* others, unless a 0 has been saved as its own ss.
EveryoneRuns ==
    \A p \in Procs :
       []<>(\/ cpu.code = p \/ state[p] = "none" \/ Stopped \/ p \in zeross
            \/ \E q \in Procs : state[q] = "dead")

\* "mov eax, 0 ; set syscall 0 (exit)": a module whose main has returned exits.
ReturnExits == \A p \in returned : state[p] = "dead"
=============================================================================
