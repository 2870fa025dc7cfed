----------------------------- MODULE Interrupts -----------------------------
(***************************************************************************)
(* Interrupt dispatch: the boot code that installs and enables it          *)
(* (kernel.cpp, idt.cpp), the stubs and the common handler                 *)
(* (idt_handlers.asm, idt.cpp), the fault handler, and the keyboard driver *)
(* (keyboard.cpp, driver.cpp).  The two PICs and the CPU are external.     *)
(*                                                                         *)
(* The entries for exceptions are trap gates: they leave the interrupt     *)
(* flag as it is, and fault_handler clears it only when it begins.  The    *)
(* entries for interrupts and for system calls clear it at once.           *)
(***************************************************************************)
EXTENDS Integers, Sequences, FiniteSets

CONSTANTS
    Lines,      \* interrupt lines with a device, the timer's among them
    NProcs      \* processes created at boot

Timer == 0
Keyboard == 1
Cascade == 2
SyscallIrq == 16
DriverIrq == 33     \* 0x21, what KeyboardDriver passes for its line

ASSUME InterruptsAssumption ==
    /\ Timer \in Lines /\ Lines \subseteq 0 .. 15 \ {Cascade}
    /\ NProcs \in Nat \ {0}

VARIABLES
    irr,            \* lines raised and not yet accepted
    master, slave,  \* lines in service at each PIC
    unread,         \* the keyboard holds a byte: it raises no line meanwhile
    IFlag,          \* the CPU's interrupt flag
    frames,         \* the interrupt handlers entered, innermost first
    current,        \* who runs below them: Boot or a process
    trap,           \* how far everybody's fault_handler has come
    handlers,       \* numbers whose handler_table entry is not null
    pc,             \* the instruction boot has reached
    eflags          \* IFlag as register_int_handler found it

ivars == <<irr, master, slave, unread, IFlag, frames, current, trap, handlers, pc, eflags>>

Boot == -1
Handler == -2
Procs == 0 .. NProcs - 1
Contexts == Procs \cup {Boot, Handler}
Context == IF frames = <<>> THEN current ELSE Handler

\* register_int_handler turns interrupts off around the store, if they are on.
Register(n) == <<[op |-> "pushf", n |-> n], [op |-> "cli", n |-> n],
                 [op |-> "store", n |-> n], [op |-> "sti", n |-> n]>>

\* idt32_init, enable_interrupts, the constructor of KeyboardDriver (which
\* registers 0x21, no line of the keyboard's; Activate, which would register
\* line 1 and read the port, is never called) and ProcessManager::Init.
BootCode ==
    Register(SyscallIrq) \o <<[op |-> "enable", n |-> Boot]>> \o Register(DriverIrq)
       \o Register(Timer)

IInit ==
    /\ irr = {} /\ master = {} /\ slave = {}
    /\ unread = FALSE
    /\ IFlag = FALSE
    /\ frames = <<>>
    /\ current = Boot
    /\ trap = [c \in Contexts |-> "no"]
    /\ handlers = {}
    /\ pc = 1
    /\ eflags = FALSE

-----------------------------------------------------------------------------
(* The PICs: a line waits while one of the same or a higher priority is in  *)
(* service; an EOI ends the service of the highest.                         *)

Pin(l) == IF l < 8 THEN l ELSE Cascade
Highest(s) == CHOOSE l \in s : \A k \in s : l <= k
Eoi(s) == IF s = {} THEN {} ELSE s \ {Highest(s)}

Before(k, l) == Pin(k) < Pin(l) \/ (Pin(k) = Pin(l) /\ k < l)

Offered(l) ==
    /\ l \in irr
    /\ \A m \in master : m > Pin(l)
    /\ l > 7 => \A m \in slave : m > l
    /\ \A k \in irr : ~Before(k, l)

Raise(l) ==
    /\ l \notin irr
    /\ l = Keyboard => ~unread
    /\ irr' = irr \cup {l}
    /\ unread' = (unread \/ l = Keyboard)
    /\ UNCHANGED <<master, slave, IFlag, frames, current, trap, handlers, pc, eflags>>

-----------------------------------------------------------------------------
(* Interrupts and system calls *)

\* The gate and the stub save the flags and clear IFlag.
Enter(n) ==
    /\ frames' = <<[n |-> n, at |-> "call", flag |-> IFlag]>> \o frames
    /\ IFlag' = FALSE
    /\ UNCHANGED <<unread, current, trap, handlers, pc, eflags>>

Accept(l) ==
    /\ IFlag /\ Offered(l)
    /\ irr' = irr \ {l}
    /\ master' = master \cup {Pin(l)}
    /\ slave' = IF l < 8 THEN slave ELSE slave \cup {l}
    /\ Enter(l)

\* int 0x80
Syscall ==
    /\ current \in Procs /\ Context = current /\ trap[current] = "no"
    /\ Enter(SyscallIrq)
    /\ UNCHANGED <<irr, master, slave>>

InFrame(at) ==
    frames # <<>> /\ frames[1].at = at /\ trap[Handler] = "no"

\* SwitchProcess: all processes are running; the first tick finds entry 0
\* current.
Successor(c) == IF c = Boot THEN 1 % NProcs ELSE (c + 1) % NProcs

\* interrupt_handler calls the handler, if there is one; the keyboard's would
\* read the port.
CallHandler ==
    /\ InFrame("call")
    /\ frames' = [frames EXCEPT ![1].at = "eoi"]
    /\ LET Called(n) == frames[1].n = n /\ n \in handlers IN
          /\ current' = IF Called(Timer) THEN Successor(current) ELSE current
          /\ unread' = (unread /\ ~Called(Keyboard))
    /\ UNCHANGED <<irr, master, slave, IFlag, trap, handlers, pc, eflags>>

\* Mutant of SendEoi: the slave's first line counts as the master's.
SendEoiOffByOne ==
    /\ InFrame("eoi")
    /\ frames' = [frames EXCEPT ![1].at = "iret"]
    /\ slave' = IF frames[1].n > 8 THEN Eoi(slave) ELSE slave
    /\ master' = Eoi(master)
    /\ UNCHANGED <<irr, unread, IFlag, current, trap, handlers, pc, eflags>>

\* Mutant of SendEoi: an interrupt nobody handles is not acknowledged.
SendEoiIfHandled ==
    /\ InFrame("eoi")
    /\ frames' = [frames EXCEPT ![1].at = "iret"]
    /\ LET n == frames[1].n IN
          /\ slave' = IF n >= 8 /\ n \in handlers THEN Eoi(slave) ELSE slave
          /\ master' = IF n \in handlers THEN Eoi(master) ELSE master
    /\ UNCHANGED <<irr, unread, IFlag, current, trap, handlers, pc, eflags>>

SendEoi ==
    /\ InFrame("eoi")
    /\ frames' = [frames EXCEPT ![1].at = "iret"]
    /\ slave' = IF frames[1].n >= 8 THEN Eoi(slave) ELSE slave
    /\ master' = Eoi(master)
    /\ UNCHANGED <<irr, unread, IFlag, current, trap, handlers, pc, eflags>>

\* sti has no effect before iret loads the flags: those of the interrupted
\* code, or those of the process that SwitchProcess has put in its place, which
\* had it set when it was interrupted or has never run.
Return ==
    /\ InFrame("iret")
    /\ frames' = Tail(frames)
    /\ IFlag' = (frames[1].flag \/ (frames[1].n = Timer /\ Timer \in handlers))
    /\ UNCHANGED <<irr, master, slave, unread, current, trap, handlers, pc, eflags>>

-----------------------------------------------------------------------------
(* Exceptions: in boot, in a process or in an interrupt handler.  What is left *)
(* of boot once the scheduler is registered, sti and a loop, cannot fault.     *)

Fault ==
    /\ Context = Boot => Timer \notin handlers
    /\ trap[Context] = "no"
    /\ trap' = [trap EXCEPT ![Context] = "entered"]
    /\ UNCHANGED <<irr, master, slave, unread, IFlag, frames, current, handlers, pc, eflags>>

\* Mutant of FaultCli: fault_handler leaves IFlag to the gate.
FaultCliLeft(c) ==
    /\ c = Context
    /\ trap[c] = "entered"
    /\ trap' = [trap EXCEPT ![c] = "masked"]
    /\ UNCHANGED <<irr, master, slave, unread, IFlag, frames, current, handlers, pc, eflags>>

FaultCli(c) ==
    /\ c = Context
    /\ trap[c] = "entered"
    /\ trap' = [trap EXCEPT ![c] = "masked"]
    /\ IFlag' = FALSE
    /\ UNCHANGED <<irr, master, slave, unread, frames, current, handlers, pc, eflags>>

\* It ends the service of whatever line is in service and stops for good: hlt,
\* then for(;;).
FaultHalt ==
    /\ trap[Context] = "masked"
    /\ trap' = [trap EXCEPT ![Context] = "halted"]
    /\ master' = Eoi(master)
    /\ UNCHANGED <<irr, slave, unread, IFlag, frames, current, handlers, pc, eflags>>

-----------------------------------------------------------------------------
(* Boot *)

Flag(op) ==
    CASE op = "cli" -> IFlag /\ ~eflags
      [] op = "sti" -> IFlag \/ eflags
      [] op = "enable" -> TRUE
      [] OTHER -> IFlag

BootStep ==
    /\ Context = Boot /\ trap[Boot] = "no"
    /\ pc <= Len(BootCode)
    /\ LET i == BootCode[pc] IN
          /\ IFlag' = Flag(i.op)
          /\ eflags' = IF i.op = "pushf" THEN IFlag ELSE eflags
          /\ handlers' = IF i.op = "store" THEN handlers \cup {i.n} ELSE handlers
    /\ pc' = pc + 1
    /\ UNCHANGED <<irr, master, slave, unread, frames, current, trap>>

INext ==
    \/ \E l \in Lines : Raise(l) \/ Accept(l)
    \/ Syscall
    \/ CallHandler
    \/ SendEoi
    \/ Return
    \/ Fault
    \/ \E c \in Contexts : FaultCli(c)
    \/ FaultHalt
    \/ BootStep

\* The CPU goes on as long as it is not halted; it looks for interrupts between
\* any two instructions; ticks are far enough apart that whoever is current
\* gets instructions done before the next one; and the timer never stops.
IFairness ==
    /\ WF_ivars(Raise(Timer))
    /\ WF_ivars(CallHandler) /\ WF_ivars(SendEoi) /\ WF_ivars(Return)
    /\ WF_ivars(FaultHalt) /\ WF_ivars(BootStep)
    /\ \A l \in Lines : SF_ivars(Accept(l))
    /\ \A c \in Contexts : SF_ivars(FaultCli(c))

ISpec == IInit /\ [][INext]_ivars /\ IFairness

-----------------------------------------------------------------------------
(* Properties *)

Halted == \E c \in Contexts : trap[c] = "halted"

Unacknowledged == {frames[i].n : i \in {j \in DOMAIN frames :
                                          frames[j].at # "iret"}} \ {SyscallIrq}

\* A line is in service exactly while a handler entered for it has not sent its
\* EOI: no line is left in service, which would block all those below it, and
\* none is ended by the EOIs of another handler or of a system call, which sends
\* both without being asked to (idt.cpp, interrupt_handler).
ServiceMatches == (\A c \in Contexts : trap[c] \in {"no", "entered"}) =>
    /\ master = {Pin(n) : n \in Unacknowledged}
    /\ slave = {n \in Unacknowledged : n > 7}

\* A handler is never interrupted by another one, although registering, faults
\* and returning all touch IFlag: what it shares with the code it interrupted it
\* need not protect (gates of idt32_init, common_irq_stub).
OneHandler == Len(frames) <= 1

\* No interrupt is taken before the handlers' table, the consoles and the PICs
\* are set up, although idt32_init registers a handler itself.
OffUntilEnabled == IFlag => pc > Len(Register(SyscallIrq)) + 1

\* Once the error screen is up nobody runs: no process, no handler.
HaltIsFinal == [][Halted => UNCHANGED <<frames, current, handlers, pc>>]_ivars

\* A tick is served in the end, whatever else goes on, unless the kernel halts.
TimerServed == Timer \in irr ~> (Timer \notin irr \/ Halted)

\* A fault halts the kernel in the end, even if ticks strike between the trap
\* gate and cli and take the processor to other processes.
FaultHalts == (\E c \in Contexts : trap[c] # "no") ~> Halted
=============================================================================
