--------------------------- MODULE InterruptsProofs ---------------------------
(***************************************************************************)
(* Theorems about module Interrupts, for any lines with devices and any    *)
(* number of processes.  Everything rests on one invariant: a handler runs *)
(* with interrupts off, what the PICs have in service is what is being     *)
(* handled, and from the cli of fault_handler on nobody else gets the CPU. *)
(***************************************************************************)
EXTENDS Interrupts, SequenceTheorems, TLAPS

Progress == {"no", "entered", "masked", "halted"}

Frame == [n : Lines \cup {SyscallIrq}, at : {"call", "eoi", "iret"}, flag : BOOLEAN]

\* The part of the type the proofs need.
Typed ==
    /\ frames \in Seq(Frame)
    /\ current \in Procs \cup {Boot}
    /\ trap \in [Contexts -> Progress]
    /\ IFlag \in BOOLEAN /\ eflags \in BOOLEAN
    /\ pc \in Nat \ {0}

HandlersMasked == frames # <<>> => ~IFlag

\* Whoever has passed the cli of fault_handler has the CPU and keeps it.
Owned ==
    \A c \in Contexts : trap[c] \in {"masked", "halted"} => c = Context /\ ~IFlag

\* Before enable_interrupts.
QuietBoot ==
    pc <= 5 => frames = <<>> /\ current = Boot /\ ~IFlag /\ ~eflags

IntInv ==
    /\ Typed
    /\ OneHandler
    /\ HandlersMasked
    /\ Owned
    /\ QuietBoot
    /\ ServiceMatches

-----------------------------------------------------------------------------
(* The scheduler's successor and the first instructions of boot *)

LEMMA SuccessorIsProc == ASSUME NEW c \in Procs \cup {Boot}
                         PROVE  Successor(c) \in Procs
<1>1. NProcs \in Nat /\ NProcs > 0
  BY InterruptsAssumption
<1>2. \A k \in Nat : k % NProcs \in 0 .. NProcs - 1
  BY <1>1
<1>3. c + 1 \in Nat
  BY <1>1 DEF Procs, Boot
<1> QED
  BY <1>2, <1>3 DEF Successor, Procs, Boot

Op == [op : {"pushf", "cli", "store", "sti", "enable"}, n : Int]

LEMMA RegisterSeq == ASSUME NEW n \in Int
                     PROVE  /\ Register(n) \in Seq(Op)
                            /\ Len(Register(n)) = 4
                            /\ \A k \in 1 .. 4 : Register(n)[k].op # "enable"
<1> DEFINE a == [op |-> "pushf", n |-> n]
           b == [op |-> "cli", n |-> n]
           c == [op |-> "store", n |-> n]
           d == [op |-> "sti", n |-> n]
           r == <<a, b, c, d>>
<1>1. a \in Op /\ b \in Op /\ c \in Op /\ d \in Op
  BY DEF Op
<1>2. a.op # "enable" /\ b.op # "enable" /\ c.op # "enable" /\ d.op # "enable"
  OBVIOUS
<1>3. Register(n) = r
  BY DEF Register
<1> HIDE DEF a, b, c, d
<1>4. r \in Seq(Op) /\ Len(r) = 4
  BY <1>1
<1>5. \A k \in 1 .. 4 : r[k] \in {a, b, c, d}
  OBVIOUS
<1> QED
  BY <1>2, <1>3, <1>4, <1>5

LEMMA ConcatHead == ASSUME NEW s \in Seq(Op), NEW t \in Seq(Op), Len(s) >= 4
                    PROVE  /\ s \o t \in Seq(Op) /\ Len(s \o t) >= 4
                           /\ \A k \in 1 .. 4 : (s \o t)[k] = s[k]
<1>1. s \o t \in Seq(Op) /\ Len(s \o t) = Len(s) + Len(t)
  BY ConcatProperties
<1>2. \A k \in 1 .. Len(s) : (s \o t)[k] = s[k]
  BY <1>1, ConcatProperties
<1> QED
  BY <1>1, <1>2

LEMMA QuietCode == \A k \in 1 .. 4 : BootCode[k].op # "enable"
<1> DEFINE first == Register(SyscallIrq)
           one == <<[op |-> "enable", n |-> Boot]>>
           second == Register(DriverIrq)
           third == Register(Timer)
<1>1. one \in Seq(Op)
  BY DEF Op, Boot
<1>2. first \in Seq(Op) /\ Len(first) >= 4
  BY RegisterSeq DEF SyscallIrq
<1>3. second \in Seq(Op) /\ third \in Seq(Op)
  BY RegisterSeq DEF DriverIrq, Timer
<1>4. BootCode = first \o one \o second \o third
  BY DEF BootCode
<1>5. \A k \in 1 .. 4 : first[k].op # "enable"
  BY RegisterSeq DEF SyscallIrq
<1> HIDE DEF first, one, second, third
<1>6. /\ first \o one \in Seq(Op) /\ Len(first \o one) >= 4
      /\ \A k \in 1 .. 4 : (first \o one)[k] = first[k]
  BY <1>1, <1>2, ConcatHead
<1>7. /\ first \o one \o second \in Seq(Op) /\ Len(first \o one \o second) >= 4
      /\ \A k \in 1 .. 4 : (first \o one \o second)[k] = first[k]
  BY <1>6, <1>3, ConcatHead
<1>8. \A k \in 1 .. 4 : BootCode[k] = first[k]
  BY <1>4, <1>7, <1>3, ConcatHead
<1> QED
  BY <1>5, <1>8

-----------------------------------------------------------------------------
(* Types *)

LEMMA FramesType ==
    ASSUME NEW n \in Lines \cup {SyscallIrq}, Typed, Enter(n)
    PROVE  frames' \in Seq(Frame) /\ Len(frames') = Len(frames) + 1
                                  /\ frames'[1].n = n /\ frames'[1].at = "call"
<1> DEFINE new == [n |-> n, at |-> "call", flag |-> IFlag]
<1>1. new \in Frame
  BY DEF Frame, Typed
<1>2. frames' = <<new>> \o frames
  BY DEF Enter
<1>3. new.n = n /\ new.at = "call"
  OBVIOUS
<1> HIDE DEF new
<1>4. <<new>> \in Seq(Frame) /\ Len(<<new>>) = 1 /\ <<new>>[1] = new
  BY <1>1
<1>5. frames \in Seq(Frame)
  BY DEF Typed
<1> QED
  BY <1>2, <1>3, <1>4, <1>5, ConcatProperties

\* The innermost handler gets on.
LEMMA MovedOn ==
    ASSUME NEW at \in {"call", "eoi", "iret"}, frames \in Seq(Frame), frames # <<>>
    PROVE  LET moved == [frames EXCEPT ![1].at = at]
           IN  /\ moved \in Seq(Frame) /\ Len(moved) = Len(frames)
               /\ moved[1].n = frames[1].n /\ moved[1].at = at
<1> DEFINE top == [frames[1] EXCEPT !.at = at]
           moved == [frames EXCEPT ![1] = top]
<1>1. frames[1] \in Frame /\ 1 \in DOMAIN frames
  OBVIOUS
<1>2. top \in Frame /\ top.n = frames[1].n /\ top.at = at
  BY <1>1 DEF Frame
<1>3. moved = [frames EXCEPT ![1].at = at]
  OBVIOUS
<1> HIDE DEF top
<1>4. moved \in Seq(Frame) /\ Len(moved) = Len(frames) /\ moved[1] = top
  BY <1>1, <1>2
<1> QED
  BY <1>2, <1>3, <1>4

LEMMA FlagType == ASSUME NEW op, Typed PROVE Flag(op) \in BOOLEAN
<1>1. CASE op = "cli"
  BY <1>1 DEF Flag
<1>2. CASE op = "sti"
  BY <1>2 DEF Flag
<1>3. CASE op = "enable"
  BY <1>3 DEF Flag
<1>4. CASE op \notin {"cli", "sti", "enable"}
  BY <1>4 DEF Flag, Typed
<1> QED
  BY <1>1, <1>2, <1>3, <1>4

LEMMA TypedInit == IInit => Typed
  BY DEF IInit, Typed, Contexts, Progress, Boot

LEMMA TypedStep == ASSUME Typed, [INext]_ivars
                   PROVE  Typed'
<1> USE DEF Typed
<1>0. Context \in Contexts
  BY DEF Context, Contexts
<1>1. ASSUME NEW l \in Lines, Raise(l) PROVE Typed'
  BY <1>1 DEF Raise
<1>2. ASSUME NEW l \in Lines, Accept(l) PROVE Typed'
  BY <1>2, FramesType DEF Accept, Enter
<1>3. CASE Syscall
  BY <1>3, FramesType DEF Syscall, Enter
<1>4. CASE CallHandler
  <2>1. frames' \in Seq(Frame)
    BY <1>4, MovedOn DEF CallHandler, InFrame
  <2>2. current' \in Procs \cup {Boot}
    BY <1>4, SuccessorIsProc DEF CallHandler
  <2> QED
    BY <1>4, <2>1, <2>2 DEF CallHandler
<1>5. CASE SendEoi
  <2>1. frames' \in Seq(Frame)
    BY <1>5, MovedOn DEF SendEoi, InFrame
  <2> QED
    BY <1>5, <2>1 DEF SendEoi
<1>6. CASE Return
  <2>1. frames # <<>> /\ frames' \in Seq(Frame)
    BY <1>6, HeadTailProperties DEF Return, InFrame
  <2>2. frames[1] \in Frame
    BY <2>1
  <2>3. frames[1].flag \in BOOLEAN
    BY <2>2 DEF Frame
  <2>4. IFlag' \in BOOLEAN
    BY <1>6, <2>3 DEF Return
  <2> QED
    BY <1>6, <2>1, <2>4 DEF Return
<1>7. CASE Fault
  BY <1>0, <1>7 DEF Fault, Progress
<1>8. ASSUME NEW c \in Contexts, FaultCli(c) PROVE Typed'
  BY <1>8 DEF FaultCli, Progress
<1>9. CASE FaultHalt
  BY <1>0, <1>9 DEF FaultHalt, Progress
<1>10. CASE BootStep
  BY <1>10, FlagType DEF BootStep
<1>11. CASE UNCHANGED ivars
  BY <1>11 DEF ivars
<1> QED
  BY <1>1, <1>2, <1>3, <1>4, <1>5, <1>6, <1>7, <1>8, <1>9, <1>10, <1>11 DEF INext

-----------------------------------------------------------------------------
(* A handler is never interrupted *)

Masked == OneHandler /\ HandlersMasked

LEMMA MaskedStep == ASSUME Typed, Masked, [INext]_ivars
                    PROVE  Masked'
<1> USE DEF Masked, OneHandler, HandlersMasked
<1>0. frames \in Seq(Frame)
  BY DEF Typed
<1>1. ASSUME NEW l \in Lines, Raise(l) PROVE Masked'
  BY <1>1 DEF Raise
<1>2. ASSUME NEW l \in Lines, Accept(l) PROVE Masked'
  <2>1. IFlag /\ Enter(l)
    BY <1>2 DEF Accept
  <2>2. frames = <<>>
    BY <2>1
  <2> QED
    BY <2>1, <2>2, FramesType DEF Enter
<1>3. CASE Syscall
  <2>1. frames = <<>> /\ Enter(SyscallIrq)
    BY <1>3 DEF Syscall, Context, Procs, Handler
  <2> QED
    BY <2>1, FramesType DEF Enter
<1>4. CASE CallHandler
  BY <1>0, <1>4, MovedOn DEF CallHandler, InFrame
<1>5. CASE SendEoi
  BY <1>0, <1>5, MovedOn DEF SendEoi, InFrame
<1>6. CASE Return
  <2>1. frames # <<>> /\ frames' = Tail(frames)
    BY <1>6 DEF Return, InFrame
  <2>2. frames' \in Seq(Frame) /\ Len(frames') = Len(frames) - 1 /\ Len(frames) \in Nat
    BY <1>0, <2>1, HeadTailProperties
  <2>3. Len(frames') = 0
    BY <2>2
  <2> QED
    BY <2>2, <2>3, EmptySeq
<1>7. CASE Fault
  BY <1>7 DEF Fault
<1>8. ASSUME NEW c \in Contexts, FaultCli(c) PROVE Masked'
  BY <1>8 DEF FaultCli
<1>9. CASE FaultHalt
  BY <1>9 DEF FaultHalt
<1>10. CASE BootStep
  BY <1>10 DEF BootStep, Context, Boot, Handler
<1>11. CASE UNCHANGED ivars
  BY <1>11 DEF ivars
<1> QED
  BY <1>1, <1>2, <1>3, <1>4, <1>5, <1>6, <1>7, <1>8, <1>9, <1>10, <1>11 DEF INext

-----------------------------------------------------------------------------
(* From cli on a fault has the CPU *)

\* What can still happen then.
LEMMA OwnerAlone ==
    ASSUME Typed, Owned, NEW c \in Contexts, trap[c] \in {"masked", "halted"},
           [INext]_ivars
    PROVE  /\ UNCHANGED <<frames, current, handlers, pc, IFlag>>
           /\ trap' \in {trap, [trap EXCEPT ![c] = "halted"]}
<1>0. c = Context /\ ~IFlag /\ trap[Context] \notin {"no", "entered"}
  BY DEF Owned
<1>1. ASSUME NEW l \in Lines PROVE ~Accept(l)
  BY <1>0 DEF Accept
<1>2. ~Syscall
  BY <1>0 DEF Syscall
<1>3. ASSUME NEW at PROVE ~InFrame(at)
  BY <1>0 DEF InFrame, Context
<1>4. ~CallHandler /\ ~SendEoi /\ ~Return
  BY <1>3 DEF CallHandler, SendEoi, Return
<1>5. ~Fault
  BY <1>0 DEF Fault
<1>6. ASSUME NEW d \in Contexts PROVE ~FaultCli(d)
  BY <1>0 DEF FaultCli
<1>7. ~BootStep
  BY <1>0 DEF BootStep
<1>8. \/ \E l \in Lines : Raise(l)
      \/ FaultHalt
      \/ UNCHANGED ivars
  BY <1>1, <1>2, <1>4, <1>5, <1>6, <1>7 DEF INext
<1> QED
  BY <1>0, <1>8 DEF Raise, FaultHalt, ivars

\* Nobody is past the cli: only a step of fault_handler can change that.
LEMMA OwnedStep == ASSUME Typed, Owned, [INext]_ivars
                   PROVE  Owned'
<1>1. CASE \E c \in Contexts : trap[c] \in {"masked", "halted"}
  <2>1. PICK c \in Contexts : trap[c] \in {"masked", "halted"}
    BY <1>1
  <2>2. /\ UNCHANGED <<frames, current, IFlag>>
        /\ trap' \in {trap, [trap EXCEPT ![c] = "halted"]}
    BY <2>1, OwnerAlone
  <2>3. \A d \in Contexts : trap'[d] \in {"masked", "halted"}
                               => trap[d] \in {"masked", "halted"}
    BY <2>1, <2>2 DEF Typed
  <2> QED
    BY <2>2, <2>3 DEF Owned, Context
<1>2. CASE ~ \E c \in Contexts : trap[c] \in {"masked", "halted"}
  <2>0. Context \in Contexts
    BY DEF Typed, Context, Contexts
  <2>1. ASSUME NEW c \in Contexts, FaultCli(c) PROVE Owned'
    BY <1>2, <2>1 DEF FaultCli, Owned, Typed, Context
  <2>2. ~FaultHalt
    BY <1>2, <2>0 DEF FaultHalt
  <2>3. CASE Fault
    <3>1. \A d \in Contexts : trap'[d] \in {trap[d], "entered"}
      BY <2>3 DEF Fault, Typed
    <3> QED
      BY <1>2, <3>1 DEF Owned
  <2>4. CASE UNCHANGED trap
    BY <1>2, <2>4 DEF Owned
  <2> QED
    BY <2>1, <2>2, <2>3, <2>4
    DEF INext, ivars, Raise, Accept, Enter, Syscall, CallHandler, SendEoi, Return,
        BootStep
<1> QED
  BY <1>1, <1>2

-----------------------------------------------------------------------------
(* Until enable_interrupts nothing but boot happens *)

LEMMA QuietStep == ASSUME Typed, QuietBoot, [INext]_ivars
                   PROVE  QuietBoot'
<1>1. CASE BootStep
  <2>1. pc \in Nat \ {0} /\ pc' = pc + 1
    BY <1>1 DEF BootStep, Typed
  <2>2. CASE pc \in 1 .. 4
    <3>1. /\ IFlag' = Flag(BootCode[pc].op)
          /\ eflags' = IF BootCode[pc].op = "pushf" THEN IFlag ELSE eflags
          /\ UNCHANGED <<frames, current>>
      BY <1>1 DEF BootStep
    <3>2. BootCode[pc].op # "enable" /\ ~IFlag /\ ~eflags
      BY <2>2, QuietCode DEF QuietBoot
    <3>3. ~IFlag'
      BY <3>1, <3>2 DEF Flag
    <3> QED
      BY <2>2, <3>1, <3>2, <3>3 DEF QuietBoot
  <2> QED
    BY <2>1, <2>2 DEF QuietBoot
<1>2. CASE ~BootStep
  <2>1. UNCHANGED <<pc, eflags>>
    BY <1>2 DEF INext, ivars, Raise, Accept, Enter, Syscall, CallHandler, SendEoi,
                Return, Fault, FaultCli, FaultHalt
  <2>2. SUFFICES ASSUME pc <= 5
                 PROVE  frames' = <<>> /\ current' = Boot /\ ~IFlag'
    BY <2>1 DEF QuietBoot
  <2>3. frames = <<>> /\ current = Boot /\ ~IFlag
    BY <2>2 DEF QuietBoot
  <2> QED
    BY <1>2, <2>3
    DEF INext, ivars, Raise, Accept, Enter, Syscall, CallHandler, SendEoi, Return,
        InFrame, Fault, FaultCli, FaultHalt, Procs, Boot
<1> QED
  BY <1>1, <1>2

-----------------------------------------------------------------------------
(* What the PICs have in service *)

InService(f) ==
    IF f # <<>> /\ f[1].at # "iret" /\ f[1].n # SyscallIrq THEN {f[1].n} ELSE {}

LEMMA OneInService ==
    ASSUME NEW f \in Seq(Frame), Len(f) <= 1
    PROVE  {f[i].n : i \in {j \in DOMAIN f : f[j].at # "iret"}} \ {SyscallIrq}
             = InService(f)
<1>1. CASE f = <<>>
  BY <1>1 DEF InService
<1>2. CASE f # <<>>
  <2>1. Len(f) \in Nat \ {0}
    BY <1>2, EmptySeq, Zenon
  <2>2. DOMAIN f = {1}
    <3>0. \A n \in Nat \ {0} : n <= 1 => n = 1
      BY SMT
    <3>1. Len(f) = 1
      BY <2>1, <3>0, Zenon
    <3>2. DOMAIN f = 1 .. 1
      BY <3>1
    <3> QED
      BY <3>2
  <2>3. {j \in DOMAIN f : f[j].at # "iret"} = IF f[1].at # "iret" THEN {1} ELSE {}
    BY <2>2
  <2>4. {f[i].n : i \in {1}} = {f[1].n} /\ {f[i].n : i \in {}} = {}
    OBVIOUS
  <2> QED
    BY <1>2, <2>3, <2>4 DEF InService
<1> QED
  BY <1>1, <1>2

LEMMA EoiEnds == Eoi({}) = {} /\ \A l \in Int : Eoi({l}) = {}
<1>1. ASSUME NEW l \in Int PROVE Highest({l}) = l
  BY DEF Highest
<1> QED
  BY <1>1 DEF Eoi

LEMMA ServiceStep ==
    ASSUME Typed, Typed', Masked, Masked', Owned, ServiceMatches, [INext]_ivars
    PROVE  ServiceMatches'
<1> SUFFICES ASSUME \A c \in Contexts : trap'[c] \in {"no", "entered"}
             PROVE  /\ master' = {Pin(n) : n \in InService(frames')}
                    /\ slave' = {n \in InService(frames') : n > 7}
  BY OneInService DEF ServiceMatches, Unacknowledged, Typed, Masked, OneHandler
<1>1. \A c \in Contexts : trap[c] \in {"no", "entered"}
  <2>1. SUFFICES ASSUME NEW c \in Contexts, trap[c] \in {"masked", "halted"}
                 PROVE  FALSE
    BY DEF Typed, Progress
  <2>2. trap' \in {trap, [trap EXCEPT ![c] = "halted"]}
    BY <2>1, OwnerAlone
  <2>3. trap'[c] \in {"masked", "halted"}
    BY <2>1, <2>2 DEF Typed
  <2> QED
    BY <2>3
<1>2. /\ master = {Pin(n) : n \in InService(frames)}
      /\ slave = {n \in InService(frames) : n > 7}
  BY <1>1, OneInService DEF ServiceMatches, Unacknowledged, Typed, Masked, OneHandler
<1>3. frames = <<>> => InService(frames) = {}
  BY DEF InService
<1>4. Lines \subseteq 0 .. 15
  BY InterruptsAssumption
<1>5. CASE UNCHANGED <<master, slave, frames>>
  BY <1>2, <1>5
<1>6. ASSUME NEW l \in Lines, Accept(l)
      PROVE  /\ master' = {Pin(n) : n \in InService(frames')}
             /\ slave' = {n \in InService(frames') : n > 7}
  <2>1. master = {} /\ slave = {}
    BY <1>2, <1>3, <1>6 DEF Accept, Masked, HandlersMasked
  <2>2. InService(frames') = {l}
    BY <1>4, <1>6, FramesType, EmptySeq DEF Accept, InService, SyscallIrq, Typed
  <2> QED
    BY <1>4, <1>6, <2>1, <2>2 DEF Accept
<1>7. CASE Syscall
  <2>1. frames = <<>> /\ Enter(SyscallIrq) /\ UNCHANGED <<master, slave>>
    BY <1>7 DEF Syscall, Context, Procs, Handler
  <2>2. InService(frames') = {}
    BY <2>1, FramesType DEF InService
  <2> QED
    BY <1>2, <1>3, <2>1, <2>2
<1>8. CASE CallHandler
  <2>1. InService(frames') = InService(frames)
    BY <1>8, MovedOn DEF CallHandler, InFrame, InService, Typed
  <2> QED
    BY <1>2, <1>8, <2>1 DEF CallHandler
<1>9. CASE SendEoi
  <2>1. frames # <<>> /\ frames[1].at = "eoi" /\ frames'[1].at = "iret"
    BY <1>9, MovedOn DEF SendEoi, InFrame, Typed
  <2>2. InService(frames') = {}
    BY <2>1 DEF InService
  <2> DEFINE n == frames[1].n
  <2>3. n \in Lines \cup {SyscallIrq}
    <3>1. frames[1] \in Frame
      BY <2>1 DEF Typed
    <3> QED
      BY <3>1 DEF Frame
  <2>4. /\ slave' = IF n >= 8 THEN Eoi(slave) ELSE slave
        /\ master' = Eoi(master)
    BY <1>9 DEF SendEoi
  <2>5. CASE n = SyscallIrq
    <3>1. master = {} /\ slave = {}
      BY <1>2, <2>5 DEF InService
    <3> QED
      BY <2>2, <2>4, <3>1, EoiEnds
  <2>6. CASE n # SyscallIrq
    <3>0. n \in 0 .. 15
      BY <1>4, <2>3, <2>6
    <3>1. n \in Int /\ Pin(n) \in Int
      BY <3>0 DEF Pin, Cascade
    <3>2. InService(frames) = {n}
      BY <2>1, <2>6 DEF InService
    <3>3. master = {Pin(n)} /\ slave = IF n > 7 THEN {n} ELSE {}
      BY <1>2, <3>2
    <3>4. master' = {} /\ slave' = {}
      BY <2>4, <3>1, <3>3, EoiEnds
    <3> QED
      BY <2>2, <3>4
  <2> QED
    BY <2>5, <2>6
<1>10. CASE Return
  <2>1. frames # <<>> /\ frames[1].at = "iret" /\ frames' = Tail(frames)
        /\ UNCHANGED <<master, slave>>
    BY <1>10 DEF Return, InFrame
  <2>2. InService(frames) = {}
    BY <2>1 DEF InService
  <2>0. frames' \in Seq(Frame) /\ Len(frames') = Len(frames) - 1 /\ Len(frames) \in Nat
    BY <2>1, HeadTailProperties DEF Typed
  <2>3. Len(frames') = 0
    BY <2>0, <2>1, EmptySeq DEF Masked, OneHandler, Typed
  <2>4. frames' = <<>>
    BY <2>0, <2>3, EmptySeq
  <2> QED
    BY <1>2, <2>1, <2>2, <2>4 DEF InService
<1>11. ASSUME NEW c \in Contexts, FaultCli(c) PROVE FALSE
  BY <1>11 DEF FaultCli, Typed
<1>12. ~FaultHalt
  <2>1. Context \in Contexts
    BY DEF Typed, Context, Contexts
  <2> QED
    BY <1>1, <2>1 DEF FaultHalt
<1> QED
  BY <1>5, <1>6, <1>7, <1>8, <1>9, <1>10, <1>11, <1>12
  DEF INext, ivars, Raise, Fault, BootStep

-----------------------------------------------------------------------------
LEMMA InvInit == IInit => IntInv
  BY TypedInit, EoiEnds
  DEF IInit, IntInv, OneHandler, HandlersMasked, Owned, QuietBoot, ServiceMatches,
      Unacknowledged, Contexts

LEMMA InvStep == IntInv /\ [INext]_ivars => IntInv'
  BY TypedStep, MaskedStep, OwnedStep, QuietStep, ServiceStep DEF IntInv, Masked

\* The invariant the theorems below rest on holds in every execution: at most one
\* handler, entered from code with interrupts on, and in service is what it has
\* not acknowledged (idt.cpp, interrupt_handler; idt_handlers.asm).
THEOREM Invariance == ISpec => []IntInv
  BY InvInit, InvStep, PTL DEF ISpec

\* The service the PICs have open is that of the handler that runs, for any
\* devices, whatever order interrupts, system calls and faults come in
\* (interrupt_handler and its EOIs).
THEOREM EoisMatch == ISpec => []ServiceMatches
<1>1. IntInv => ServiceMatches
  BY DEF IntInv
<1> QED
  BY <1>1, Invariance, PTL

\* No handler is interrupted by another (gates of idt32_init, common_irq_stub,
\* register_int_handler).
THEOREM NeverNested == ISpec => []OneHandler
<1>1. IntInv => OneHandler
  BY DEF IntInv
<1> QED
  BY <1>1, Invariance, PTL

\* Boot is not interrupted before enable_interrupts.
THEOREM QuietUntilEnabled == ISpec => []OffUntilEnabled
<1>1. IntInv => OffUntilEnabled
  <2>1. Len(Register(SyscallIrq)) + 1 = 5
    BY DEF Register
  <2> QED
    BY <2>1 DEF IntInv, QuietBoot, OffUntilEnabled, Typed
<1> QED
  BY <1>1, Invariance, PTL

\* Once a fault's screen is up nobody runs again (fault_handler).
THEOREM HaltStays == ISpec => HaltIsFinal
<1>1. IntInv /\ [INext]_ivars => (Halted => UNCHANGED <<frames, current, handlers, pc>>)
  BY OwnerAlone DEF IntInv, Halted
<1>2. IntInv /\ [INext]_ivars
         => [Halted => UNCHANGED <<frames, current, handlers, pc>>]_ivars
  BY <1>1
<1> QED
  BY <1>2, Invariance, PTL DEF ISpec, HaltIsFinal
=============================================================================
