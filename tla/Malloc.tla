------------------------------- MODULE Malloc -------------------------------
(***************************************************************************)
(* malloc, calloc, realloc, free and cfree (lib/memory.cpp): a chain of    *)
(* entries in the memory of the kernel heap, each a header of 7 bytes and  *)
(* its data.  There is no list beside the memory: the next entry is where  *)
(* the size in a header says, and the chain ends where no magic number     *)
(* stands.  Memory is therefore modelled byte by byte, but of a byte only  *)
(* what it was written for is kept.                                        *)
(*                                                                         *)
(* An iteration of a loop is a step.  The flags dirty and collect decide   *)
(* nothing (malloc sets both before calloc looks) and are left out.        *)
(***************************************************************************)
EXTENDS Integers

CONSTANTS
    Arena,      \* bytes of the heap's data buffer
    ENTRY_SZ,   \* bytes of a page
    Word,       \* 2^32: sizes and addresses wrap here
    HalfWord,   \* 2^16: shrink_entry takes its size as uint16_t
    Requests,   \* the sizes clients ask for
    Onward      \* bound: the calls followed after one has split or combined entries

Header == 7     \* sizeof(DataEntry), packed: magic 2, sz 4, state_flags 1
Bytes == 0 .. Arena - 1

ASSUME MallocAssumption ==
    /\ Arena \in Nat /\ ENTRY_SZ \in Nat \ {0}
    /\ Word \in Nat /\ HalfWord \in 1 .. Word
    /\ Arena + Header < Word
    /\ Requests \subseteq 1 .. Arena
    /\ Onward \in Nat

VARIABLES
    mem,         \* what every byte was last written for
    pages,       \* 0 while start_entry is null, then entry_ind + 1
    run,         \* the running call, its arguments and local variables
    live,        \* history: blocks granted and not freed, [at, sz]
    since,       \* history: calls begun since entries were first split or
                 \* combined, that call included
    ruin         \* history: why behaviour is undefined from here on

history == <<live, since, ruin>>
disordered == since > 0
Disordered == IF since = 0 THEN 1 ELSE since
vars == <<mem, pages, run, history>>

Nothing == [at |-> 0, sz |-> 0]
Idle == [pc |-> "idle", op |-> "none", sz |-> 0, old |-> Nothing,
         i |-> 0, to |-> 0, size |-> 0, p |-> 0]

Zero == <<"zero">>
Unknown == <<"unknown">>
Garbage == -1   \* a number put together from bytes of something else

\* What memory m says where a header would begin.
IsMagic(m, e) == m[e] = <<"magic", 0>> /\ m[e + 1] = <<"magic", 1>>
Used(m, e) == m[e + 6] = <<"used", TRUE>>
Sz(m, e) ==
    IF e + Header > Arena THEN Garbage
    ELSE IF \A k \in 2 .. 5 : m[e + k] = Zero THEN 0
    ELSE IF \A k \in 2 .. 5 : m[e + k][1] = "sz" /\ m[e + k] = <<"sz", k, m[e + 2][3]>>
    THEN m[e + 2][3] ELSE Garbage

\* Mutant of Behind: the header is forgotten.
BehindData(m, e) == (e + Sz(m, e)) % Word

\* The entry after e.
Behind(m, e) == (e + Header + Sz(m, e)) % Word

\* e lies in the heap and, if it bears the magic number, was written whole.
Sound(m, e) ==
    /\ e + Header <= Arena
    /\ IsMagic(m, e) => /\ Sz(m, e) # Garbage
                        /\ m[e + 6] \in {<<"used", TRUE>>, <<"used", FALSE>>}

\* Stores; what falls behind the heap is not part of the model.
WriteSz(m, e, sz) ==
    [c \in Bytes |-> IF c \in e + 2 .. e + 5 THEN <<"sz", c - e, sz>> ELSE m[c]]
WriteUsed(m, e, used) ==
    [c \in Bytes |-> IF c = e + 6 THEN <<"used", used>> ELSE m[c]]
WriteHeader(m, e, sz) ==
    [WriteUsed(WriteSz(m, e, sz), e, TRUE)
        EXCEPT ![e] = <<"magic", 0>>, ![e + 1] = <<"magic", 1>>]

Data(b) == b.at + Header .. b.at + Header + b.sz - 1
Extent(b) == b.at .. b.at + Header + b.sz - 1

\* Mutant of Fill: one byte too many.
FillMore(m, where, byte) ==
    [c \in Bytes |-> IF c \in where \/ c - 1 \in where THEN byte ELSE m[c]]

Fill(m, where, byte) == [c \in Bytes |-> IF c \in where THEN byte ELSE m[c]]

Init ==
    /\ mem = [c \in Bytes |-> Zero]
    /\ pages = 0
    /\ run = Idle
    /\ live = {} /\ since = 0 /\ ruin = "none"

-----------------------------------------------------------------------------
\* shrink_entry: the rest of the entry gets a size and flags, no magic number.
Shrink(m, e, sz) ==
    LET final_sz == sz % HalfWord
        rest == e + Header + final_sz
        left == IF Sz(m, e) = Garbage THEN Garbage
                ELSE (Sz(m, e) - final_sz - Header) % Word
    IN IF final_sz = Sz(m, e) THEN m
       ELSE WriteSz(WriteUsed(WriteSz(m, rest, left), rest, FALSE), e, final_sz)

\* malloc(sz), also as the first thing calloc and realloc do.
Call(op, sz, old) ==
    /\ run.pc = "idle" /\ ruin = "none"
    /\ since <= Onward
    /\ since' = IF disordered THEN since + 1 ELSE 0
    /\ run' = [Idle EXCEPT !.pc = "walk", !.op = op, !.sz = sz, !.old = old]
    /\ pages' = IF pages = 0 THEN 1 ELSE pages
    /\ UNCHANGED <<mem, live, ruin>>

\* The headers the next step goes by.
Small(e) == IsMagic(mem, e) /\ ~Used(mem, e) /\ Sz(mem, e) < run.sz
Consulted ==
    {e \in {run.i} : run.pc = "walk"}
    \cup {Behind(mem, e) : e \in {f \in {run.i} : /\ run.pc = "walk"
                                                  /\ Sound(mem, f)
                                                  /\ Small(f)}}
    \cup {e \in {run.to} : run.pc = "gather" /\ run.size < run.sz}
    \cup {e \in {run.p} : run.pc \in {"combine", "cut"} /\ run.p < run.to}

Running(pc) ==
    /\ run.pc = pc
    /\ ruin = "none"
    /\ \A e \in Consulted : Sound(mem, e)
    /\ UNCHANGED <<pages, live>>

\* A header that was not written whole is gone by, or the walk leaves the heap,
\* as it must when the heap is full: malloc never refuses.
Stray ==
    /\ ruin = "none"
    /\ \E e \in Consulted :
          /\ ~Sound(mem, e)
          /\ ruin' = IF e + Header <= Arena THEN "garbage" ELSE "outside"
    /\ UNCHANGED <<mem, pages, run, live, since>>

Goto(pc) == run' = [run EXCEPT !.pc = pc]

\* No magic number: the chain ends and the new block is put here.
Place ==
    /\ Running("walk")
    /\ ~IsMagic(mem, run.i)
    /\ mem' = WriteHeader(mem, run.i, run.sz)
    /\ Goto("finish")
    /\ UNCHANGED <<since, ruin>>

\* Mutant of Take: an entry in use is as good.
TakeUsed ==
    /\ Running("walk")
    /\ IsMagic(mem, run.i) /\ Sz(mem, run.i) >= run.sz
    /\ mem' = Shrink(mem, run.i, run.sz)
    /\ since' = IF mem' # mem THEN Disordered ELSE since
    /\ Goto("finish")
    /\ UNCHANGED ruin

\* A free entry that is large enough.
Take ==
    /\ Running("walk")
    /\ IsMagic(mem, run.i) /\ ~Used(mem, run.i) /\ ~Small(run.i)
    /\ mem' = Shrink(mem, run.i, run.sz)
    /\ since' = IF mem' # mem THEN Disordered ELSE since
    /\ Goto("finish")
    /\ UNCHANGED ruin

\* A free entry that is too small and the last: what is missing becomes an
\* entry behind it.  Or the entry behind it is free and has what is missing.
\* Otherwise the sizes of the free entries behind it are added up.
Enlarge ==
    LET next == Behind(mem, run.i)
        missing == run.sz - Sz(mem, run.i)
        suffices == ~Used(mem, next) /\ Sz(mem, next) >= missing
    IN /\ Running("walk")
       /\ Small(run.i)
       /\ \/ /\ ~IsMagic(mem, next)
             /\ mem' = WriteHeader(mem, next, missing)
             /\ run' = [run EXCEPT !.pc = "combine", !.to = next, !.p = run.i]
             /\ UNCHANGED since
          \/ /\ IsMagic(mem, next) /\ suffices
             /\ mem' = Shrink(mem, next, missing)
             /\ run' = [run EXCEPT !.pc = "combine", !.to = next, !.p = run.i]
             /\ since' = Disordered
          \/ /\ IsMagic(mem, next) /\ ~suffices
             /\ run' = [run EXCEPT !.pc = "gather", !.to = next,
                                   !.size = Sz(mem, run.i)]
             /\ UNCHANGED <<mem, since>>
       /\ UNCHANGED ruin

Gather ==
    /\ Running("gather")
    /\ \/ /\ run.size >= run.sz
          /\ run' = [run EXCEPT !.pc = "cut", !.p = run.i, !.size = 0]
          /\ since' = Disordered
       \/ /\ run.size < run.sz /\ IsMagic(mem, run.to) /\ ~Used(mem, run.to)
          /\ run' = [run EXCEPT !.size = (@ + Sz(mem, run.to)) % Word,
                                !.to = Behind(mem, @)]
          /\ UNCHANGED since
       \/ /\ run.size < run.sz /\ (IsMagic(mem, run.to) => Used(mem, run.to))
          /\ run' = [run EXCEPT !.pc = "walk", !.i = Behind(mem, @),
                                !.to = 0, !.size = 0]
          /\ UNCHANGED since
    /\ UNCHANGED <<mem, ruin>>

\* Mutant of Skip: i stays where it is.
SkipStays ==
    /\ Running("walk")
    /\ IsMagic(mem, run.i) /\ Used(mem, run.i)
    /\ run' = [run EXCEPT !.i = @]
    /\ UNCHANGED <<mem, since, ruin>>

\* An entry in use: on to the next.
Skip ==
    /\ Running("walk")
    /\ IsMagic(mem, run.i) /\ Used(mem, run.i)
    /\ run' = [run EXCEPT !.i = Behind(mem, @)]
    /\ UNCHANGED <<mem, since, ruin>>

\* combine_entries: the sizes of all entries up to and including to, which may
\* be behind the end of the chain, but not their headers.
Combine(pc) ==
    /\ Running(pc)
    /\ \/ /\ run.p < run.to
          /\ run' = [run EXCEPT !.size = (@ + Sz(mem, run.p)) % Word,
                                !.p = Behind(mem, @)]
          /\ UNCHANGED mem
       \/ /\ run.p >= run.to
          /\ LET last == Sz(mem, run.p)
                 sum == IF last = Garbage THEN Garbage
                        ELSE (run.size + last) % Word
                 whole == WriteSz(mem, run.i, sum)
             IN mem' = IF pc = "cut" THEN Shrink(whole, run.i, run.sz) ELSE whole
          /\ Goto("finish")
    /\ UNCHANGED <<since, ruin>>

Free(m, b) == IF IsMagic(m, b.at) THEN WriteUsed(m, b.at, FALSE) ELSE m

\* Mutant of PagesFor: no page is asked for.
PagesForNone(e) == pages

\* The heap is asked for pages up to the one the header is in.
PagesFor(e) == IF e \div ENTRY_SZ > pages - 1 THEN e \div ENTRY_SZ + 1 ELSE pages

\* memset and memcpy of an odd number of bytes call themselves, for ever.
Recurses == run.op # "malloc" /\ run.sz % 2 = 1

\* The end of malloc, then what calloc and realloc do with the block.
\* The client of malloc may fill the block at once.
Finish ==
    LET b == [at |-> run.i, sz |-> run.sz]
        got == WriteUsed(mem, run.i, TRUE)
        from(c) == run.old.at + c - b.at
        copied == [c \in Bytes |->
                     IF c \notin Data(b) THEN got[c]
                     ELSE IF from(c) \in Bytes THEN got[from(c)] ELSE Unknown]
    IN /\ run.pc = "finish" /\ ruin = "none"
       /\ ~Recurses
       /\ pages' = PagesFor(run.i)
       /\ \E first \in {got, Fill(got, Data(b), <<"data", b.at>>)} :
          mem' = CASE run.op = "malloc" -> first
                   [] run.op = "calloc" -> Fill(got, Data(b), Zero)
                   [] run.op = "realloc" -> Free(copied, run.old)
       /\ live' = (live \ {run.old}) \cup {b}
       /\ ruin' = IF b.at + Header + b.sz > Arena THEN "outside"
                  ELSE IF \E c \in live' \ {b} : Extent(b) \cap Extent(c) # {} THEN "overlap"
                  ELSE "none"
       /\ run' = Idle
       /\ UNCHANGED since

\* malloc has ended, but the memset of calloc or the memcpy of realloc does not:
\* the caller never gets the block, and realloc does not free the old one.
Hang ==
    /\ run.pc = "finish" /\ ruin = "none"
    /\ Recurses
    /\ pages' = PagesFor(run.i)
    /\ mem' = WriteUsed(mem, run.i, TRUE)
    /\ Goto("forever")
    /\ UNCHANGED history

\* free and cfree; cfree clears as much as the header says, once the entry is
\* marked free.
Release(b, clear) ==
    LET sz == IF clear /\ IsMagic(mem, b.at) THEN Sz(mem, b.at) ELSE 0 IN
    /\ run.pc = "idle" /\ ruin = "none"
    /\ \/ /\ sz = Garbage
          /\ ruin' = "garbage"
          /\ UNCHANGED <<mem, run>>
       \/ /\ sz # Garbage /\ sz % 2 = 0
          /\ mem' = Fill(Free(mem, b), Data([at |-> b.at, sz |-> sz]), Zero)
          /\ UNCHANGED <<run, ruin>>
       \/ /\ sz # Garbage /\ sz % 2 = 1
          /\ mem' = Free(mem, b)
          /\ run' = [Idle EXCEPT !.pc = "forever", !.op = "cfree", !.sz = sz % Word]
          /\ UNCHANGED ruin
    /\ live' = live \ {b}
    /\ UNCHANGED <<pages, since>>

CallStep ==
    \/ Place \/ Take \/ Enlarge \/ Gather \/ Skip
    \/ \E pc \in {"combine", "cut"} : Combine(pc)
    \/ Finish \/ Hang \/ Stray

Next ==
    \/ \E sz \in Requests, op \in {"malloc", "calloc"} : Call(op, sz, Nothing)
    \/ \E sz \in Requests, b \in live : Call("realloc", sz, b)
    \/ CallStep
    \/ \E b \in live, clear \in BOOLEAN : Release(b, clear)

\* The processor keeps executing a call that has begun.
Spec == Init /\ [][Next]_vars /\ WF_vars(CallStep)

-----------------------------------------------------------------------------
\* Two blocks malloc has handed out do not overlap, headers included, as long
\* as entries are only reused at their size or, at the end, extended: splitting
\* and combining lose the rest of the chain (memory.cpp:20-51).
Apart ==
    ~disordered => \A b, c \in live : b # c => Extent(b) \cap Extent(c) = {}

\* With the same proviso the walk goes by nothing but headers of the chain, and
\* the header of a block stays in place, marks it used and gives it at least the
\* size asked for: free will find the magic number.
HeadersIntact ==
    ~disordered =>
        /\ ruin # "garbage"
        /\ ruin = "none" =>
              \A b \in live : /\ Sound(mem, b.at) /\ IsMagic(mem, b.at)
                              /\ Used(mem, b.at) /\ Sz(mem, b.at) >= b.sz

\* The pages asked of the kernel heap reach every header (memory.cpp:120).
PagesCover == \A b \in live : b.at \div ENTRY_SZ < pages

\* malloc, calloc, realloc and the releases leave the data of other blocks
\* alone, and realloc keeps what fits of the block it replaces.
HeldDataStable ==
    [][ since' = 0 /\ ruin' = "none" =>
          /\ \A b \in live \cap live' : \A c \in Data(b) :
                mem'[c] = mem[c]
          /\ run.op = "realloc" /\ run'.pc = "idle" =>
                \A k \in 0 .. run.sz - 1 : k < run.old.sz =>
                    mem'[run.i + Header + k] = mem[run.old.at + Header + k]
      ]_vars

\* Every call ends but three: calloc, realloc and cfree with an odd number of
\* bytes never do (memory.cpp:177, 190, 197).  Otherwise only a walk that leaves a
\* full heap, or one that goes by a stray header of a chain once split or combined,
\* is not said to end.
CallReturns ==
    run.pc # "idle" /\ ~Recurses ~>
        \/ run.pc = "idle"
        \/ ruin = "outside"
        \/ ruin = "garbage" /\ disordered
=============================================================================
