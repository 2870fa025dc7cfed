------------------------------ MODULE PagePool ------------------------------
(***************************************************************************)
(* What a page heap promises to its clients (heap.cpp): the blocks handed  *)
(* out lie inside the heap and never share an entry, a request is refused  *)
(* only when the heap holds no long enough run of entries that are free,   *)
(* and releasing a block, or every block of a process, gives back exactly  *)
(* those entries.  A grant may lose the entry behind the run it looked at. *)
(* Which free run is used, how entries are marked and when pages are       *)
(* cleared is left to the implementation (module Heap).                    *)
(***************************************************************************)
EXTENDS Integers

CONSTANTS
    MaxEntries,  \* number of entries the heap manages
    Counts,      \* sizes of the requests made
    Pids         \* process ids the entries are charged to

VARIABLES
    blocks,      \* the blocks in the hands of clients
    lost,        \* entries that nobody holds and no request can get
    ret,         \* first entry of the block the last request got, or -1
    refused      \* size of the request the last call refused, 0 if it did not

poolVars == <<blocks, lost, ret, refused>>

Entries == 0 .. MaxEntries - 1

Null == -1

Block(i, n, p) == [start |-> i, len |-> n, pid |-> p]

Cover(b) == b.start .. b.start + b.len - 1

Covered == UNION {Cover(b) : b \in blocks}

Free == Entries \ (Covered \cup lost)

PoolInit == blocks = {} /\ lost = {} /\ ret = Null /\ refused = 0

Grant(n, p) ==
    \E i \in Entries :
       /\ Cover(Block(i, n, p)) \subseteq Free
       /\ blocks' = blocks \cup {Block(i, n, p)}
       /\ lost' \in {lost, lost \cup ({i + n + 1} \cap Free)}
       /\ ret' = i
       /\ refused' = 0

\* The source asks for one entry more than it hands out, so a refusal only
\* promises that there was no run of n + 1 free entries.
Refuse(n) ==
    /\ \A i \in Entries : ~(i .. i + n \subseteq Free)
    /\ ret' = Null
    /\ refused' = n
    /\ UNCHANGED <<blocks, lost>>

Release(b) ==
    /\ blocks' = blocks \ {b}
    /\ refused' = 0
    /\ UNCHANGED <<lost, ret>>

\* What is lost may come back when the entries of a process are released.
ReleaseAll(p) ==
    /\ blocks' = {b \in blocks : b.pid # p}
    /\ lost' \subseteq lost
    /\ refused' = 0
    /\ UNCHANGED ret

PoolNext ==
    \/ \E n \in Counts, p \in Pids : Grant(n, p)
    \/ \E n \in Counts : Refuse(n)
    \/ \E b \in blocks : Release(b)
    \/ \E p \in Pids : ReleaseAll(p)

PoolSpec == PoolInit /\ [][PoolNext]_poolVars
=============================================================================
