----------------------------- MODULE MallocProofs -----------------------------
(***************************************************************************)
(* Theorems about Malloc, for every size of the heap, every word and every *)
(* sequence of requests.  There is no list of the entries beside the       *)
(* memory, so the invariant says which bytes are headers of the chain.     *)
(***************************************************************************)
EXTENDS Malloc, TLAPS

USE MallocAssumption DEF Header

-----------------------------------------------------------------------------
(* Types.  A size in memory is a number, whatever it was put together from. *)

SizesOK(m) == \A c \in Bytes : m[c][1] = "sz" => m[c][3] \in Int

Runs ==
    [pc : {"idle", "walk", "gather", "combine", "cut", "finish", "forever"},
     op : {"none", "malloc", "calloc", "realloc", "cfree"},
     sz : Nat, old : [at : Nat, sz : Nat],
     i : Nat, to : Nat, size : Int, p : Nat]

TypeInv ==
    /\ SizesOK(mem)
    /\ run \in Runs
    /\ run.pc \notin {"idle", "forever"} =>
          run.sz \in Requests /\ run.op \in {"malloc", "calloc", "realloc"}
    /\ pages \in Nat /\ since \in Nat
    /\ live \subseteq [at : Nat, sz : Nat]
    /\ PagesCover

\* Tags of different kinds differ.
LEMMA Tags ==
  /\ Zero[1] # "sz" /\ Unknown[1] # "sz"
  /\ \A k, n : <<"magic", k>>[1] # "sz" /\ <<"used", n>>[1] # "sz" /\ <<"data", n>>[1] # "sz"
  /\ \A k, n : <<"sz", k, n>>[1] = "sz" /\ <<"sz", k, n>>[3] = n
  /\ \A k, n : <<"sz", k, n>> # <<"magic", 0>> /\ <<"sz", k, n>> # Zero
  /\ \A n : <<"used", n>> # <<"magic", 0>>
  /\ <<"magic", 1>> # <<"magic", 0>> /\ Zero # <<"magic", 0>>
<1>1. /\ Zero[1] # "sz" /\ Unknown[1] # "sz"
      /\ \A k, n : <<"magic", k>>[1] # "sz" /\ <<"used", n>>[1] # "sz" /\ <<"data", n>>[1] # "sz"
      /\ \A k, n : <<"sz", k, n>>[1] = "sz" /\ <<"sz", k, n>>[3] = n
  BY DEF Zero, Unknown
<1>2. <<"magic", 0>>[1] = "magic" /\ <<"magic", 0>>[2] = 0 /\ <<"magic", 1>>[2] = 1
  OBVIOUS
<1>3. Zero[1] = "zero" /\ \A n : <<"used", n>>[1] = "used"
  BY DEF Zero
<1>4. "magic" # "sz" /\ "zero" # "sz" /\ "used" # "magic" /\ "zero" # "magic" /\ 0 # 1
  OBVIOUS
<1> QED
  BY <1>1, <1>2, <1>3, <1>4, Zenon

LEMMA SzTyped ==
  ASSUME NEW m, SizesOK(m), NEW e \in Nat
  PROVE  Sz(m, e) \in Int /\ Behind(m, e) \in 0 .. Word - 1
<1>1. Sz(m, e) \in Int
  <2>1. CASE e + Header > Arena
    BY <2>1 DEF Sz, Garbage
  <2>2. CASE ~(e + Header > Arena)
    <3>1. e + 2 \in Bytes
      BY <2>2 DEF Bytes
    <3>2. m[e + 2][1] = "sz" => m[e + 2][3] \in Int
      BY <3>1 DEF SizesOK
    <3> QED
      BY <2>2, <3>2 DEF Sz, Garbage
  <2> QED
    BY <2>1, <2>2
<1> QED
  BY <1>1 DEF Behind

LEMMA WritesTyped ==
  ASSUME NEW m, SizesOK(m), NEW e \in Int, NEW sz \in Int
  PROVE  /\ SizesOK(WriteSz(m, e, sz))
         /\ \A u : SizesOK(WriteUsed(m, e, u))
         /\ SizesOK(WriteHeader(m, e, sz))
<1>1. SizesOK(WriteSz(m, e, sz))
  BY Tags DEF SizesOK, WriteSz
<1>2. ASSUME NEW m2, SizesOK(m2), NEW u
      PROVE  SizesOK(WriteUsed(m2, e, u))
  BY <1>2, Tags DEF SizesOK, WriteUsed
<1>3. SizesOK(WriteHeader(m, e, sz))
  <2> DEFINE w == WriteUsed(WriteSz(m, e, sz), e, TRUE)
  <2>1. SizesOK(w) /\ w = [c \in Bytes |-> w[c]]
    BY <1>1, <1>2 DEF WriteUsed
  <2> HIDE DEF w
  <2>2. SizesOK([w EXCEPT ![e] = <<"magic", 0>>, ![e + 1] = <<"magic", 1>>])
    BY <2>1, Tags DEF SizesOK
  <2> QED
    BY <2>2 DEF WriteHeader, w
<1> QED
  BY <1>1, <1>2, <1>3

LEMMA ShrinkTyped ==
  ASSUME NEW m, SizesOK(m), NEW e \in Nat, NEW sz \in Int
  PROVE  SizesOK(Shrink(m, e, sz))
<1> DEFINE final_sz == sz % HalfWord
           rest == e + Header + final_sz
           left == IF Sz(m, e) = Garbage THEN Garbage
                   ELSE (Sz(m, e) - final_sz - Header) % Word
<1>1. final_sz \in Int /\ rest \in Int /\ left \in Int
  BY SzTyped DEF Garbage
<1>2. Shrink(m, e, sz) = IF final_sz = Sz(m, e) THEN m
         ELSE WriteSz(WriteUsed(WriteSz(m, rest, left), rest, FALSE), e, final_sz)
  BY Zenon DEF Shrink
<1> HIDE DEF final_sz, rest, left
<1>3. SizesOK(WriteSz(m, rest, left))
  BY <1>1, WritesTyped
<1> DEFINE m1 == WriteSz(m, rest, left)
           m2 == WriteUsed(m1, rest, FALSE)
<1>4. SizesOK(m1)
  BY <1>3
<1> HIDE DEF m1
<1>5. \A u : SizesOK(WriteUsed(m1, rest, u))
  BY <1>1, <1>4, WritesTyped
<1>6. SizesOK(m2)
  BY <1>5
<1> HIDE DEF m2
<1>7. SizesOK(WriteSz(m2, e, final_sz))
  BY <1>1, <1>6, WritesTyped
<1>8. Shrink(m, e, sz) = IF final_sz = Sz(m, e) THEN m ELSE WriteSz(m2, e, final_sz)
  BY <1>2, Zenon DEF m1, m2
<1> QED
  BY <1>7, <1>8

LEMMA FillTyped ==
  ASSUME NEW m, SizesOK(m), NEW where, NEW byte, byte[1] # "sz"
  PROVE  SizesOK(Fill(m, where, byte))
  BY DEF SizesOK, Fill

LEMMA FreeTyped ==
  ASSUME NEW m, SizesOK(m), NEW b \in [at : Nat, sz : Nat]
  PROVE  SizesOK(Free(m, b))
<1>1. b.at \in Int
  OBVIOUS
<1>2. \A u : SizesOK(WriteUsed(m, b.at, u))
  BY <1>1, WritesTyped
<1> QED
  BY <1>2 DEF Free

LEMMA TypeInit == Init => TypeInv
<1> SUFFICES ASSUME Init PROVE TypeInv
  OBVIOUS
<1>1. SizesOK(mem)
  BY Tags DEF Init, SizesOK
<1> QED
  BY <1>1 DEF Init, TypeInv, Runs, Idle, Nothing, PagesCover

LEMMA PagesGrow ==
  ASSUME TypeInv, NEW e \in Nat, pages' = PagesFor(e)
  PROVE  pages' \in Nat /\ pages' >= pages /\ e \div ENTRY_SZ < pages'
<1>1. e \div ENTRY_SZ \in Nat
  OBVIOUS
<1> DEFINE page == e \div ENTRY_SZ
<1> HIDE DEF page
<1>2. page \in Nat /\ pages' = IF page > pages - 1 THEN page + 1 ELSE pages
  BY <1>1 DEF PagesFor, page
<1>3. pages' \in Nat /\ pages' >= pages /\ page < pages'
  BY <1>2 DEF TypeInv
<1> QED
  BY <1>3 DEF page

LEMMA TypeKept == TypeInv /\ [Next]_vars => TypeInv'
<1> SUFFICES ASSUME TypeInv, [Next]_vars PROVE TypeInv'
  OBVIOUS
<1>i. /\ run.i \in Nat /\ run.to \in Nat /\ run.p \in Nat /\ run.size \in Int /\ run.sz \in Nat
      /\ run.old \in [at : Nat, sz : Nat] /\ run.old.at \in Nat
  BY DEF TypeInv, Runs
<1>a. \A e \in Nat : Sz(mem, e) \in Int /\ Behind(mem, e) \in 0 .. Word - 1 /\ Behind(mem, e) \in Nat
  BY SzTyped DEF TypeInv
<1>b. \A e \in Nat, sz \in Int : SizesOK(Shrink(mem, e, sz))
  BY ShrinkTyped DEF TypeInv
<1>c. \A e \in Nat, sz \in Int : SizesOK(WriteHeader(mem, e, sz)) /\ SizesOK(WriteSz(mem, e, sz))
  BY WritesTyped DEF TypeInv
<1>1. ASSUME NEW sz \in Requests, NEW op \in {"malloc", "calloc", "realloc"},
             NEW old \in [at : Nat, sz : Nat], Call(op, sz, old)
      PROVE  TypeInv'
  <2>1. sz \in Nat
    OBVIOUS
  <2>2. run' \in Runs /\ run'.sz \in Requests /\ run'.op \in {"malloc", "calloc", "realloc"}
    <3>1. run' = [pc |-> "walk", op |-> op, sz |-> sz, old |-> old,
                  i |-> 0, to |-> 0, size |-> 0, p |-> 0]
      BY <1>1 DEF Call, Idle
    <3>2. op \in {"none", "malloc", "calloc", "realloc", "cfree"}
      OBVIOUS
    <3> QED
      BY <3>1, <3>2, <2>1 DEF Runs
  <2>3. pages' \in Nat /\ since' \in Nat /\ live' = live /\ mem' = mem
    BY <1>1 DEF Call, TypeInv
  <2>4. PagesCover'
    BY <1>1, <2>3 DEF Call, TypeInv, PagesCover
  <2> QED
    BY <2>2, <2>3, <2>4 DEF TypeInv, SizesOK
<1>2. CASE Place
  BY <1>2, <1>i, <1>c DEF Place, Running, Goto, TypeInv, Runs, PagesCover
<1>d. Disordered \in Nat
  BY DEF TypeInv, Disordered
<1>3. CASE Take
  BY <1>3, <1>i, <1>b, <1>d DEF Take, Running, Goto, TypeInv, Runs, PagesCover
<1>4. CASE Enlarge
  <2> DEFINE next == Behind(mem, run.i)
             missing == run.sz - Sz(mem, run.i)
  <2>1. next \in Nat /\ missing \in Int /\ Sz(mem, run.i) \in Int
    BY <1>i, <1>a
  <2>2. SizesOK(WriteHeader(mem, next, missing)) /\ SizesOK(Shrink(mem, next, missing))
    BY <2>1, <1>b, <1>c
  <2> HIDE DEF next, missing
  <2>3. SizesOK(mem')
    BY <1>4, <2>2 DEF Enlarge, TypeInv, next, missing
  <2>4. run' \in Runs /\ (run'.pc \notin {"idle", "forever"} => run'.sz \in Requests /\ run'.op \in {"malloc", "calloc", "realloc"})
    BY <1>4, <2>1, <1>i DEF Enlarge, Running, TypeInv, Runs, next
  <2>5. pages' = pages /\ live' = live /\ since' \in Nat
    BY <1>4, <1>d DEF Enlarge, Running, TypeInv
  <2> QED
    BY <2>3, <2>4, <2>5 DEF TypeInv, PagesCover
<1>5. CASE Gather
  <2>1. run' \in Runs /\ (run'.pc \notin {"idle", "forever"} => run'.sz \in Requests /\ run'.op \in {"malloc", "calloc", "realloc"})
    <3>1. /\ (run.size + Sz(mem, run.to)) % Word \in Int
          /\ Behind(mem, run.to) \in Nat /\ Behind(mem, run.i) \in Nat
      <4>1. run.size + Sz(mem, run.to) \in Int
        BY <1>i, <1>a
      <4> QED
        BY <1>i, <1>a, <4>1
    <3>2. run.pc = "gather" /\ run \in Runs /\ run.sz \in Requests
          /\ run.op \in {"malloc", "calloc", "realloc"}
      BY <1>5 DEF Gather, Running, TypeInv
    <3>3. \/ run' = [run EXCEPT !.pc = "cut", !.p = run.i, !.size = 0]
          \/ run' = [run EXCEPT !.size = (run.size + Sz(mem, run.to)) % Word,
                                !.to = Behind(mem, run.to)]
          \/ run' = [run EXCEPT !.pc = "walk", !.i = Behind(mem, run.i),
                                !.to = 0, !.size = 0]
      BY <1>5, <3>2 DEF Gather, Runs
    <3> DEFINE total == (run.size + Sz(mem, run.to)) % Word
               after == Behind(mem, run.to)
               next == Behind(mem, run.i)
    <3>4. total \in Int /\ after \in Nat /\ next \in Nat
      BY <3>1
    <3>5. \/ run' = [run EXCEPT !.pc = "cut", !.p = run.i, !.size = 0]
          \/ run' = [run EXCEPT !.size = total, !.to = after]
          \/ run' = [run EXCEPT !.pc = "walk", !.i = next, !.to = 0, !.size = 0]
      BY <3>3
    <3> HIDE DEF total, after, next
    <3>6. CASE run' = [run EXCEPT !.pc = "cut", !.p = run.i, !.size = 0]
      <4>1. run' = [pc |-> "cut", op |-> run.op, sz |-> run.sz, old |-> run.old,
                    i |-> run.i, to |-> run.to, size |-> 0, p |-> run.i]
        BY <3>2, <3>6 DEF Runs
      <4> QED
        BY <4>1, <3>2, <1>i DEF Runs
    <3>7. CASE run' = [run EXCEPT !.size = total, !.to = after]
      BY <3>2, <3>4, <3>7, <1>i DEF Runs
    <3>8. CASE run' = [run EXCEPT !.pc = "walk", !.i = next, !.to = 0, !.size = 0]
      <4>1. run' = [pc |-> "walk", op |-> run.op, sz |-> run.sz, old |-> run.old,
                    i |-> next, to |-> 0, size |-> 0, p |-> run.p]
        BY <3>2, <3>8 DEF Runs
      <4> QED
        BY <4>1, <3>2, <3>4, <1>i DEF Runs
    <3> QED
      BY <3>5, <3>6, <3>7, <3>8
  <2>2. pages' = pages /\ live' = live /\ mem' = mem /\ since' \in Nat
    BY <1>5, <1>d DEF Gather, Running, TypeInv
  <2> QED
    BY <2>1, <2>2 DEF TypeInv, PagesCover
<1>6. CASE Skip
  BY <1>6, <1>i, <1>a DEF Skip, Running, TypeInv, Runs, PagesCover
<1>7. ASSUME NEW pc \in {"combine", "cut"}, Combine(pc)
      PROVE  TypeInv'
  <2> DEFINE last == Sz(mem, run.p)
             sum == IF last = Garbage THEN Garbage ELSE (run.size + last) % Word
             whole == WriteSz(mem, run.i, sum)
  <2>1. sum \in Int
    BY <1>i, <1>a DEF Garbage
  <2> HIDE DEF sum
  <2>2. SizesOK(whole)
    BY <2>1, <1>i, <1>c
  <2> HIDE DEF whole
  <2>3. SizesOK(Shrink(whole, run.i, run.sz))
    <3>1. run.i \in Nat /\ run.sz \in Int
      BY <1>i
    <3> QED
      BY <2>2, <3>1, ShrinkTyped, Zenon
  <2>4. SizesOK(mem')
    BY <1>7, <2>2, <2>3 DEF Combine, TypeInv, whole, sum
  <2>5. run' \in Runs /\ (run'.pc \notin {"idle", "forever"} => run'.sz \in Requests /\ run'.op \in {"malloc", "calloc", "realloc"})
    <3>1. (run.size + Sz(mem, run.p)) % Word \in Int /\ Behind(mem, run.p) \in Nat
      <4>1. run.size + Sz(mem, run.p) \in Int
        BY <1>i, <1>a
      <4> QED
        BY <1>i, <1>a, <4>1
    <3>2. run.pc \in {"combine", "cut"} /\ run \in Runs /\ run.sz \in Requests
          /\ run.op \in {"malloc", "calloc", "realloc"}
      BY <1>7 DEF Combine, Running, TypeInv
    <3>3. \/ run' = [run EXCEPT !.size = (run.size + Sz(mem, run.p)) % Word,
                                !.p = Behind(mem, run.p)]
          \/ run' = [run EXCEPT !.pc = "finish"]
      BY <1>7, <3>2 DEF Combine, Goto, Runs
    <3> QED
      BY <3>1, <3>2, <3>3, <1>i DEF Runs
  <2> QED
    BY <1>7, <2>4, <2>5 DEF Combine, Running, TypeInv, PagesCover
<1>8. CASE Finish
  <2> DEFINE b == [at |-> run.i, sz |-> run.sz]
             got == WriteUsed(mem, run.i, TRUE)
             from(c) == run.old.at + c - b.at
             copied == [c \in Bytes |->
                          IF c \notin Data(b) THEN got[c]
                          ELSE IF from(c) \in Bytes THEN got[from(c)] ELSE Unknown]
  <2>1. SizesOK(got)
    <3>1. run.i \in Int /\ SizesOK(mem)
      BY <1>i DEF TypeInv
    <3>2. \A u : SizesOK(WriteUsed(mem, run.i, u))
      BY <3>1, WritesTyped
    <3> QED
      BY <3>2
  <2>2. SizesOK(Fill(got, Data(b), <<"data", run.i>>)) /\ SizesOK(Fill(got, Data(b), Zero))
    <3> HIDE DEF got
    <3>1. <<"data", run.i>>[1] # "sz" /\ Zero[1] # "sz"
      BY Tags
    <3> QED
      BY <2>1, <3>1, FillTyped
  <2>3. SizesOK(copied)
    <3> HIDE DEF got, from
    <3> QED
      BY <2>1, Tags DEF SizesOK
  <2>4. SizesOK(Free(copied, run.old))
    <3> HIDE DEF copied
    <3> QED
      BY <2>3, <1>i, FreeTyped
  <2>5. SizesOK(mem')
    <3>1. \E first \in {got, Fill(got, Data(b), <<"data", b.at>>)} :
             mem' = CASE run.op = "malloc" -> first
                      [] run.op = "calloc" -> Fill(got, Data(b), Zero)
                      [] run.op = "realloc" -> Free(copied, run.old)
      BY <1>8 DEF Finish
    <3>2. run.op \in {"malloc", "calloc", "realloc"}
      BY <1>8 DEF Finish, TypeInv, Runs
    <3> HIDE DEF got, copied
    <3> QED
      BY <3>1, <3>2, <2>1, <2>2, <2>4
  <2>6. run' = Idle /\ live' = (live \ {run.old}) \cup {b} /\ pages' = PagesFor(run.i) /\ since' = since
    BY <1>8 DEF Finish
  <2>7. b \in [at : Nat, sz : Nat] /\ b.at = run.i
    <3>1. run.sz \in Nat
      BY <1>8 DEF Finish, TypeInv
    <3> QED
      BY <3>1, <1>i
  <2> HIDE DEF b
  <2>8. pages' \in Nat /\ PagesCover'
    <3> DEFINE page == run.i \div ENTRY_SZ
    <3>3. pages' \in Nat /\ pages' >= pages /\ page < pages'
      BY <2>6, <1>i, PagesGrow
    <3> HIDE DEF page
    <3>4. ASSUME NEW d \in live'
          PROVE  d.at \div ENTRY_SZ < pages'
      <4>1. CASE d = b
        BY <4>1, <2>7, <3>3 DEF page
      <4>2. CASE d \in live
        <5>1. d.at \in Nat /\ d.at \div ENTRY_SZ < pages
          BY <4>2 DEF TypeInv, PagesCover
        <5>2. d.at \div ENTRY_SZ \in Int
          BY <5>1
        <5> QED
          BY <5>1, <5>2, <3>3 DEF TypeInv
      <4> QED
        BY <4>1, <4>2, <2>6
    <3> QED
      BY <3>3, <3>4 DEF PagesCover
  <2> QED
    BY <2>5, <2>6, <2>7, <2>8 DEF TypeInv, Runs, Idle, Nothing
<1>9. CASE Stray
  BY <1>9 DEF Stray, TypeInv, SizesOK, PagesCover
<1>12. CASE Hang
  <2>1. /\ mem' = WriteUsed(mem, run.i, TRUE) /\ run' = [run EXCEPT !.pc = "forever"]
        /\ pages' = PagesFor(run.i) /\ live' = live /\ since' = since
    BY <1>12 DEF Hang, Goto, history
  <2>2. SizesOK(mem')
    <3>1. run.i \in Int /\ SizesOK(mem)
      BY <1>i DEF TypeInv
    <3>2. \A u : SizesOK(WriteUsed(mem, run.i, u))
      BY <3>1, WritesTyped
    <3> QED
      BY <3>2, <2>1
  <2>3. run' \in Runs /\ run'.pc = "forever"
    BY <2>1 DEF TypeInv, Runs
  <2>4. pages' \in Nat /\ pages' >= pages
    BY <2>1, <1>i, PagesGrow
  <2>5. ASSUME NEW d \in live
        PROVE  d.at \div ENTRY_SZ < pages'
    <3>1. d.at \in Nat /\ d.at \div ENTRY_SZ < pages
      BY DEF TypeInv, PagesCover
    <3>2. d.at \div ENTRY_SZ \in Int
      BY <3>1
    <3> QED
      BY <3>1, <3>2, <2>4 DEF TypeInv
  <2> QED
    BY <2>1, <2>2, <2>3, <2>4, <2>5 DEF TypeInv, PagesCover
<1>10. ASSUME NEW b \in live, NEW clear \in BOOLEAN, Release(b, clear)
       PROVE  TypeInv'
  <2> DEFINE sz == IF clear /\ IsMagic(mem, b.at) THEN Sz(mem, b.at) ELSE 0
             d == [at |-> b.at, sz |-> sz]
  <2>1. b \in [at : Nat, sz : Nat]
    BY DEF TypeInv
  <2>2. SizesOK(Free(mem, b))
    BY <2>1, FreeTyped DEF TypeInv
  <2>3. SizesOK(Fill(Free(mem, b), Data(d), Zero))
    <3>1. Zero[1] # "sz"
      BY Tags
    <3> QED
      BY <2>2, <3>1, FillTyped
  <2>4. SizesOK(mem')
    <3>1. mem' = mem \/ mem' = Free(mem, b) \/ mem' = Fill(Free(mem, b), Data(d), Zero)
      BY <1>10 DEF Release
    <3> QED
      BY <3>1, <2>2, <2>3 DEF TypeInv
  <2>5. sz \in Int
    BY <2>1, SzTyped DEF TypeInv
  <2>6. run.pc = "idle" /\ pages' = pages /\ since' = since /\ live' = live \ {b}
    BY <1>10 DEF Release
  <2>7. run' = run \/ run' = [Idle EXCEPT !.pc = "forever", !.op = "cfree", !.sz = sz % Word]
    BY <1>10 DEF Release
  <2>9. sz % Word \in Nat
    BY <2>5
  <2> DEFINE count == sz % Word
  <2> HIDE DEF count
  <2>8. run' \in Runs /\ run'.pc \in {"idle", "forever"}
    <3>1. CASE run' = run
      BY <3>1, <2>6 DEF TypeInv
    <3>2. CASE run' = [Idle EXCEPT !.pc = "forever", !.op = "cfree", !.sz = sz % Word]
      <4>1. run' = [pc |-> "forever", op |-> "cfree", sz |-> count, old |-> Nothing,
                    i |-> 0, to |-> 0, size |-> 0, p |-> 0]
        BY <3>2 DEF Idle, count
      <4> QED
        BY <4>1, <2>9 DEF Runs, Nothing, count
    <3> QED
      BY <2>7, <3>1, <3>2
  <2> QED
    BY <2>4, <2>6, <2>8 DEF TypeInv, PagesCover
<1>11. CASE UNCHANGED vars
  BY <1>11 DEF vars, history, TypeInv, SizesOK, PagesCover
<1> QED
  <2>1. Nothing \in [at : Nat, sz : Nat] /\ live \subseteq [at : Nat, sz : Nat]
    BY DEF Nothing, TypeInv
  <2> QED
    BY <2>1, <1>1, <1>2, <1>3, <1>4, <1>5, <1>6, <1>7, <1>8, <1>9, <1>10, <1>11, <1>12 DEF Next, CallStep

\* The kernel heap has been asked for the page of every header malloc hands
\* out, split and combined entries included (memory.cpp:118-120).
THEOREM MallocPages == Spec => []PagesCover
<1>1. Spec => []TypeInv
  BY TypeInit, TypeKept, PTL DEF Spec
<1>2. TypeInv => PagesCover
  BY DEF TypeInv
<1> QED
  BY <1>1, <1>2, PTL

-----------------------------------------------------------------------------
(* The chain.  size says where the headers stand and how much each entry    *)
(* holds; top is the first byte behind the last entry.  It may be behind    *)
(* the heap while a call is under way that will be found outside.           *)

Magic == <<"magic", 0>>
Marks == {<<"used", TRUE>>, <<"used", FALSE>>}
Places == 0 .. Arena - Header

HeaderAt(m, e, n) ==
    /\ m[e] = Magic /\ m[e + 1] = <<"magic", 1>>
    /\ \A k \in 2 .. 5 : m[e + k] = <<"sz", k, n>>
    /\ m[e + 6] \in Marks

EndOf(size, e) == e + Header + size[e]

Chain(m, size, top) ==
    /\ DOMAIN size \subseteq Places
    /\ size \in [DOMAIN size -> 1 .. Arena]
    /\ top \in Nat
    /\ 0 \in DOMAIN size \cup {top}
    /\ \A e \in DOMAIN size :
          /\ HeaderAt(m, e, size[e])
          /\ EndOf(size, e) \in DOMAIN size \cup {top}
          /\ EndOf(size, e) <= top
    /\ \A e, f \in DOMAIN size : e < f => EndOf(size, e) <= f
    /\ \A c \in Bytes : c >= top => m[c] # Magic

\* Every block is an entry marked used that holds it.
Blocks(m, size, blocks) ==
    /\ \A b \in blocks : /\ b.at \in DOMAIN size
                         /\ Used(m, b.at)
                         /\ b.sz \in 1 .. size[b.at]
                         /\ b.at + Header + b.sz <= Arena
    /\ \A b, c \in blocks : b.at = c.at => b = c

\* Where a call has got to.
RunAt(m, r, size, top, blocks) ==
    \/ /\ r.pc = "idle" /\ r.op = "none" /\ top <= Arena
    \/ /\ r.pc = "walk" /\ top <= Arena /\ r.size = 0
       /\ r.i \in DOMAIN size \cup {top}
    \/ /\ r.pc = "gather" /\ top <= Arena
       /\ r.i \in DOMAIN size /\ r.to \in DOMAIN size \cup {top}
    \/ /\ r.pc = "combine"
       /\ r.i \in DOMAIN size /\ r.to \in DOMAIN size
       /\ EndOf(size, r.i) = r.to /\ EndOf(size, r.to) = top
       /\ r.sz = size[r.i] + size[r.to]
       /\ \/ r.p = r.i /\ r.size = 0
          \/ r.p = r.to /\ r.size = size[r.i]
       /\ \A c \in Bytes : c > r.to => m[c] # Magic
       /\ \A b \in blocks : b.at # r.i /\ b.at # r.to
    \/ /\ r.pc = "finish"
       /\ r.i \in DOMAIN size /\ size[r.i] >= r.sz
       /\ \/ top <= Arena
          \/ EndOf(size, r.i) = top /\ size[r.i] = r.sz
       /\ \A b \in blocks : b.at # r.i
    \/ r.pc = "forever"

Replaced(r, blocks) ==
    IF r.op = "realloc" THEN r.old \in blocks ELSE r.old = Nothing

ChainInv(size, top) ==
    /\ Chain(mem, size, top)
    /\ Blocks(mem, size, live)
    /\ RunAt(mem, run, size, top, live)
    /\ Replaced(run, live)

\* As long as nothing has been split or combined there is a chain, and the
\* blocks handed out do not overlap.
OrderlyInv ==
    since = 0 =>
        /\ ruin # "garbage"
        /\ \A b, c \in live : b # c => Extent(b) \cap Extent(c) = {}
        /\ ruin = "none" => \E size, top : ChainInv(size, top)

LEMMA Marking ==
  /\ \A u \in BOOLEAN : <<"used", u>> \in Marks /\ <<"used", u>> # Magic
  /\ <<"used", TRUE>> # <<"used", FALSE>>
  /\ \A k, n : <<"sz", k, n>> # Magic /\ <<"sz", k, n>> # Zero
  /\ <<"magic", 1>> # Magic /\ Zero # Magic /\ Unknown # Magic
  /\ \A n : <<"data", n>> # Magic
<1>1. \A u \in BOOLEAN : <<"used", u>> \in Marks
  BY Zenon DEF Marks
<1>2. <<"used", TRUE>> # <<"used", FALSE>>
  <2>1. <<"used", TRUE>>[2] = TRUE /\ <<"used", FALSE>>[2] = FALSE
    OBVIOUS
  <2> QED
    BY <2>1, Zenon
<1>3. \A n : <<"used", n>>[1] = "used" /\ <<"data", n>>[1] = "data"
  OBVIOUS
<1>4. \A k, n : <<"sz", k, n>>[1] = "sz"
  OBVIOUS
<1>5. Magic[1] = "magic" /\ Magic[2] = 0 /\ <<"magic", 1>>[2] = 1
  BY DEF Magic
<1>6. Zero[1] = "zero" /\ Unknown[1] = "unknown"
  BY DEF Zero, Unknown
<1>7. /\ "used" # "magic" /\ "data" # "magic" /\ "sz" # "magic" /\ "sz" # "zero"
      /\ "zero" # "magic" /\ "unknown" # "magic" /\ 0 # 1
  OBVIOUS
<1> QED
  BY <1>1, <1>2, <1>3, <1>4, <1>5, <1>6, <1>7, Zenon

LEMMA PlaceBytes ==
  ASSUME NEW e \in Places, NEW k \in 0 .. 6
  PROVE  e + k \in Bytes /\ e \in Nat /\ e + k \in Nat /\ e + Header <= Arena
  BY DEF Places, Bytes

LEMMA HeaderRead ==
  ASSUME NEW m, NEW e \in Places, NEW n \in Nat, HeaderAt(m, e, n)
  PROVE  /\ Sz(m, e) = n /\ IsMagic(m, e) /\ Sound(m, e)
         /\ e + Header + n < Word => Behind(m, e) = e + Header + n
<1>1. e + Header <= Arena /\ e \in Nat
  BY DEF Places
<1>2. IsMagic(m, e)
  BY DEF HeaderAt, IsMagic, Magic
<1>3. \A k \in 2 .. 5 : m[e + k] = <<"sz", k, n>>
  BY DEF HeaderAt
<1>4. m[e + 2] = <<"sz", 2, n>> /\ m[e + 2][3] = n
  BY <1>3
<1>5. \A k \in 2 .. 5 : m[e + k] # Zero
  BY <1>3, Marking
<1>6. Sz(m, e) = n
  BY <1>1, <1>3, <1>4, <1>5 DEF Sz
<1>7. Sound(m, e)
  <2>1. m[e + 6] \in {<<"used", TRUE>>, <<"used", FALSE>>}
    BY Zenon DEF HeaderAt, Marks
  <2>2. Sz(m, e) # Garbage
    BY <1>6 DEF Garbage
  <2> QED
    BY <1>1, <2>1, <2>2, Zenon DEF Sound
<1> QED
  BY <1>1, <1>2, <1>6, <1>7 DEF Behind

LEMMA HeaderFrame ==
  ASSUME NEW m, NEW m2, NEW e \in Places, NEW n,
         \A k \in 0 .. 6 : m2[e + k] = m[e + k]
  PROVE  /\ HeaderAt(m, e, n) => HeaderAt(m2, e, n)
         /\ Used(m, e) => Used(m2, e)
<1>1. m2[e] = m[e]
  <2>1. m2[e + 0] = m[e + 0] /\ e + 0 = e
    BY DEF Places
  <2> QED
    BY <2>1
<1>2. m2[e + 1] = m[e + 1] /\ m2[e + 6] = m[e + 6] /\ \A k \in 2 .. 5 : m2[e + k] = m[e + k]
  OBVIOUS
<1>3. Used(m, e) => Used(m2, e)
  BY <1>2, Zenon DEF Used
<1> QED
  BY <1>1, <1>2, <1>3 DEF HeaderAt

\* What the three stores do at a place where a header fits.
LEMMA UsedWritten ==
  ASSUME NEW m, NEW e \in Places, NEW u \in BOOLEAN
  PROVE  /\ \A c \in Bytes : c # e + 6 => WriteUsed(m, e, u)[c] = m[c]
         /\ WriteUsed(m, e, u)[e + 6] = <<"used", u>>
         /\ \A c \in Bytes : m[c] # Magic => WriteUsed(m, e, u)[c] # Magic
         /\ \A n : HeaderAt(m, e, n) => HeaderAt(WriteUsed(m, e, u), e, n)
<1>1. e + 6 \in Bytes /\ e \in Nat
  BY DEF Places, Bytes
<1>2. /\ \A c \in Bytes : c # e + 6 => WriteUsed(m, e, u)[c] = m[c]
      /\ WriteUsed(m, e, u)[e + 6] = <<"used", u>>
  BY <1>1 DEF WriteUsed
<1>3. <<"used", u>> # Magic /\ <<"used", u>> \in Marks
  BY Marking
<1>4. \A c \in Bytes : m[c] # Magic => WriteUsed(m, e, u)[c] # Magic
  BY <1>2, <1>3
<1> DEFINE w == WriteUsed(m, e, u)
<1> HIDE DEF w
<1>5. \A k \in 0 .. 5 : w[e + k] = m[e + k]
  <2>1. \A k \in 0 .. 5 : e + k \in Bytes /\ e + k # e + 6
    BY DEF Places, Bytes
  <2> QED
    BY <2>1, <1>2 DEF w
<1>6. ASSUME NEW n, HeaderAt(m, e, n)
      PROVE  HeaderAt(w, e, n)
  <2>1. w[e] = m[e]
    <3>1. w[e + 0] = m[e + 0] /\ e + 0 = e
      BY <1>1, <1>5
    <3> QED
      BY <3>1
  <2>2. w[e + 6] \in Marks
    BY <1>2, <1>3 DEF w
  <2> QED
    BY <1>5, <1>6, <2>1, <2>2 DEF HeaderAt
<1> QED
  BY <1>2, <1>4, <1>6 DEF w

LEMMA SzWritten ==
  ASSUME NEW m, NEW e \in Places, NEW n
  PROVE  /\ \A c \in Bytes : c \notin e + 2 .. e + 5 => WriteSz(m, e, n)[c] = m[c]
         /\ \A k \in 2 .. 5 : WriteSz(m, e, n)[e + k] = <<"sz", k, n>>
         /\ \A c \in Bytes : m[c] # Magic => WriteSz(m, e, n)[c] # Magic
         /\ \A old : HeaderAt(m, e, old) => HeaderAt(WriteSz(m, e, n), e, n)
         /\ Used(WriteSz(m, e, n), e) <=> Used(m, e)
<1>1. e \in Nat /\ \A k \in 0 .. 6 : e + k \in Bytes
  BY DEF Places, Bytes
<1> DEFINE w == WriteSz(m, e, n)
<1>2. \A c \in Bytes : c \notin e + 2 .. e + 5 => w[c] = m[c]
  BY DEF WriteSz
<1>3. \A k \in 2 .. 5 : w[e + k] = <<"sz", k, n>>
  <2> SUFFICES ASSUME NEW k \in 2 .. 5 PROVE w[e + k] = <<"sz", k, n>>
    OBVIOUS
  <2> DEFINE c == e + k
  <2>1. c \in Bytes /\ c \in e + 2 .. e + 5 /\ c - e = k
    BY <1>1
  <2> HIDE DEF c
  <2>2. w[c] = <<"sz", c - e, n>>
    BY <2>1 DEF WriteSz
  <2> QED
    BY <2>1, <2>2 DEF c
<1>4. \A c \in Bytes : m[c] # Magic => w[c] # Magic
  BY Marking DEF WriteSz
<1> HIDE DEF w
<1>5. w[e] = m[e] /\ w[e + 1] = m[e + 1] /\ w[e + 6] = m[e + 6]
  <2>1. /\ e \in Bytes /\ e \notin e + 2 .. e + 5
        /\ e + 1 \in Bytes /\ e + 1 \notin e + 2 .. e + 5
        /\ e + 6 \in Bytes /\ e + 6 \notin e + 2 .. e + 5
    BY DEF Places, Bytes
  <2> QED
    BY <2>1, <1>2
<1>6. \A old : HeaderAt(m, e, old) => HeaderAt(w, e, n)
  BY <1>3, <1>5 DEF HeaderAt
<1>7. Used(w, e) <=> Used(m, e)
  BY <1>5 DEF Used
<1> QED
  BY <1>2, <1>3, <1>4, <1>6, <1>7 DEF w

LEMMA SzNoMagic ==
  ASSUME NEW m, NEW e \in Places, NEW n
  PROVE  \A c \in Bytes : m[c] # Magic => WriteSz(m, e, n)[c] # Magic
BY SzWritten, Zenon

LEMMA HeaderWritten ==
  ASSUME NEW m, NEW e \in Places, NEW n
  PROVE  /\ \A c \in Bytes : c \notin e .. e + 6 => WriteHeader(m, e, n)[c] = m[c]
         /\ HeaderAt(WriteHeader(m, e, n), e, n)
         /\ \A c \in Bytes : c # e /\ m[c] # Magic => WriteHeader(m, e, n)[c] # Magic
<1>1. e \in Nat /\ e \in Bytes /\ \A k \in 0 .. 6 : e + k \in Bytes
  BY DEF Places, Bytes
<1> DEFINE s == WriteSz(m, e, n)
           u == WriteUsed(s, e, TRUE)
           w == WriteHeader(m, e, n)
<1>2. w = [u EXCEPT ![e] = Magic, ![e + 1] = <<"magic", 1>>]
  BY Zenon DEF WriteHeader, Magic
<1>3. DOMAIN u = Bytes
  BY DEF WriteUsed
<1>4. /\ \A c \in Bytes : c \notin e + 2 .. e + 5 => s[c] = m[c]
      /\ \A k \in 2 .. 5 : s[e + k] = <<"sz", k, n>>
      /\ \A c \in Bytes : m[c] # Magic => s[c] # Magic
  <2>1. \A c \in Bytes : c \notin e + 2 .. e + 5 => s[c] = m[c]
    BY SzWritten
  <2>2. \A k \in 2 .. 5 : s[e + k] = <<"sz", k, n>>
    BY SzWritten
  <2>3. \A c \in Bytes : m[c] # Magic => s[c] # Magic
    BY SzWritten
  <2> QED
    BY <2>1, <2>2, <2>3
<1> HIDE DEF s
<1>5. /\ \A c \in Bytes : c # e + 6 => u[c] = s[c]
      /\ u[e + 6] = <<"used", TRUE>>
      /\ \A c \in Bytes : s[c] # Magic => u[c] # Magic
  BY UsedWritten
<1> HIDE DEF u, w
<1>6. u = [c \in Bytes |-> u[c]]
  BY DEF u, WriteUsed
<1>7. /\ w[e] = Magic /\ w[e + 1] = <<"magic", 1>>
      /\ \A c \in Bytes : c # e /\ c # e + 1 => w[c] = u[c]
  <2>1. e + 1 \in Bytes /\ e + 1 # e
    BY <1>1
  <2> QED
    BY <1>1, <1>2, <1>3, <2>1
<1>8. \A c \in Bytes : c \notin e .. e + 6 => w[c] = m[c]
  <2> SUFFICES ASSUME NEW c \in Bytes, c \notin e .. e + 6 PROVE w[c] = m[c]
    OBVIOUS
  <2>1. c # e /\ c # e + 1 /\ c # e + 6 /\ c \notin e + 2 .. e + 5
    BY <1>1 DEF Bytes
  <2> QED
    BY <2>1, <1>4, <1>5, <1>7
<1>9. HeaderAt(w, e, n)
  <2>1. \A k \in 2 .. 5 : w[e + k] = <<"sz", k, n>>
    <3> SUFFICES ASSUME NEW k \in 2 .. 5 PROVE w[e + k] = <<"sz", k, n>>
      OBVIOUS
    <3>1. e + k \in Bytes /\ e + k # e /\ e + k # e + 1 /\ e + k # e + 6
      BY <1>1
    <3> QED
      BY <3>1, <1>4, <1>5, <1>7
  <2>2. w[e + 6] \in Marks
    <3>1. e + 6 \in Bytes /\ e + 6 # e /\ e + 6 # e + 1
      BY <1>1
    <3> QED
      BY <3>1, <1>5, <1>7, Marking
  <2> QED
    BY <1>7, <2>1, <2>2 DEF HeaderAt
<1>10. \A c \in Bytes : c # e /\ m[c] # Magic => w[c] # Magic
  BY <1>4, <1>5, <1>7, Marking
<1> QED
  BY <1>8, <1>9, <1>10 DEF w

-----------------------------------------------------------------------------
(* The chain under the stores of the allocator.                            *)

LEMMA ChainFacts ==
  ASSUME NEW m, NEW size, NEW top, Chain(m, size, top), NEW e \in DOMAIN size
  PROVE  /\ e \in Places /\ e \in Nat /\ e + Header <= Arena
         /\ size[e] \in Nat /\ 1 <= size[e] /\ size[e] <= Arena
         /\ HeaderAt(m, e, size[e]) /\ Sz(m, e) = size[e] /\ IsMagic(m, e) /\ Sound(m, e)
         /\ EndOf(size, e) = e + Header + size[e] /\ EndOf(size, e) \in Nat
         /\ EndOf(size, e) \in DOMAIN size \cup {top} /\ EndOf(size, e) <= top
         /\ top \in Nat
         /\ EndOf(size, e) <= Arena => Behind(m, e) = EndOf(size, e)
<1>1. e \in Places /\ size[e] \in 1 .. Arena /\ top \in Nat
  BY DEF Chain
<1>2. HeaderAt(m, e, size[e]) /\ EndOf(size, e) \in DOMAIN size \cup {top} /\ EndOf(size, e) <= top
  BY DEF Chain
<1>3. e \in Nat /\ e + Header <= Arena /\ size[e] \in Nat /\ 1 <= size[e] /\ size[e] <= Arena
  BY <1>1 DEF Places
<1>4. EndOf(size, e) = e + Header + size[e] /\ EndOf(size, e) \in Nat
  BY <1>3 DEF EndOf
<1> DEFINE n == size[e]
<1> HIDE DEF n
<1>5. n \in Nat /\ HeaderAt(m, e, n)
  BY <1>2, <1>3 DEF n
<1>6. /\ Sz(m, e) = n /\ IsMagic(m, e) /\ Sound(m, e)
      /\ e + Header + n < Word => Behind(m, e) = e + Header + n
  BY <1>1, <1>5, HeaderRead
<1>7. EndOf(size, e) <= Arena => Behind(m, e) = EndOf(size, e)
  BY <1>4, <1>6 DEF n
<1> QED
  BY <1>1, <1>2, <1>3, <1>4, <1>6, <1>7 DEF n

\* Where the chain ends no magic number stands.
LEMMA ChainEnds ==
  ASSUME NEW m, NEW size, NEW top, Chain(m, size, top),
         NEW e \in DOMAIN size \cup {top}, e + Header <= Arena
  PROVE  /\ e \in Places
         /\ IsMagic(m, e) <=> e \in DOMAIN size
         /\ Sound(m, e)
<1>1. CASE e \in DOMAIN size
  BY <1>1, ChainFacts
<1>2. CASE e = top /\ e \notin DOMAIN size
  <2>1. e \in Places /\ e \in Bytes
    BY <1>2 DEF Chain, Places, Bytes
  <2>2. m[e] # Magic
    BY <1>2, <2>1 DEF Chain, Bytes
  <2>3. ~IsMagic(m, e)
    BY <2>2 DEF IsMagic, Magic
  <2> QED
    BY <1>2, <2>1, <2>3 DEF Sound
<1> QED
  BY <1>1, <1>2

LEMMA ChainFrame ==
  ASSUME NEW m, NEW m2, NEW size, NEW top, Chain(m, size, top),
         \A e \in DOMAIN size : HeaderAt(m2, e, size[e]),
         \A c \in Bytes : c >= top => m2[c] # Magic
  PROVE  Chain(m2, size, top)
  BY DEF Chain

\* Headers and data of the chain have no byte in common.
LEMMA ChainClear ==
  ASSUME NEW m, NEW size, NEW top, Chain(m, size, top),
         NEW e \in DOMAIN size, NEW f \in DOMAIN size, NEW k \in 0 .. 6
  PROVE  /\ \A n \in 0 .. size[f] : e + k \notin f + Header .. f + Header + n - 1
         /\ e # f => \A n \in 0 .. size[f] : e + k \notin f .. f + Header + n - 1
<1>1. /\ e \in Nat /\ f \in Nat /\ size[e] \in Nat /\ size[f] \in Nat
      /\ EndOf(size, e) = e + Header + size[e] /\ EndOf(size, f) = f + Header + size[f]
  BY ChainFacts
<1>2. (e < f => EndOf(size, e) <= f) /\ (f < e => EndOf(size, f) <= e)
  BY DEF Chain
<1> QED
  BY <1>1, <1>2

LEMMA ChainApart ==
  ASSUME NEW m, NEW size, NEW top, Chain(m, size, top),
         NEW b, NEW c, b.at \in DOMAIN size, c.at \in DOMAIN size, b.at # c.at,
         b.sz \in 0 .. size[b.at], c.sz \in 0 .. size[c.at]
  PROVE  Extent(b) \cap Extent(c) = {}
<1> DEFINE e == b.at
           f == c.at
<1>0. e \in DOMAIN size /\ f \in DOMAIN size /\ e # f
  OBVIOUS
<1> HIDE DEF e, f
<1>1. /\ e \in Nat /\ f \in Nat /\ size[e] \in Nat /\ size[f] \in Nat
      /\ EndOf(size, e) = e + Header + size[e] /\ EndOf(size, f) = f + Header + size[f]
  BY <1>0, ChainFacts
<1>2. (e < f => EndOf(size, e) <= f) /\ (f < e => EndOf(size, f) <= e)
  BY <1>0 DEF Chain
<1>3. /\ Extent(b) = e .. e + Header + b.sz - 1 /\ b.sz \in 0 .. size[e]
      /\ Extent(c) = f .. f + Header + c.sz - 1 /\ c.sz \in 0 .. size[f]
  BY DEF Extent, e, f
<1>4. ASSUME NEW k \in Extent(b), k \in Extent(c)
      PROVE  FALSE
  <2>1. /\ k \in e .. e + Header + b.sz - 1 /\ k \in f .. f + Header + c.sz - 1
        /\ b.sz \in 0 .. size[e] /\ c.sz \in 0 .. size[f]
    BY <1>3, <1>4, Zenon
  <2>3. k \in Int /\ e <= k /\ k < e + Header + size[e] /\ f <= k /\ k < f + Header + size[f]
    BY <1>1, <2>1
  <2>2. e < f \/ f < e
    BY <1>0, <1>1
  <2> QED
    BY <1>1, <1>2, <2>3, <2>2
<1> QED
  BY <1>4

LEMMA BlocksFrame ==
  ASSUME NEW m, NEW m2, NEW size, NEW blocks, Blocks(m, size, blocks),
         \A b \in blocks : Used(m, b.at) => Used(m2, b.at)
  PROVE  Blocks(m2, size, blocks)
  BY DEF Blocks

\* malloc puts a header where the chain ends.
Extended(size, top, n) ==
    [e \in DOMAIN size \cup {top} |-> IF e = top THEN n ELSE size[e]]

LEMMA ChainExtended ==
  ASSUME NEW m, NEW size, NEW top, Chain(m, size, top), top + Header <= Arena,
         NEW n \in 1 .. Arena, NEW blocks, Blocks(m, size, blocks),
         NEW size2, size2 = Extended(size, top, n),
         NEW m2, m2 = WriteHeader(m, top, n)
  PROVE  /\ Chain(m2, size2, top + Header + n)
         /\ Blocks(m2, size2, blocks)
         /\ \A e \in DOMAIN size : e # top /\ size2[e] = size[e] /\ EndOf(size2, e) = EndOf(size, e)
         /\ DOMAIN size2 = DOMAIN size \cup {top}
         /\ size2[top] = n /\ EndOf(size2, top) = top + Header + n
         /\ \A c \in Bytes : c > top => m2[c] # Magic
<1>1. top \in Nat /\ top \in Places /\ n \in Nat
  BY DEF Chain, Places
<1>2. /\ \A c \in Bytes : c \notin top .. top + 6 => m2[c] = m[c]
      /\ HeaderAt(m2, top, n)
      /\ \A c \in Bytes : c # top /\ m[c] # Magic => m2[c] # Magic
  <2> DEFINE w == WriteHeader(m, top, n)
  <2>1. \A c \in Bytes : c \notin top .. top + 6 => w[c] = m[c]
    BY <1>1, HeaderWritten
  <2>2. HeaderAt(w, top, n)
    BY <1>1, HeaderWritten
  <2>3. \A c \in Bytes : c # top /\ m[c] # Magic => w[c] # Magic
    BY <1>1, HeaderWritten
  <2> QED
    BY <2>1, <2>2, <2>3
<1>3. ASSUME NEW e \in DOMAIN size
      PROVE  /\ e # top /\ e \in Nat /\ e \in Places /\ EndOf(size, e) <= top /\ size[e] \in 1 .. Arena
             /\ size2[e] = size[e] /\ EndOf(size2, e) = EndOf(size, e)
             /\ EndOf(size, e) \in Nat
             /\ EndOf(size, e) \in DOMAIN size \cup {top}
             /\ HeaderAt(m2, e, size[e])
             /\ Used(m, e) => Used(m2, e)
  <2>1. /\ e \in Places /\ e \in Nat /\ EndOf(size, e) = e + Header + size[e] /\ size[e] \in Nat
        /\ 1 <= size[e] /\ size[e] <= Arena
        /\ EndOf(size, e) <= top /\ EndOf(size, e) \in Nat /\ HeaderAt(m, e, size[e])
        /\ EndOf(size, e) \in DOMAIN size \cup {top}
    BY ChainFacts
  <2>2. e # top
    BY <1>1, <2>1
  <2>3. size2[e] = size[e] /\ EndOf(size2, e) = EndOf(size, e)
    BY <2>2 DEF EndOf, Extended
  <2>4. \A k \in 0 .. 6 : m2[e + k] = m[e + k]
    <3> SUFFICES ASSUME NEW k \in 0 .. 6 PROVE m2[e + k] = m[e + k]
      OBVIOUS
    <3>1. e + k \in Bytes
      BY <2>1, PlaceBytes
    <3>2. e + k < top
      BY <1>1, <2>1
    <3>3. e + k \notin top .. top + 6
      BY <1>1, <2>1, <3>2
    <3> QED
      BY <3>1, <3>3, <1>2
  <2> DEFINE s == size[e]
  <2> HIDE DEF s
  <2>5. (HeaderAt(m, e, s) => HeaderAt(m2, e, s)) /\ (Used(m, e) => Used(m2, e))
    BY <2>1, <2>4, HeaderFrame
  <2> QED
    BY <2>1, <2>2, <2>3, <2>5 DEF s
<1>4. DOMAIN size2 = DOMAIN size \cup {top} /\ size2[top] = n /\ EndOf(size2, top) = top + Header + n
  BY DEF EndOf, Extended
<1>5. \A c \in Bytes : c > top => m2[c] # Magic
  <2> SUFFICES ASSUME NEW c \in Bytes, c > top PROVE m2[c] # Magic
    OBVIOUS
  <2>1. c >= top /\ c # top
    BY <1>1 DEF Bytes
  <2>2. m[c] # Magic
    BY <2>1 DEF Chain
  <2> QED
    BY <2>1, <2>2, <1>2
<1>6. Chain(m2, size2, top + Header + n)
  <2> DEFINE end == top + Header + n
  <2>1. DOMAIN size2 \subseteq Places
    BY <1>1, <1>4 DEF Chain
  <2>2. size2 \in [DOMAIN size2 -> 1 .. Arena]
    BY <1>3, <1>4 DEF Extended
  <2>3. end \in Nat /\ end > top
    BY <1>1
  <2>4. 0 \in DOMAIN size2 \cup {end}
    BY <1>4 DEF Chain
  <2>5. ASSUME NEW e \in DOMAIN size2
        PROVE  /\ HeaderAt(m2, e, size2[e])
               /\ EndOf(size2, e) \in DOMAIN size2 \cup {end}
               /\ EndOf(size2, e) <= end
    <3>1. CASE e = top
      BY <3>1, <1>2, <1>4, <2>3
    <3>2. CASE e \in DOMAIN size
      BY <3>2, <1>1, <1>3, <1>4, <2>3
    <3> QED
      BY <3>1, <3>2, <1>4
  <2>6. ASSUME NEW e \in DOMAIN size2, NEW f \in DOMAIN size2, e < f
        PROVE  EndOf(size2, e) <= f
    <3>1. CASE e = top
      <4>1. f \in DOMAIN size
        BY <1>1, <1>4, <2>6, <3>1
      <4>2. f \in Nat /\ size[f] \in Nat /\ f + Header + size[f] <= top
        BY <4>1, ChainFacts
      <4> QED
        BY <1>1, <2>6, <3>1, <4>2
    <3>2. CASE e \in DOMAIN size /\ f = top
      BY <3>2, <1>3
    <3>3. CASE e \in DOMAIN size /\ f \in DOMAIN size
      BY <3>3, <1>3, <2>6 DEF Chain
    <3> QED
      BY <3>1, <3>2, <3>3, <1>4
  <2>7. \A c \in Bytes : c >= end => m2[c] # Magic
    BY <1>1, <1>5, <2>3 DEF Bytes
  <2> HIDE DEF end
  <2>8. Chain(m2, size2, end)
    BY <2>1, <2>2, <2>3, <2>4, <2>5, <2>6, <2>7 DEF Chain
  <2> QED
    BY <2>8 DEF end
<1>7. Blocks(m2, size2, blocks)
  <2>1. ASSUME NEW b \in blocks
        PROVE  /\ b.at \in DOMAIN size2 /\ Used(m2, b.at) /\ b.sz \in 1 .. size2[b.at]
               /\ b.at + Header + b.sz <= Arena
    <3>1. /\ b.at \in DOMAIN size /\ Used(m, b.at) /\ b.sz \in 1 .. size[b.at]
          /\ b.at + Header + b.sz <= Arena
      BY DEF Blocks
    <3> QED
      BY <3>1, <1>3, <1>4
  <2> QED
    BY <2>1 DEF Blocks
<1> QED
  BY <1>3, <1>4, <1>5, <1>6, <1>7

\* combine_entries takes the last entry into the one before it.
Joined(size, i, to, n) ==
    [e \in DOMAIN size \ {to} |-> IF e = i THEN n ELSE size[e]]

LEMMA ChainJoined ==
  ASSUME NEW m, NEW size, NEW top, Chain(m, size, top),
         NEW i \in DOMAIN size, NEW to \in DOMAIN size,
         EndOf(size, i) = to, EndOf(size, to) = top,
         NEW n, n = size[i] + size[to], n <= Arena,
         NEW blocks, Blocks(m, size, blocks), \A b \in blocks : b.at # i /\ b.at # to,
         \A c \in Bytes : c > to => m[c] # Magic,
         NEW size2, size2 = Joined(size, i, to, n),
         NEW m2, m2 = WriteSz(m, i, n)
  PROVE  /\ Chain(m2, size2, i + Header + n)
         /\ Blocks(m2, size2, blocks)
         /\ i \in DOMAIN size2 /\ size2[i] = n /\ EndOf(size2, i) = i + Header + n
<1>1. /\ i \in Places /\ i \in Nat /\ size[i] \in Nat /\ 1 <= size[i] /\ HeaderAt(m, i, size[i])
      /\ EndOf(size, i) = i + Header + size[i]
  BY ChainFacts
<1>2. /\ to \in Nat /\ size[to] \in Nat /\ 1 <= size[to] /\ EndOf(size, to) = to + Header + size[to]
      /\ top \in Nat
  BY ChainFacts
<1>3. i # to /\ n \in 1 .. Arena /\ to < i + Header + n /\ i + Header + n <= top
  BY <1>1, <1>2
<1>4. /\ \A c \in Bytes : c \notin i + 2 .. i + 5 => m2[c] = m[c]
      /\ \A c \in Bytes : m[c] # Magic => m2[c] # Magic
      /\ HeaderAt(m2, i, n)
  <2> DEFINE w == WriteSz(m, i, n)
  <2>1. \A c \in Bytes : c \notin i + 2 .. i + 5 => w[c] = m[c]
    BY DEF WriteSz
  <2>0. i \in Places
    BY <1>1
  <2>2. \A c \in Bytes : m[c] # Magic => w[c] # Magic
    BY <2>0, SzNoMagic
  <2>3. \A old : HeaderAt(m, i, old) => HeaderAt(w, i, n)
    BY <2>0, SzWritten
  <2>4. HeaderAt(w, i, n)
    BY <1>1, <2>3
  <2> QED
    BY <2>1, <2>2, <2>4
<1>5. /\ DOMAIN size2 = DOMAIN size \ {to} /\ i \in DOMAIN size2 /\ size2[i] = n
      /\ EndOf(size2, i) = i + Header + n
      /\ \A e \in DOMAIN size2 : e # i => size2[e] = size[e] /\ EndOf(size2, e) = EndOf(size, e)
  BY <1>3 DEF EndOf, Joined
<1>6. ASSUME NEW e \in DOMAIN size2, e # i
      PROVE  /\ e \in DOMAIN size /\ e < i /\ EndOf(size, e) <= i /\ EndOf(size, e) \in Nat
             /\ e \in Nat
             /\ EndOf(size, e) \in DOMAIN size2
             /\ HeaderAt(m2, e, size2[e]) /\ (Used(m, e) => Used(m2, e))
  <2>1. e \in DOMAIN size /\ e # to
    BY <1>5
  <2>2. /\ e \in Places /\ e \in Nat /\ size[e] \in Nat /\ EndOf(size, e) = e + Header + size[e]
        /\ 1 <= size[e] /\ EndOf(size, e) <= top
        /\ EndOf(size, e) \in DOMAIN size \cup {top} /\ HeaderAt(m, e, size[e])
    BY <2>1, ChainFacts
  <2>3. ~(i < e)
    <3>1. (i < e => to <= e) /\ (to < e => top <= e)
      BY <2>1 DEF Chain
    <3> QED
      BY <2>1, <2>2, <3>1, <1>2
  <2>4. e < i /\ EndOf(size, e) <= i
    <3>1. e < i
      BY <1>1, <1>6, <2>2, <2>3
    <3> QED
      BY <2>1, <3>1 DEF Chain
  <2>5. EndOf(size, e) \in DOMAIN size2
    <3>1. EndOf(size, e) # to /\ EndOf(size, e) # top
      BY <1>1, <1>2, <2>2, <2>4
    <3> QED
      BY <3>1, <2>2, <1>5
  <2>6. \A k \in 0 .. 6 : m2[e + k] = m[e + k]
    <3> SUFFICES ASSUME NEW k \in 0 .. 6 PROVE m2[e + k] = m[e + k]
      OBVIOUS
    <3>1. e + k \in Bytes
      BY <2>2, PlaceBytes
    <3>2. e + k < i
      BY <1>1, <2>2, <2>4
    <3>3. e + k \notin i + 2 .. i + 5
      BY <1>1, <2>2, <3>2
    <3> QED
      BY <3>1, <3>3, <1>4
  <2> DEFINE s == size[e]
  <2> HIDE DEF s
  <2>7. (HeaderAt(m, e, s) => HeaderAt(m2, e, s)) /\ (Used(m, e) => Used(m2, e))
    BY <2>2, <2>6, HeaderFrame
  <2>8. size2[e] = s
    BY <1>5, <1>6 DEF s
  <2> QED
    BY <2>1, <2>2, <2>4, <2>5, <2>7, <2>8 DEF s
<1>7. Chain(m2, size2, i + Header + n)
  <2> DEFINE end == i + Header + n
  <2>1. DOMAIN size2 \subseteq Places
    BY <1>5 DEF Chain
  <2>2. size2 \in [DOMAIN size2 -> 1 .. Arena]
    <3>1. \A e \in DOMAIN size2 : size2[e] \in 1 .. Arena
      BY <1>3, <1>5 DEF Chain
    <3>2. size2 = [e \in DOMAIN size2 |-> size2[e]]
      BY DEF Joined
    <3> QED
      BY <3>1, <3>2
  <2>3. end \in Nat /\ end > i /\ end > to
    BY <1>1, <1>2, <1>3
  <2>4. 0 \in DOMAIN size2 \cup {end}
    <3>1. top # 0 /\ to # 0
      BY <1>1, <1>2
    <3> QED
      BY <3>1, <1>5 DEF Chain
  <2>5. ASSUME NEW e \in DOMAIN size2
        PROVE  /\ HeaderAt(m2, e, size2[e])
               /\ EndOf(size2, e) \in DOMAIN size2 \cup {end}
               /\ EndOf(size2, e) <= end
    <3>1. CASE e = i
      BY <3>1, <1>4, <1>5, <2>3
    <3>2. CASE e # i
      <4>1. EndOf(size2, e) = EndOf(size, e)
        BY <3>2, <1>5
      <4>2. /\ EndOf(size, e) <= i /\ EndOf(size, e) \in Nat
            /\ EndOf(size, e) \in DOMAIN size2 /\ HeaderAt(m2, e, size2[e])
        BY <3>2, <1>6
      <4>3. EndOf(size, e) <= end
        BY <4>2, <1>1, <2>3
      <4> QED
        BY <4>1, <4>2, <4>3
    <3> QED
      BY <3>1, <3>2
  <2>6. ASSUME NEW e \in DOMAIN size2, NEW f \in DOMAIN size2, e < f
        PROVE  EndOf(size2, e) <= f
    <3>1. e # i
      <4>1. f # i => f < i /\ f \in Nat
        BY <1>6
      <4> QED
        BY <4>1, <1>1, <2>6
    <3>2. EndOf(size2, e) = EndOf(size, e)
      BY <3>1, <1>5
    <3> QED
      BY <3>2, <1>5, <2>6 DEF Chain
  <2>7. ASSUME NEW c \in Bytes, c >= end
        PROVE  m2[c] # Magic
    <3>1. c > to
      BY <2>3, <2>7, <1>2 DEF Bytes
    <3> QED
      BY <3>1, <1>4
  <2> HIDE DEF end
  <2>8. Chain(m2, size2, end)
    BY <2>1, <2>2, <2>3, <2>4, <2>5, <2>6, <2>7 DEF Chain
  <2> QED
    BY <2>8 DEF end
<1>8. Blocks(m2, size2, blocks)
  <2>1. ASSUME NEW b \in blocks
        PROVE  /\ b.at \in DOMAIN size2 /\ Used(m2, b.at) /\ b.sz \in 1 .. size2[b.at]
               /\ b.at + Header + b.sz <= Arena
    <3>1. /\ b.at \in DOMAIN size /\ Used(m, b.at) /\ b.sz \in 1 .. size[b.at]
          /\ b.at # i /\ b.at # to /\ b.at + Header + b.sz <= Arena
      BY DEF Blocks
    <3> QED
      BY <3>1, <1>5, <1>6
  <2> QED
    BY <2>1 DEF Blocks
<1> QED
  BY <1>5, <1>7, <1>8

\* The entries a step goes by belong to the chain or end it.
LEMMA ConsultedChain ==
  ASSUME NEW size, NEW top, ChainInv(size, top), TypeInv
  PROVE  Consulted \subseteq DOMAIN size \cup {top}
<1>0. Chain(mem, size, top) /\ RunAt(mem, run, size, top, live) /\ top \in Nat
  BY DEF ChainInv, Chain
<1> SUFFICES ASSUME NEW e \in Consulted PROVE e \in DOMAIN size \cup {top}
  OBVIOUS
<1>1. CASE run.pc = "walk" /\ e = run.i
  BY <1>0, <1>1 DEF RunAt
<1>2. CASE run.pc = "walk" /\ Sound(mem, run.i) /\ Small(run.i) /\ e = Behind(mem, run.i)
  <2>1. run.i \in DOMAIN size \cup {top} /\ top <= Arena
    BY <1>0, <1>2 DEF RunAt
  <2>2. run.i + Header <= Arena /\ IsMagic(mem, run.i)
    BY <1>2 DEF Sound, Small
  <2>3. run.i \in DOMAIN size
    BY <1>0, <2>1, <2>2, ChainEnds
  <2>4. /\ EndOf(size, run.i) <= top /\ EndOf(size, run.i) \in Nat
        /\ EndOf(size, run.i) \in DOMAIN size \cup {top}
        /\ EndOf(size, run.i) <= Arena => Behind(mem, run.i) = EndOf(size, run.i)
    BY <1>0, <2>3, ChainFacts
  <2> QED
    BY <1>0, <1>2, <2>1, <2>4
<1>3. CASE run.pc = "gather" /\ e = run.to
  BY <1>0, <1>3 DEF RunAt
<1>4. CASE run.pc \in {"combine", "cut"} /\ run.p < run.to /\ e = run.p
  <2>1. run.p = run.i \/ run.p = run.to
    BY <1>0, <1>4 DEF RunAt
  <2>2. run.i \in DOMAIN size /\ run.p \in Nat /\ run.to \in Nat
    BY <1>0, <1>4 DEF RunAt, TypeInv, Runs
  <2> QED
    BY <1>4, <2>1, <2>2
<1> QED
  BY <1>1, <1>2, <1>3, <1>4 DEF Consulted

-----------------------------------------------------------------------------
(* Every action keeps the chain, and the data of the blocks handed out.    *)

DataKept ==
    \A b \in live \cap live' : \A c \in Data(b) : mem'[c] = mem[c]

\* A block's data lies in the heap and off every header.
LEMMA LiveFacts ==
  ASSUME NEW size, NEW top, ChainInv(size, top), TypeInv, NEW b \in live
  PROVE  /\ b \in [at : Nat, sz : Nat] /\ b.at \in Nat /\ b.sz \in Nat
         /\ b.at \in DOMAIN size /\ Used(mem, b.at)
         /\ 1 <= b.sz /\ b.sz <= size[b.at] /\ b.at + Header + b.sz <= Arena
         /\ b.at + Header + b.sz <= top
         /\ Data(b) \subseteq Bytes
         /\ \A c \in Data(b) : c < top /\ \A e \in DOMAIN size, k \in 0 .. 6 : c # e + k
<1>0. Chain(mem, size, top) /\ Blocks(mem, size, live)
  BY DEF ChainInv
<1>1. b \in [at : Nat, sz : Nat] /\ b.at \in Nat /\ b.sz \in Nat
  BY DEF TypeInv
<1>2. /\ b.at \in DOMAIN size /\ Used(mem, b.at) /\ b.sz \in 1 .. size[b.at]
      /\ b.at + Header + b.sz <= Arena
  BY <1>0 DEF Blocks
<1> DEFINE f == b.at
<1>f. f = b.at /\ f \in DOMAIN size /\ f \in Nat
  BY <1>1, <1>2
<1> HIDE DEF f
<1>3. /\ size[f] \in Nat /\ EndOf(size, f) = f + Header + size[f] /\ EndOf(size, f) <= top
      /\ top \in Nat
  BY <1>0, <1>f, ChainFacts
<1>4. f + Header + b.sz <= top /\ b.sz <= size[f] /\ 1 <= b.sz /\ b.sz \in 0 .. size[f]
  BY <1>1, <1>2, <1>3, <1>f
<1>5. Data(b) = f + Header .. f + Header + b.sz - 1
  BY <1>f DEF Data
<1>6. ASSUME NEW c \in Data(b)
      PROVE  c \in Bytes /\ c < top
  <2>1. f + Header + b.sz <= Arena
    BY <1>2, <1>f
  <2> QED
    BY <1>1, <1>3, <1>4, <1>5, <1>f, <2>1 DEF Bytes
<1>7. ASSUME NEW c \in Data(b), NEW e \in DOMAIN size, NEW k \in 0 .. 6
      PROVE  c # e + k
  <2>1. \A n \in 0 .. size[f] : e + k \notin f + Header .. f + Header + n - 1
    BY <1>0, <1>f, ChainClear
  <2> DEFINE sz == b.sz
  <2>2. sz \in 0 .. size[f] /\ Data(b) = f + Header .. f + Header + sz - 1
    BY <1>4, <1>5
  <2> HIDE DEF sz
  <2>3. e + k \notin Data(b)
    BY <2>1, <2>2
  <2> QED
    BY <2>3
<1> QED
  BY <1>1, <1>2, <1>4, <1>6, <1>7, <1>f

LEMMA CallKeeps ==
  ASSUME NEW size, NEW top, ChainInv(size, top), TypeInv,
         NEW sz \in Requests, NEW op \in {"malloc", "calloc", "realloc"}, NEW old,
         IF op = "realloc" THEN old \in live ELSE old = Nothing,
         Call(op, sz, old)
  PROVE  ChainInv(size, top)' /\ DataKept
<1>1. /\ mem' = mem /\ live' = live /\ run.pc = "idle"
      /\ run' = [pc |-> "walk", op |-> op, sz |-> sz, old |-> old,
                 i |-> 0, to |-> 0, size |-> 0, p |-> 0]
  BY DEF Call, Idle
<1>2. top <= Arena
  BY <1>1 DEF ChainInv, RunAt
<1>3. 0 \in DOMAIN size \cup {top}
  BY DEF ChainInv, Chain
<1>4. RunAt(mem', run', size, top, live') /\ Replaced(run', live')
  BY <1>1, <1>2, <1>3 DEF RunAt, Replaced
<1>5. Chain(mem', size, top) /\ Blocks(mem', size, live')
  BY <1>1 DEF ChainInv
<1> QED
  BY <1>1, <1>4, <1>5 DEF ChainInv, DataKept

LEMMA PlaceKeeps ==
  ASSUME NEW size, NEW top, ChainInv(size, top), TypeInv, Place
  PROVE  (\E size2, top2 : ChainInv(size2, top2)') /\ DataKept
<1>0. Chain(mem, size, top) /\ Blocks(mem, size, live) /\ top \in Nat
  BY DEF ChainInv, Chain
<1>1. /\ run.pc = "walk" /\ ~IsMagic(mem, run.i) /\ Sound(mem, run.i)
      /\ mem' = WriteHeader(mem, run.i, run.sz) /\ live' = live
      /\ run' = [run EXCEPT !.pc = "finish"]
  BY DEF Place, Running, Goto, Consulted
<1>2. /\ run.i \in DOMAIN size \cup {top} /\ top <= Arena
  BY <1>1 DEF ChainInv, RunAt
<1>3. run.i + Header <= Arena
  BY <1>1 DEF Sound
<1>4. run.i = top /\ run.i \notin DOMAIN size
  BY <1>0, <1>1, <1>2, <1>3, ChainEnds
<1>5. run.sz \in 1 .. Arena /\ run \in Runs
  BY <1>1 DEF TypeInv
<1>n. PICK n : n = run.sz
  OBVIOUS
<1>s. PICK size2 : size2 = Extended(size, top, n)
  OBVIOUS
<1>6. mem' = WriteHeader(mem, top, n) /\ n \in 1 .. Arena /\ top + Header <= Arena
  BY <1>1, <1>3, <1>4, <1>5, <1>n
<1>7. /\ Chain(mem', size2, top + Header + n) /\ Blocks(mem', size2, live)
      /\ DOMAIN size2 = DOMAIN size \cup {top}
      /\ size2[top] = n /\ EndOf(size2, top) = top + Header + n
  <2>1. PICK m2 : m2 = mem'
    OBVIOUS
  <2>2. m2 = WriteHeader(mem, top, n) /\ n \in 1 .. Arena /\ top + Header <= Arena
    BY <1>6, <2>1
  <2>3. /\ Chain(m2, size2, top + Header + n) /\ Blocks(m2, size2, live)
        /\ DOMAIN size2 = DOMAIN size \cup {top}
        /\ size2[top] = n /\ EndOf(size2, top) = top + Header + n
    BY <1>0, <2>2, <1>s, ChainExtended
  <2> QED
    BY <2>1, <2>3
<1>8. RunAt(mem', run', size2, top + Header + n, live')
  <2>1. /\ run'.pc = "finish" /\ run'.i = top /\ run'.sz = n
    BY <1>1, <1>4, <1>5, <1>n DEF Runs
  <2>2. \A b \in live : b.at # top
    BY <1>0, <1>4 DEF Blocks
  <2>3. /\ run'.i \in DOMAIN size2 /\ size2[run'.i] >= run'.sz
        /\ EndOf(size2, run'.i) = top + Header + n /\ size2[run'.i] = run'.sz
    BY <2>1, <1>6, <1>7
  <2> QED
    BY <1>1, <2>1, <2>2, <2>3 DEF RunAt
<1>9. Replaced(run', live')
  BY <1>1, <1>5 DEF ChainInv, Replaced, Runs
<1>10. DataKept
  <2> SUFFICES ASSUME NEW b \in live, NEW c \in Data(b) PROVE mem'[c] = mem[c]
    BY <1>1 DEF DataKept
  <2>1. c \in Bytes /\ c < top
    BY LiveFacts
  <2>2. top \in Places
    BY <1>0, <1>6 DEF Places
  <2>3. \A d \in Bytes : d \notin top .. top + 6 => mem'[d] = mem[d]
    BY <2>2, <1>6, HeaderWritten
  <2> QED
    BY <1>0, <2>1, <2>3 DEF Bytes
<1> QED
  <2>1. ChainInv(size2, top + Header + n)'
    BY <1>1, <1>7, <1>8, <1>9 DEF ChainInv
  <2> QED
    BY <2>1, <1>10

LEMMA TakeKeeps ==
  ASSUME NEW size, NEW top, ChainInv(size, top), TypeInv, Take, since' = 0
  PROVE  ChainInv(size, top)' /\ DataKept
<1>0. Chain(mem, size, top) /\ Blocks(mem, size, live) /\ top \in Nat
  BY DEF ChainInv, Chain
<1>1. /\ run.pc = "walk" /\ Sound(mem, run.i) /\ live' = live
      /\ IsMagic(mem, run.i) /\ ~Used(mem, run.i) /\ ~(Sz(mem, run.i) < run.sz)
      /\ run' = [run EXCEPT !.pc = "finish"]
  BY DEF Take, Running, Goto, Consulted, Small
<1>2. mem' = mem
  BY DEF Take, Disordered, TypeInv
<1>3. run.i \in DOMAIN size /\ top <= Arena
  <2>1. run.i \in DOMAIN size \cup {top} /\ top <= Arena
    BY <1>1 DEF ChainInv, RunAt
  <2>2. run.i + Header <= Arena
    BY <1>1 DEF Sound
  <2> QED
    BY <1>0, <1>1, <2>1, <2>2, ChainEnds
<1>4. Sz(mem, run.i) = size[run.i] /\ size[run.i] \in Nat
  BY <1>0, <1>3, ChainFacts
<1>5. /\ run' = [run EXCEPT !.pc = "finish"] /\ run \in Runs /\ run.sz \in Nat
  BY <1>1 DEF TypeInv, Runs
<1>6. run'.pc = "finish" /\ run'.i = run.i /\ run'.sz = run.sz /\ run'.op = run.op /\ run'.old = run.old
  BY <1>5 DEF Runs
<1>7. size[run.i] >= run.sz
  BY <1>1, <1>4, <1>5
<1>8. \A b \in live : b.at # run.i
  BY <1>0, <1>1 DEF Blocks
<1>9. RunAt(mem', run', size, top, live')
  BY <1>1, <1>3, <1>6, <1>7, <1>8 DEF RunAt
<1>10. Replaced(run', live')
  BY <1>1, <1>6 DEF ChainInv, Replaced
<1> QED
  BY <1>0, <1>1, <1>2, <1>9, <1>10 DEF ChainInv, DataKept

\* Where the walk stands at an entry, that entry is of the chain.
LEMMA WalkFacts ==
  ASSUME NEW size, NEW top, ChainInv(size, top), TypeInv,
         run.pc = "walk", Sound(mem, run.i), IsMagic(mem, run.i)
  PROVE  /\ run.i \in DOMAIN size /\ top <= Arena
         /\ Sz(mem, run.i) = size[run.i] /\ size[run.i] \in Nat /\ 1 <= size[run.i]
         /\ Behind(mem, run.i) = EndOf(size, run.i)
         /\ EndOf(size, run.i) \in DOMAIN size \cup {top}
<1>0. Chain(mem, size, top) /\ top \in Nat
  BY DEF ChainInv, Chain
<1>1. run.i \in DOMAIN size \cup {top} /\ top <= Arena
  BY DEF ChainInv, RunAt
<1>2. run.i + Header <= Arena
  BY DEF Sound
<1>3. run.i \in DOMAIN size
  BY <1>0, <1>1, <1>2, ChainEnds
<1>4. /\ Sz(mem, run.i) = size[run.i] /\ size[run.i] \in Nat /\ 1 <= size[run.i]
      /\ EndOf(size, run.i) <= top /\ EndOf(size, run.i) \in Nat
      /\ EndOf(size, run.i) \in DOMAIN size \cup {top}
      /\ EndOf(size, run.i) <= Arena => Behind(mem, run.i) = EndOf(size, run.i)
  BY <1>0, <1>3, ChainFacts
<1> QED
  BY <1>0, <1>1, <1>3, <1>4

LEMMA SkipKeeps ==
  ASSUME NEW size, NEW top, ChainInv(size, top), TypeInv, Skip
  PROVE  ChainInv(size, top)' /\ DataKept
<1>1. /\ run.pc = "walk" /\ Sound(mem, run.i) /\ live' = live /\ mem' = mem
      /\ IsMagic(mem, run.i) /\ run \in Runs
      /\ run' = [run EXCEPT !.i = Behind(mem, run.i)]
  <2>1. run.pc = "walk" /\ run \in Runs
    BY DEF Skip, Running, TypeInv
  <2> QED
    BY <2>1 DEF Skip, Running, Consulted, Runs
<1>2. /\ top <= Arena /\ Behind(mem, run.i) \in DOMAIN size \cup {top}
  BY <1>1, WalkFacts
<1>3. /\ run'.pc = "walk" /\ run'.i = Behind(mem, run.i) /\ run'.op = run.op /\ run'.old = run.old
  BY <1>1 DEF Runs
<1>4. RunAt(mem', run', size, top, live') /\ Replaced(run', live')
  BY <1>1, <1>2, <1>3 DEF ChainInv, Replaced, RunAt
<1> QED
  BY <1>1, <1>4 DEF ChainInv, DataKept

LEMMA EnlargeKeeps ==
  ASSUME NEW size, NEW top, ChainInv(size, top), TypeInv, Enlarge, since' = 0
  PROVE  (\E size2, top2 : ChainInv(size2, top2)') /\ DataKept
<1>0. Chain(mem, size, top) /\ Blocks(mem, size, live) /\ top \in Nat
  BY DEF ChainInv, Chain
<1> DEFINE next == Behind(mem, run.i)
           missing == run.sz - Sz(mem, run.i)
<1>1. /\ run.pc = "walk" /\ Sound(mem, run.i) /\ live' = live
      /\ IsMagic(mem, run.i) /\ ~Used(mem, run.i) /\ Sz(mem, run.i) < run.sz
      /\ Sound(mem, next)
      /\ run \in Runs /\ run.sz \in 1 .. Arena
  <2>1. run.pc = "walk" /\ Small(run.i) /\ \A e \in Consulted : Sound(mem, e)
    BY DEF Enlarge, Running
  <2>2. run.i \in Consulted
    BY <2>1 DEF Consulted
  <2>3. next \in Consulted
    BY <2>1, <2>2 DEF Consulted
  <2> QED
    BY <2>1, <2>2, <2>3 DEF Enlarge, Running, Small, TypeInv
<1>2. /\ run.i \in DOMAIN size /\ top <= Arena
      /\ Sz(mem, run.i) = size[run.i] /\ size[run.i] \in Nat /\ 1 <= size[run.i]
      /\ next = EndOf(size, run.i)
      /\ next \in DOMAIN size \cup {top}
  BY <1>1, WalkFacts
<1>3. missing \in 1 .. Arena /\ run.sz = size[run.i] + missing
  BY <1>1, <1>2
<1>4. next + Header <= Arena
  BY <1>1 DEF Sound
<1>5. IsMagic(mem, next) <=> next \in DOMAIN size
  BY <1>0, <1>2, <1>4, ChainEnds
<1>6. \/ /\ ~IsMagic(mem, next)
         /\ mem' = WriteHeader(mem, next, missing)
         /\ run' = [run EXCEPT !.pc = "combine", !.to = next, !.p = run.i]
      \/ /\ IsMagic(mem, next) /\ mem' = mem
         /\ run' = [run EXCEPT !.pc = "gather", !.to = next,
                               !.size = Sz(mem, run.i)]
  BY DEF Enlarge, Disordered, TypeInv
<1>7. run'.i = run.i /\ run'.sz = run.sz /\ run'.op = run.op /\ run'.old = run.old /\ run'.to = next
  BY <1>1, <1>6 DEF Runs
<1>8. Replaced(run', live')
  BY <1>1, <1>7 DEF ChainInv, Replaced
<1>9. CASE ~IsMagic(mem, next)
  <2>1. next = top /\ top \notin DOMAIN size
    BY <1>2, <1>5, <1>9
  <2>n. PICK n : n = missing
    OBVIOUS
  <2>s. PICK size2 : size2 = Extended(size, top, n)
    OBVIOUS
  <2>2. mem' = WriteHeader(mem, top, n) /\ n \in 1 .. Arena /\ top + Header <= Arena
    BY <1>3, <1>4, <1>6, <1>9, <2>1, <2>n
  <2>3. /\ Chain(mem', size2, top + Header + n) /\ Blocks(mem', size2, live)
        /\ \A e \in DOMAIN size : e # top /\ size2[e] = size[e] /\ EndOf(size2, e) = EndOf(size, e)
        /\ DOMAIN size2 = DOMAIN size \cup {top}
        /\ size2[top] = n /\ EndOf(size2, top) = top + Header + n
        /\ \A c \in Bytes : c > top => mem'[c] # Magic
    <3>1. Chain(mem', size2, top + Header + n) /\ Blocks(mem', size2, live)
      BY <1>0, <2>2, <2>s, ChainExtended
    <3>2. \A e \in DOMAIN size : e # top /\ size2[e] = size[e] /\ EndOf(size2, e) = EndOf(size, e)
      BY <2>1, <2>s DEF Extended, EndOf
    <3>3. /\ DOMAIN size2 = DOMAIN size \cup {top}
          /\ size2[top] = n /\ EndOf(size2, top) = top + Header + n
      BY <2>s DEF Extended, EndOf
    <3>4. \A c \in Bytes : c > top => mem'[c] # Magic
      <4>1. top \in Places
        BY <1>0, <2>2 DEF Places
      <4>2. \A c \in Bytes : c # top /\ mem[c] # Magic => mem'[c] # Magic
        BY <2>2, <4>1, HeaderWritten
      <4>3. \A c \in Bytes : c >= top => mem[c] # Magic
        BY <1>0 DEF Chain
      <4> QED
        BY <1>0, <4>2, <4>3 DEF Bytes
    <3> QED
      BY <3>1, <3>2, <3>3, <3>4
  <2>4. run'.pc = "combine" /\ run'.p = run.i /\ run'.size = run.size
    BY <1>1, <1>6, <1>9 DEF Runs
  <2>5. run.size = 0
    BY <1>1 DEF ChainInv, RunAt
  <2>6. \A b \in live : b.at # run.i /\ b.at # top
    BY <1>0, <1>1, <2>1 DEF Blocks
  <2>7. /\ run.i \in DOMAIN size2 /\ top \in DOMAIN size2
        /\ EndOf(size2, run.i) = top /\ EndOf(size2, top) = top + Header + n
        /\ run.sz = size2[run.i] + size2[top]
    BY <1>2, <1>3, <2>1, <2>3, <2>n
  <2>8. RunAt(mem', run', size2, top + Header + n, live')
    BY <1>1, <1>7, <2>1, <2>3, <2>4, <2>5, <2>6, <2>7 DEF RunAt
  <2>9. DataKept
    <3> SUFFICES ASSUME NEW b \in live, NEW c \in Data(b) PROVE mem'[c] = mem[c]
      BY <1>1 DEF DataKept
    <3>1. c \in Bytes /\ c < top
      BY LiveFacts
    <3>2. top \in Places
      BY <1>0, <2>2 DEF Places
    <3>3. \A d \in Bytes : d \notin top .. top + 6 => mem'[d] = mem[d]
      BY <3>2, <2>2, HeaderWritten
    <3> QED
      BY <1>0, <3>1, <3>3 DEF Bytes
  <2>10. ChainInv(size2, top + Header + n)'
    BY <1>1, <1>8, <2>3, <2>8 DEF ChainInv
  <2> QED
    BY <2>9, <2>10
<1>10. CASE IsMagic(mem, next)
  <2>1. run'.pc = "gather" /\ mem' = mem
    BY <1>1, <1>6, <1>10 DEF Runs
  <2>2. RunAt(mem', run', size, top, live')
    BY <1>2, <1>7, <2>1 DEF RunAt
  <2>3. ChainInv(size, top)'
    BY <1>0, <1>1, <1>8, <2>1, <2>2 DEF ChainInv
  <2> QED
    BY <1>1, <2>1, <2>3 DEF DataKept
<1> QED
  BY <1>9, <1>10

LEMMA GatherKeeps ==
  ASSUME NEW size, NEW top, ChainInv(size, top), TypeInv, Gather, since' = 0
  PROVE  ChainInv(size, top)' /\ DataKept
<1>0. Chain(mem, size, top) /\ Blocks(mem, size, live) /\ top \in Nat
  BY DEF ChainInv, Chain
<1>1. run.pc = "gather" /\ live' = live /\ mem' = mem /\ run \in Runs
  BY DEF Gather, Running, TypeInv
<1>2. top <= Arena /\ run.i \in DOMAIN size /\ run.to \in DOMAIN size \cup {top}
  BY <1>1 DEF ChainInv, RunAt
<1>3. \/ /\ run.size < run.sz /\ IsMagic(mem, run.to)
         /\ run' = [run EXCEPT !.size = (run.size + Sz(mem, run.to)) % Word,
                               !.to = Behind(mem, run.to)]
      \/ run' = [run EXCEPT !.pc = "walk", !.i = Behind(mem, run.i),
                            !.to = 0, !.size = 0]
  BY <1>1 DEF Gather, Disordered, TypeInv, Runs
<1>4. \A e \in DOMAIN size : Behind(mem, e) \in DOMAIN size \cup {top}
  <2> SUFFICES ASSUME NEW e \in DOMAIN size PROVE Behind(mem, e) \in DOMAIN size \cup {top}
    OBVIOUS
  <2>1. /\ EndOf(size, e) <= top /\ EndOf(size, e) \in Nat
        /\ EndOf(size, e) \in DOMAIN size \cup {top}
        /\ EndOf(size, e) <= Arena => Behind(mem, e) = EndOf(size, e)
    BY <1>0, ChainFacts
  <2> QED
    BY <1>0, <1>2, <2>1
<1>5. CASE /\ run.size < run.sz /\ IsMagic(mem, run.to)
           /\ run' = [run EXCEPT !.size = (run.size + Sz(mem, run.to)) % Word,
                                 !.to = Behind(mem, run.to)]
  <2>1. Sound(mem, run.to)
    BY <1>1, <1>5 DEF Gather, Running, Consulted
  <2>2. run.to + Header <= Arena
    BY <2>1 DEF Sound
  <2>3. run.to \in DOMAIN size
    BY <1>0, <1>2, <1>5, <2>2, ChainEnds
  <2>4. Behind(mem, run.to) \in DOMAIN size \cup {top}
    BY <1>4, <2>3
  <2>5. /\ run'.pc = "gather" /\ run'.i = run.i /\ run'.to = Behind(mem, run.to)
        /\ run'.op = run.op /\ run'.old = run.old
    BY <1>1, <1>5 DEF Runs
  <2>6. RunAt(mem', run', size, top, live') /\ Replaced(run', live')
    BY <1>1, <1>2, <2>4, <2>5 DEF ChainInv, RunAt, Replaced
  <2> QED
    BY <1>0, <1>1, <2>6 DEF ChainInv, DataKept
<1>6. CASE run' = [run EXCEPT !.pc = "walk", !.i = Behind(mem, run.i), !.to = 0, !.size = 0]
  <2>1. /\ run'.pc = "walk" /\ run'.i = Behind(mem, run.i) /\ run'.size = 0
        /\ run'.op = run.op /\ run'.old = run.old
    BY <1>1, <1>6 DEF Runs
  <2>2. Behind(mem, run.i) \in DOMAIN size \cup {top}
    BY <1>2, <1>4
  <2>3. RunAt(mem', run', size, top, live') /\ Replaced(run', live')
    BY <1>1, <1>2, <2>1, <2>2 DEF ChainInv, RunAt, Replaced
  <2> QED
    BY <1>0, <1>1, <2>3 DEF ChainInv, DataKept
<1> QED
  BY <1>3, <1>5, <1>6

LEMMA CombineKeeps ==
  ASSUME NEW size, NEW top, ChainInv(size, top), TypeInv,
         NEW pc \in {"combine", "cut"}, Combine(pc)
  PROVE  (\E size2, top2 : ChainInv(size2, top2)') /\ DataKept
<1>0. Chain(mem, size, top) /\ Blocks(mem, size, live) /\ top \in Nat
  BY DEF ChainInv, Chain
<1>1. run.pc = pc /\ live' = live /\ run \in Runs /\ run.sz \in 1 .. Arena
  BY DEF Combine, Running, TypeInv
<1>2. /\ pc = "combine"
      /\ run.i \in DOMAIN size /\ run.to \in DOMAIN size
      /\ EndOf(size, run.i) = run.to /\ EndOf(size, run.to) = top
      /\ run.sz = size[run.i] + size[run.to]
      /\ \/ run.p = run.i /\ run.size = 0
         \/ run.p = run.to /\ run.size = size[run.i]
      /\ \A c \in Bytes : c > run.to => mem[c] # Magic
      /\ \A b \in live : b.at # run.i /\ b.at # run.to
  BY <1>1 DEF ChainInv, RunAt
<1>3. /\ run.i \in Nat /\ size[run.i] \in Nat /\ 1 <= size[run.i] /\ size[run.i] <= Arena
      /\ Sz(mem, run.i) = size[run.i]
      /\ run.to = run.i + Header + size[run.i]
      /\ run.to <= Arena => Behind(mem, run.i) = run.to
  BY <1>0, <1>2, ChainFacts
<1>4. /\ run.to \in Nat /\ run.to + Header <= Arena /\ size[run.to] \in Nat
      /\ Sz(mem, run.to) = size[run.to]
  BY <1>0, <1>2, ChainFacts
<1>5. CASE /\ run.p < run.to
           /\ run' = [run EXCEPT !.size = (run.size + Sz(mem, run.p)) % Word,
                                 !.p = Behind(mem, run.p)]
           /\ mem' = mem
  <2>1. run.p = run.i /\ run.size = 0
    BY <1>2, <1>4, <1>5
  <2>2. (0 + size[run.i]) % Word = size[run.i]
    BY <1>3
  <2>3. /\ run'.pc = "combine" /\ run'.i = run.i /\ run'.to = run.to /\ run'.sz = run.sz
        /\ run'.p = run.to /\ run'.size = size[run.i]
        /\ run'.op = run.op /\ run'.old = run.old
    BY <1>1, <1>2, <1>3, <1>4, <1>5, <2>1, <2>2 DEF Runs
  <2>4. RunAt(mem', run', size, top, live') /\ Replaced(run', live')
    BY <1>1, <1>2, <1>5, <2>3 DEF ChainInv, RunAt, Replaced
  <2>5. ChainInv(size, top)'
    BY <1>0, <1>1, <1>5, <2>4 DEF ChainInv
  <2> QED
    BY <1>1, <1>5, <2>5 DEF DataKept
<1>6. CASE /\ run.p >= run.to
           /\ LET last == Sz(mem, run.p)
                  sum == IF last = Garbage THEN Garbage ELSE (run.size + last) % Word
              IN mem' = WriteSz(mem, run.i, sum)
           /\ run' = [run EXCEPT !.pc = "finish"]
  <2>1. run.p = run.to /\ run.size = size[run.i]
    BY <1>2, <1>3, <1>4, <1>6
  <2>n. PICK n : n = size[run.i] + size[run.to]
    OBVIOUS
  <2>s. PICK size2 : size2 = Joined(size, run.i, run.to, n)
    OBVIOUS
  <2>2. n = run.sz /\ n <= Arena /\ n \in Nat
    BY <1>1, <1>2, <2>n
  <2>3. n % Word = n
    BY <2>2
  <2>4. mem' = WriteSz(mem, run.i, n)
    BY <1>4, <1>6, <2>1, <2>3, <2>n DEF Garbage
  <2>5. /\ Chain(mem', size2, run.i + Header + n)
        /\ Blocks(mem', size2, live)
        /\ run.i \in DOMAIN size2 /\ size2[run.i] = n /\ EndOf(size2, run.i) = run.i + Header + n
    <3> DEFINE i == run.i
               to == run.to
    <3>1. /\ i \in DOMAIN size /\ to \in DOMAIN size /\ EndOf(size, i) = to /\ EndOf(size, to) = top
          /\ \A b \in live : b.at # i /\ b.at # to
          /\ \A c \in Bytes : c > to => mem[c] # Magic
          /\ n = size[i] + size[to] /\ size2 = Joined(size, i, to, n) /\ mem' = WriteSz(mem, i, n)
      BY <1>2, <2>n, <2>s, <2>4
    <3> HIDE DEF i, to
    <3>2. /\ Chain(mem', size2, i + Header + n)
          /\ Blocks(mem', size2, live)
      BY <1>0, <2>2, <3>1, ChainJoined
    <3>3. i \in DOMAIN size2 /\ size2[i] = n /\ EndOf(size2, i) = i + Header + n
      BY <1>3, <1>4, <3>1 DEF Joined, EndOf, i, to
    <3> QED
      BY <3>2, <3>3 DEF i
  <2>6. /\ run'.pc = "finish" /\ run'.i = run.i /\ run'.sz = run.sz
        /\ run'.op = run.op /\ run'.old = run.old
    BY <1>1, <1>6 DEF Runs
  <2>7. RunAt(mem', run', size2, run.i + Header + n, live') /\ Replaced(run', live')
    BY <1>1, <1>2, <2>2, <2>5, <2>6 DEF ChainInv, RunAt, Replaced
  <2>i. PICK top2 : top2 = run.i + Header + n
    OBVIOUS
  <2>8. ChainInv(size2, top2)'
    BY <1>1, <2>5, <2>7, <2>i DEF ChainInv
  <2>9. DataKept
    <3> SUFFICES ASSUME NEW b \in live, NEW c \in Data(b) PROVE mem'[c] = mem[c]
      BY <1>1 DEF DataKept
    <3>1. c \in Bytes /\ \A e \in DOMAIN size, k \in 0 .. 6 : c # e + k
      BY LiveFacts
    <3>2. c \notin run.i + 2 .. run.i + 5
      <4>1. \A k \in 0 .. 6 : c # run.i + k
        BY <1>2, <3>1
      <4>2. c # run.i + 2 /\ c # run.i + 3 /\ c # run.i + 4 /\ c # run.i + 5
        BY <4>1
      <4> QED
        BY <1>3, <3>1, <4>2 DEF Bytes
    <3> QED
      BY <2>4, <3>1, <3>2 DEF WriteSz
  <2> QED
    BY <2>8, <2>9
<1>7. \/ /\ run.p < run.to /\ mem' = mem
         /\ run' = [run EXCEPT !.size = (run.size + Sz(mem, run.p)) % Word,
                               !.p = Behind(mem, run.p)]
      \/ /\ run.p >= run.to
         /\ LET last == Sz(mem, run.p)
                sum == IF last = Garbage THEN Garbage ELSE (run.size + last) % Word
            IN mem' = WriteSz(mem, run.i, sum)
         /\ run' = [run EXCEPT !.pc = "finish"]
  BY <1>1, <1>2 DEF Combine, Goto, Runs
<1> QED
  BY <1>5, <1>6, <1>7

LEMMA StrayKeeps ==
  ASSUME NEW size, NEW top, ChainInv(size, top), TypeInv, Stray
  PROVE  ruin' = "outside" /\ mem' = mem /\ live' = live
<1>1. PICK e \in Consulted :
         ~Sound(mem, e) /\ ruin' = IF e + Header <= Arena THEN "garbage" ELSE "outside"
  BY DEF Stray
<1>2. e \in DOMAIN size \cup {top}
  BY ConsultedChain
<1>3. ~(e + Header <= Arena)
  <2>1. Chain(mem, size, top)
    BY DEF ChainInv
  <2> QED
    BY <1>1, <1>2, <2>1, ChainEnds
<1> QED
  BY <1>1, <1>3 DEF Stray

\* Marking an entry used or free.
LEMMA ChainMarked ==
  ASSUME NEW m, NEW size, NEW top, Chain(m, size, top), NEW i \in DOMAIN size,
         NEW u \in BOOLEAN, NEW m2, m2 = WriteUsed(m, i, u)
  PROVE  /\ Chain(m2, size, top)
         /\ \A e \in DOMAIN size : e # i /\ Used(m, e) => Used(m2, e)
         /\ u => Used(m2, i)
         /\ \A c \in Bytes : c # i + 6 => m2[c] = m[c]
<1>1. i \in Places /\ i \in Nat /\ HeaderAt(m, i, size[i])
  BY ChainFacts
<1>2. /\ \A c \in Bytes : c # i + 6 => m2[c] = m[c]
      /\ m2[i + 6] = <<"used", u>>
      /\ \A c \in Bytes : m[c] # Magic => m2[c] # Magic
      /\ \A n : HeaderAt(m, i, n) => HeaderAt(m2, i, n)
  BY <1>1, UsedWritten
<1>3. ASSUME NEW e \in DOMAIN size, e # i
      PROVE  HeaderAt(m2, e, size[e]) /\ (Used(m, e) => Used(m2, e))
  <2>1. e \in Places /\ HeaderAt(m, e, size[e])
    BY ChainFacts
  <2>2. \A k \in 0 .. 6 : m2[e + k] = m[e + k]
    <3> SUFFICES ASSUME NEW k \in 0 .. 6 PROVE m2[e + k] = m[e + k]
      OBVIOUS
    <3>1. e + k \in Bytes /\ e + k \in Nat
      BY <2>1, PlaceBytes
    <3>2. \A n \in 0 .. size[i] : e + k \notin i .. i + Header + n - 1
      BY <1>3, ChainClear
    <3>3. 0 \in 0 .. size[i]
      BY ChainFacts
    <3>4. e + k # i + 6
      BY <1>1, <3>1, <3>2, <3>3
    <3> QED
      BY <1>2, <3>1, <3>4
  <2> DEFINE s == size[e]
  <2> HIDE DEF s
  <2>3. (HeaderAt(m, e, s) => HeaderAt(m2, e, s)) /\ (Used(m, e) => Used(m2, e))
    BY <2>1, <2>2, HeaderFrame
  <2> QED
    BY <2>1, <2>3 DEF s
<1>4. \A e \in DOMAIN size : HeaderAt(m2, e, size[e])
  BY <1>1, <1>2, <1>3
<1>5. Chain(m2, size, top)
  <2>1. \A c \in Bytes : c >= top => m2[c] # Magic
    BY <1>2 DEF Chain
  <2> QED
    BY <1>4, <2>1, ChainFrame
<1>6. u => Used(m2, i)
  BY <1>2, Zenon DEF Used
<1> QED
  BY <1>2, <1>3, <1>5, <1>6

\* Writing to the data of an entry.
LEMMA ChainFilled ==
  ASSUME NEW m, NEW size, NEW top, Chain(m, size, top), NEW i \in DOMAIN size,
         NEW n \in 0 .. size[i], NEW m2,
         \A c \in Bytes : c \notin i + Header .. i + Header + n - 1 => m2[c] = m[c]
  PROVE  /\ Chain(m2, size, top)
         /\ \A e \in DOMAIN size : Used(m, e) => Used(m2, e)
<1>1. /\ i \in Nat /\ size[i] \in Nat /\ EndOf(size, i) = i + Header + size[i]
      /\ EndOf(size, i) <= top /\ top \in Nat
  BY ChainFacts
<1>2. ASSUME NEW e \in DOMAIN size
      PROVE  HeaderAt(m2, e, size[e]) /\ (Used(m, e) => Used(m2, e))
  <2>1. e \in Places /\ HeaderAt(m, e, size[e])
    BY ChainFacts
  <2>2. \A k \in 0 .. 6 : m2[e + k] = m[e + k]
    <3> SUFFICES ASSUME NEW k \in 0 .. 6 PROVE m2[e + k] = m[e + k]
      OBVIOUS
    <3>1. e + k \in Bytes
      BY <2>1, PlaceBytes
    <3>2. e + k \notin i + Header .. i + Header + n - 1
      BY ChainClear
    <3> QED
      BY <3>1, <3>2
  <2> DEFINE s == size[e]
  <2> HIDE DEF s
  <2>3. (HeaderAt(m, e, s) => HeaderAt(m2, e, s)) /\ (Used(m, e) => Used(m2, e))
    BY <2>1, <2>2, HeaderFrame
  <2> QED
    BY <2>1, <2>3 DEF s
<1>3. ASSUME NEW c \in Bytes, c >= top
      PROVE  m2[c] # Magic
  <2>1. c \notin i + Header .. i + Header + n - 1
    BY <1>1, <1>3 DEF Bytes
  <2> QED
    BY <1>3, <2>1 DEF Chain
<1>4. Chain(m2, size, top)
  BY <1>2, <1>3, ChainFrame
<1> QED
  BY <1>2, <1>4

\* realloc's copy: what fits of the block it replaces.
CopyKept ==
    run.op = "realloc" =>
        \A k \in 0 .. run.sz - 1 : k < run.old.sz =>
            mem'[run.i + Header + k] = mem[run.old.at + Header + k]

LEMMA FinishKeeps ==
  ASSUME NEW size, NEW top, ChainInv(size, top), TypeInv, Finish
  PROVE  /\ ruin' # "garbage"
         /\ \A c, d \in live' : c # d => Extent(c) \cap Extent(d) = {}
         /\ ruin' = "none" => ChainInv(size, top)' /\ DataKept /\ CopyKept
<1>0. Chain(mem, size, top) /\ Blocks(mem, size, live) /\ top \in Nat
  BY DEF ChainInv, Chain
<1> DEFINE b == [at |-> run.i, sz |-> run.sz]
           got == WriteUsed(mem, run.i, TRUE)
           from(c) == run.old.at + c - b.at
           copied == [c \in Bytes |->
                        IF c \notin Data(b) THEN got[c]
                        ELSE IF from(c) \in Bytes THEN got[from(c)] ELSE Unknown]
<1>1. /\ run.pc = "finish" /\ run \in Runs /\ run.sz \in 1 .. Arena
      /\ run' = Idle /\ live' = (live \ {run.old}) \cup {b}
      /\ run.op \in {"malloc", "calloc", "realloc"}
  BY DEF Finish, TypeInv, Runs
<1>2. /\ run.i \in DOMAIN size /\ size[run.i] >= run.sz
      /\ \/ top <= Arena
         \/ EndOf(size, run.i) = top /\ size[run.i] = run.sz
      /\ \A d \in live : d.at # run.i
  BY <1>1 DEF ChainInv, RunAt
<1>3. /\ run.i \in Nat /\ size[run.i] \in Nat /\ EndOf(size, run.i) = run.i + Header + size[run.i]
      /\ EndOf(size, run.i) <= top
  BY <1>0, <1>2, ChainFacts
<1>4. /\ b.at = run.i /\ b.sz = run.sz /\ b.at \in DOMAIN size /\ b.sz \in 0 .. size[b.at]
      /\ b.sz \in 1 .. size[b.at]
  BY <1>1, <1>2, <1>3
<1>5. \A d \in live : d.at \in DOMAIN size /\ d.sz \in 0 .. size[d.at]
  <2> SUFFICES ASSUME NEW d \in live PROVE d.at \in DOMAIN size /\ d.sz \in 0 .. size[d.at]
    OBVIOUS
  <2>1. d.at \in DOMAIN size /\ 1 <= d.sz /\ d.sz <= size[d.at] /\ d.sz \in Nat
    BY LiveFacts
  <2>2. size[d.at] \in Nat
    BY <1>0, <2>1, ChainFacts
  <2> QED
    BY <2>1, <2>2
<1> HIDE DEF b, from, copied, got
<1>6. \A c, d \in live' : c # d => Extent(c) \cap Extent(d) = {}
  <2> SUFFICES ASSUME NEW c \in live', NEW d \in live', c # d
               PROVE  Extent(c) \cap Extent(d) = {}
    OBVIOUS
  <2>1. c.at \in DOMAIN size /\ c.sz \in 0 .. size[c.at] /\ d.at \in DOMAIN size /\ d.sz \in 0 .. size[d.at]
    BY <1>1, <1>4, <1>5
  <2>2. c.at # d.at
    <3>1. CASE c \in live /\ d \in live
      BY <3>1, <1>0 DEF Blocks
    <3>2. CASE c = b \/ d = b
      BY <3>2, <1>1, <1>2, <1>4
    <3> QED
      BY <3>1, <3>2, <1>1
  <2> QED
    BY <2>1, <2>2, <1>0, ChainApart
<1>7. ruin' \in {"outside", "overlap", "none"}
  BY DEF Finish
<1>8. ASSUME ruin' = "none"
      PROVE  run.i + Header + run.sz <= Arena /\ top <= Arena
  <2>1. ~(run.i + Header + run.sz > Arena)
    BY <1>8 DEF Finish
  <2> QED
    BY <2>1, <1>1, <1>2, <1>3
<1>9. \E m2 : /\ \A c \in Bytes : c \notin Data(b) => m2[c] = got[c]
              /\ run.op = "realloc" => m2 = copied
              /\ mem' = IF run.op = "realloc" THEN Free(m2, run.old) ELSE m2
  <2>1. \E first \in {got, Fill(got, Data(b), <<"data", b.at>>)} :
           mem' = CASE run.op = "malloc" -> first
                    [] run.op = "calloc" -> Fill(got, Data(b), Zero)
                    [] run.op = "realloc" -> Free(copied, run.old)
    BY DEF Finish, b, got, from, copied
  <2>2. \A byte, c : c \in Bytes /\ c \notin Data(b) => Fill(got, Data(b), byte)[c] = got[c]
    BY DEF Fill
  <2>3. CASE run.op = "malloc"
    <3>1. mem' = got \/ mem' = Fill(got, Data(b), <<"data", b.at>>)
      BY <2>1, <2>3
    <3> WITNESS mem'
    <3> QED
      BY <3>1, <2>2, <2>3
  <2>4. CASE run.op = "calloc"
    <3>1. mem' = Fill(got, Data(b), Zero)
      BY <2>1, <2>4
    <3> WITNESS mem'
    <3> QED
      BY <3>1, <2>2, <2>4
  <2>5. CASE run.op = "realloc"
    <3>1. mem' = Free(copied, run.old)
      BY <2>1, <2>5
    <3>2. \A c \in Bytes : c \notin Data(b) => copied[c] = got[c]
      BY DEF copied
    <3> WITNESS copied
    <3> QED
      BY <3>1, <3>2, <2>5
  <2> QED
    BY <2>3, <2>4, <2>5, <1>1
<1>10. PICK m2 : /\ \A c \in Bytes : c \notin Data(b) => m2[c] = got[c]
                 /\ run.op = "realloc" => m2 = copied
                 /\ mem' = IF run.op = "realloc" THEN Free(m2, run.old) ELSE m2
  BY <1>9
<1>11. /\ Chain(got, size, top)
       /\ \A e \in DOMAIN size : e # run.i /\ Used(mem, e) => Used(got, e)
       /\ Used(got, run.i)
       /\ \A c \in Bytes : c # run.i + 6 => got[c] = mem[c]
  <2> DEFINE i == run.i
  <2>1. i \in DOMAIN size /\ TRUE \in BOOLEAN /\ got = WriteUsed(mem, i, TRUE)
    BY <1>2 DEF got
  <2> HIDE DEF i
  <2>2. Chain(got, size, top)
    BY <1>0, <2>1, ChainMarked
  <2>3. \A e \in DOMAIN size : e # i /\ Used(mem, e) => Used(got, e)
    BY <1>0, <2>1, ChainMarked
  <2>4. TRUE => Used(got, i)
    BY <1>0, <2>1, ChainMarked
  <2>5. \A c \in Bytes : c # i + 6 => got[c] = mem[c]
    BY <2>1 DEF WriteUsed
  <2> QED
    BY <2>2, <2>3, <2>4, <2>5 DEF i
<1>12. /\ Chain(m2, size, top)
       /\ \A e \in DOMAIN size : Used(got, e) => Used(m2, e)
  <2> DEFINE i == run.i
             n == run.sz
  <2>1. i \in DOMAIN size /\ n \in 0 .. size[i] /\ Data(b) = i + Header .. i + Header + n - 1
    BY <1>4 DEF Data
  <2> HIDE DEF i, n
  <2>2. \A c \in Bytes : c \notin i + Header .. i + Header + n - 1 => m2[c] = got[c]
    BY <1>10, <2>1
  <2> QED
    BY <1>11, <2>1, <2>2, ChainFilled
<1>13. ASSUME run.op = "realloc"
       PROVE  /\ Chain(mem', size, top) /\ Used(mem', run.i)
              /\ run.old \in live /\ run.old \notin live'
              /\ run.old.at \in DOMAIN size
              /\ \A e \in DOMAIN size :
                    e # run.i /\ e # run.old.at /\ Used(mem, e) => Used(mem', e)
              /\ \A c \in Bytes :
                    c \notin Data(b) /\ c # run.i + 6 /\ c # run.old.at + 6 => mem'[c] = mem[c]
              /\ ruin' = "none" => CopyKept
  <2>1. /\ run.old \in live /\ run.old.at \in DOMAIN size /\ run.old.at # run.i
        /\ run.old.at \in Nat /\ run.old.sz \in Nat /\ Data(run.old) \subseteq Bytes
    <3>1. run.old \in live
      BY <1>13 DEF ChainInv, Replaced
    <3> QED
      BY <3>1, <1>2, LiveFacts
  <2>2. IsMagic(m2, run.old.at)
    BY <1>12, <2>1, ChainFacts
  <2>3. mem' = WriteUsed(m2, run.old.at, FALSE)
    BY <1>10, <1>13, <2>2 DEF Free
  <2>4. /\ Chain(mem', size, top)
        /\ \A e \in DOMAIN size : e # run.old.at /\ Used(m2, e) => Used(mem', e)
        /\ \A c \in Bytes : c # run.old.at + 6 => mem'[c] = m2[c]
    <3> DEFINE i == run.old.at
    <3>1. i \in DOMAIN size /\ FALSE \in BOOLEAN /\ mem' = WriteUsed(m2, i, FALSE)
      BY <2>1, <2>3
    <3> HIDE DEF i
    <3>2. Chain(mem', size, top)
      BY <1>12, <3>1, ChainMarked
    <3>3. \A e \in DOMAIN size : e # i /\ Used(m2, e) => Used(mem', e)
      BY <1>12, <3>1, ChainMarked
    <3>4. \A c \in Bytes : c # i + 6 => mem'[c] = m2[c]
      BY <3>1 DEF WriteUsed
    <3> QED
      BY <3>2, <3>3, <3>4 DEF i
  <2>5. ASSUME ruin' = "none" PROVE CopyKept
    <3> SUFFICES ASSUME NEW k \in 0 .. run.sz - 1, k < run.old.sz
                 PROVE  mem'[run.i + Header + k] = mem[run.old.at + Header + k]
      BY DEF CopyKept
    <3> DEFINE c == run.i + Header + k
               d == run.old.at + Header + k
    <3>1. c \in Data(b) /\ c \in Bytes
      BY <1>1, <1>3, <1>4, <1>8, <2>5 DEF Data, Bytes
    <3>2. d \in Data(run.old) /\ d \in Bytes
      BY <2>1, <1>1 DEF Data
    <3>3. from(c) = d
      BY <1>1, <1>3, <1>4, <2>1 DEF from
    <3>4. d # run.i + 6
      <4>1. \A e \in DOMAIN size, j \in 0 .. 6 : d # e + j
        BY <2>1, <3>2, LiveFacts
      <4> QED
        BY <4>1, <1>2
    <3>5. c # run.old.at + 6
      <4> DEFINE f == run.i
                 n == run.sz
                 e == run.old.at
      <4>1. f \in DOMAIN size /\ e \in DOMAIN size /\ n \in 0 .. size[f] /\ 6 \in 0 .. 6
        BY <1>4, <2>1
      <4>f. f = run.i /\ n = run.sz /\ e = run.old.at
        OBVIOUS
      <4> HIDE DEF e, f, n
      <4>2. e + 6 \notin f + Header .. f + Header + n - 1
        BY <1>0, <4>1, ChainClear
      <4>3. e + 6 \notin Data(b)
        BY <4>2, <4>f, <1>4 DEF Data
      <4> QED
        BY <4>3, <4>f, <3>1
    <3> HIDE DEF c, d
    <3>6. m2[c] = got[d]
      <4>1. m2[c] = copied[c]
        BY <1>10, <1>13
      <4>2. copied[c] = got[from(c)]
        BY <3>1, <3>2, <3>3 DEF copied
      <4> QED
        BY <4>1, <4>2, <3>3
    <3>7. mem'[c] = m2[c] /\ got[d] = mem[d]
      BY <1>11, <2>4, <3>1, <3>2, <3>4, <3>5
    <3> QED
      BY <3>6, <3>7 DEF c, d
  <2>6. Used(mem', run.i)
    BY <1>2, <1>11, <1>12, <2>1, <2>4
  <2>7. \A e \in DOMAIN size : e # run.i /\ e # run.old.at /\ Used(mem, e) => Used(mem', e)
    BY <1>11, <1>12, <2>4
  <2>8. \A c \in Bytes : c \notin Data(b) /\ c # run.i + 6 /\ c # run.old.at + 6 => mem'[c] = mem[c]
    BY <1>10, <1>11, <2>4
  <2>9. live' \subseteq live \cup {b} /\ run.old \in live /\ run.old \notin live'
    <3>1. run.old # b
      BY <1>4, <2>1
    <3> QED
      BY <3>1, <1>1, <2>1
  <2> QED
    BY <2>1, <2>4, <2>5, <2>6, <2>7, <2>8, <2>9
<1>14. ASSUME run.op # "realloc"
       PROVE  /\ Chain(mem', size, top) /\ Used(mem', run.i)
              /\ \A e \in DOMAIN size : e # run.i /\ Used(mem, e) => Used(mem', e)
              /\ \A c \in Bytes : c \notin Data(b) /\ c # run.i + 6 => mem'[c] = mem[c]
              /\ CopyKept
  <2>1. mem' = m2
    BY <1>10, <1>14
  <2>2. Used(mem', run.i) /\ Chain(mem', size, top)
    BY <1>2, <1>11, <1>12, <2>1
  <2>3. \A e \in DOMAIN size : e # run.i /\ Used(mem, e) => Used(mem', e)
    BY <1>11, <1>12, <2>1
  <2>4. \A c \in Bytes : c \notin Data(b) /\ c # run.i + 6 => mem'[c] = mem[c]
    BY <1>10, <1>11, <2>1
  <2> QED
    BY <2>2, <2>3, <2>4, <1>14 DEF CopyKept
<1>15. ASSUME NEW d \in live, d \in live'
       PROVE  Used(mem', d.at) /\ \A c \in Data(d) : mem'[c] = mem[c]
  <2>1. /\ d.at \in DOMAIN size /\ Used(mem, d.at) /\ d.at # run.i
        /\ Data(d) \subseteq Bytes
        /\ \A c \in Data(d) : \A e \in DOMAIN size, k \in 0 .. 6 : c # e + k
    BY <1>2, LiveFacts
  <2>2. run.op = "realloc" => d.at # run.old.at
    <3> SUFFICES ASSUME run.op = "realloc" PROVE d.at # run.old.at
      OBVIOUS
    <3>1. run.old \in live /\ d # run.old
      BY <1>13, <1>15
    <3> QED
      BY <3>1, <1>0 DEF Blocks
  <2>3. Used(mem', d.at)
    BY <1>13, <1>14, <2>1, <2>2
  <2>4. ASSUME NEW c \in Data(d)
        PROVE  mem'[c] = mem[c]
    <3>1. c \in Bytes /\ c # run.i + 6 /\ (run.op = "realloc" => c # run.old.at + 6)
      BY <1>2, <1>13, <2>1
    <3>2. c \notin Data(b)
      <4>1. Extent(d) \cap Extent(b) = {}
        BY <1>0, <1>4, <1>5, <2>1, ChainApart
      <4>2. d.at \in Nat /\ d.sz \in Nat /\ b.at \in Nat /\ b.sz \in Nat
        BY <1>1, <1>3, <1>4, LiveFacts
      <4> DEFINE x == d.at
                 y == b.at
                 s == d.sz
                 z == b.sz
      <4>3. /\ Extent(d) = x .. x + Header + s - 1 /\ Data(d) = x + Header .. x + Header + s - 1
            /\ Extent(b) = y .. y + Header + z - 1 /\ Data(b) = y + Header .. y + Header + z - 1
            /\ x \in Nat /\ y \in Nat /\ s \in Nat /\ z \in Nat
        BY <4>2 DEF Extent, Data
      <4> HIDE DEF x, y, s, z
      <4>4. Data(d) \subseteq Extent(d) /\ Data(b) \subseteq Extent(b)
        BY <4>3
      <4> QED
        BY <4>1, <4>4
    <3> QED
      BY <3>1, <3>2, <1>13, <1>14
  <2> QED
    BY <2>3, <2>4
<1>16. ASSUME ruin' = "none"
       PROVE  ChainInv(size, top)' /\ DataKept /\ CopyKept
  <2>1. Chain(mem', size, top) /\ Used(mem', run.i) /\ CopyKept
    BY <1>13, <1>14, <1>16
  <2>2. DataKept
    BY <1>15 DEF DataKept
  <2>3. ASSUME NEW d \in live'
        PROVE  /\ d.at \in DOMAIN size /\ Used(mem', d.at) /\ d.sz \in 1 .. size[d.at]
               /\ d.at + Header + d.sz <= Arena
    <3>1. CASE d = b
      BY <3>1, <1>4, <1>8, <1>16, <2>1
    <3>2. CASE d \in live
      BY <3>2, <1>15, <1>0 DEF Blocks
    <3> QED
      BY <3>1, <3>2, <1>1
  <2>4. ASSUME NEW c \in live', NEW d \in live', c.at = d.at
        PROVE  c = d
    <3>1. CASE c \in live /\ d \in live
      BY <3>1, <2>4, <1>0 DEF Blocks
    <3>2. CASE c = b \/ d = b
      BY <3>2, <1>1, <1>2, <1>4, <2>4
    <3> QED
      BY <3>1, <3>2, <1>1
  <2>5. Blocks(mem', size, live')
    BY <2>3, <2>4 DEF Blocks
  <2>6. RunAt(mem', run', size, top, live') /\ Replaced(run', live')
    BY <1>1, <1>8, <1>16 DEF RunAt, Replaced, Idle
  <2> QED
    BY <2>1, <2>2, <2>5, <2>6 DEF ChainInv
<1> QED
  BY <1>6, <1>7, <1>16

LEMMA HangKeeps ==
  ASSUME NEW size, NEW top, ChainInv(size, top), TypeInv, Hang
  PROVE  ChainInv(size, top)' /\ DataKept
<1>0. Chain(mem, size, top) /\ Blocks(mem, size, live) /\ top \in Nat
  BY DEF ChainInv, Chain
<1>1. /\ run.pc = "finish" /\ run \in Runs /\ run' = [run EXCEPT !.pc = "forever"]
      /\ live' = live /\ mem' = WriteUsed(mem, run.i, TRUE)
  BY DEF Hang, Goto, history, TypeInv
<1>2. run.i \in DOMAIN size /\ run.i \in Nat /\ \A d \in live : d.at # run.i
  BY <1>1 DEF ChainInv, RunAt, Runs
<1>3. TRUE \in BOOLEAN
  OBVIOUS
<1>4. /\ Chain(mem', size, top)
      /\ \A e \in DOMAIN size : e # run.i /\ Used(mem, e) => Used(mem', e)
      /\ \A c \in Bytes : c # run.i + 6 => mem'[c] = mem[c]
  <2>1. PICK m2 : m2 = mem'
    OBVIOUS
  <2>2. PICK i : i = run.i
    OBVIOUS
  <2>3. i \in DOMAIN size /\ m2 = WriteUsed(mem, i, TRUE)
    BY <1>1, <1>2, <2>1, <2>2
  <2>4. Chain(m2, size, top)
    BY <1>0, <1>3, <2>3, ChainMarked
  <2>5. \A e \in DOMAIN size : e # i /\ Used(mem, e) => Used(m2, e)
    BY <1>0, <1>3, <2>3, ChainMarked
  <2>6. \A c \in Bytes : c # i + 6 => m2[c] = mem[c]
    BY <2>3 DEF WriteUsed
  <2> QED
    BY <2>1, <2>2, <2>4, <2>5, <2>6
<1>5. DataKept
  <2> SUFFICES ASSUME NEW b \in live, NEW c \in Data(b) PROVE mem'[c] = mem[c]
    BY DEF DataKept
  <2>1. c \in Bytes /\ \A e \in DOMAIN size, k \in 0 .. 6 : c # e + k
    BY LiveFacts
  <2>2. c # run.i + 6
    BY <2>1, <1>2
  <2> QED
    BY <1>4, <2>1, <2>2
<1>6. Blocks(mem', size, live')
  BY <1>0, <1>1, <1>2, <1>4 DEF Blocks
<1>7. RunAt(mem', run', size, top, live') /\ Replaced(run', live')
  <2>1. run'.pc = "forever" /\ run'.op = run.op /\ run'.old = run.old
    BY <1>1 DEF Runs
  <2>2. Replaced(run, live)
    BY DEF ChainInv
  <2> QED
    BY <1>1, <2>1, <2>2 DEF RunAt, Replaced
<1> QED
  BY <1>4, <1>5, <1>6, <1>7 DEF ChainInv

LEMMA ReleaseKeeps ==
  ASSUME NEW size, NEW top, ChainInv(size, top), TypeInv,
         NEW b \in live, NEW clear \in BOOLEAN, Release(b, clear)
  PROVE  ChainInv(size, top)' /\ DataKept /\ ruin' # "garbage" /\ live' = live \ {b}
<1>0. Chain(mem, size, top) /\ Blocks(mem, size, live) /\ top \in Nat
  BY DEF ChainInv, Chain
<1>1. b.at \in DOMAIN size
  BY LiveFacts
<1>i. PICK i : i = b.at
  OBVIOUS
<1>2. /\ i \in DOMAIN size /\ i \in Nat /\ size[i] \in Nat /\ IsMagic(mem, i) /\ Sz(mem, i) = size[i]
  BY <1>0, <1>1, <1>i, ChainFacts
<1>n. PICK n : n = IF clear THEN size[i] ELSE 0
  OBVIOUS
<1>3. n \in 0 .. size[i] /\ n # Garbage
  BY <1>2, <1>n DEF Garbage
<1>4. (IF clear /\ IsMagic(mem, b.at) THEN Sz(mem, b.at) ELSE 0) = n
  BY <1>2, <1>i, <1>n
<1>5. /\ run.pc = "idle" /\ live' = live \ {b} /\ ruin' # "garbage"
      /\ run' = run \/ run' = [Idle EXCEPT !.pc = "forever", !.op = "cfree", !.sz = n % Word]
      /\ \/ mem' = Fill(Free(mem, b), Data([at |-> i, sz |-> n]), Zero)
         \/ mem' = Free(mem, b)
  <2> DEFINE sz == IF clear /\ IsMagic(mem, b.at) THEN Sz(mem, b.at) ELSE 0
  <2>1. sz = n
    BY <1>4
  <2>2. /\ run.pc = "idle" /\ live' = live \ {b} /\ ruin = "none"
        /\ \/ sz = Garbage
           \/ /\ mem' = Fill(Free(mem, b), Data([at |-> b.at, sz |-> sz]), Zero)
              /\ run' = run /\ ruin' = ruin
           \/ /\ mem' = Free(mem, b)
              /\ run' = [Idle EXCEPT !.pc = "forever", !.op = "cfree", !.sz = sz % Word]
              /\ ruin' = ruin
    BY DEF Release
  <2> HIDE DEF sz
  <2> QED
    BY <2>1, <2>2, <1>3, <1>i
<1>6. PICK m : m = WriteUsed(mem, i, FALSE)
  OBVIOUS
<1>7. Free(mem, b) = m
  BY <1>2, <1>6, <1>i DEF Free
<1>8. /\ Chain(m, size, top)
      /\ \A e \in DOMAIN size : e # i /\ Used(mem, e) => Used(m, e)
      /\ \A c \in Bytes : c # i + 6 => m[c] = mem[c]
  <2>1. FALSE \in BOOLEAN
    OBVIOUS
  <2>2. Chain(m, size, top)
    BY <1>0, <1>2, <1>6, <2>1, ChainMarked
  <2>3. \A e \in DOMAIN size : e # i /\ Used(mem, e) => Used(m, e)
    BY <1>0, <1>2, <1>6, <2>1, ChainMarked
  <2>4. \A c \in Bytes : c # i + 6 => m[c] = mem[c]
    BY <1>6 DEF WriteUsed
  <2> QED
    BY <2>2, <2>3, <2>4
<1>9. /\ mem' = Fill(m, Data([at |-> i, sz |-> n]), Zero) \/ mem' = m
      /\ Data([at |-> i, sz |-> n]) = i + Header .. i + Header + n - 1
  BY <1>5, <1>7 DEF Data
<1>10. \A c \in Bytes : c \notin i + Header .. i + Header + n - 1 => mem'[c] = m[c]
  BY <1>9 DEF Fill
<1>11. /\ Chain(mem', size, top)
       /\ \A e \in DOMAIN size : Used(m, e) => Used(mem', e)
  BY <1>2, <1>3, <1>8, <1>10, ChainFilled
<1>12. ASSUME NEW d \in live, d # b
       PROVE  /\ d.at \in DOMAIN size /\ d.at # i /\ Used(mem', d.at)
              /\ \A c \in Data(d) : mem'[c] = mem[c]
  <2>1. /\ d.at \in DOMAIN size /\ Used(mem, d.at) /\ Data(d) \subseteq Bytes
        /\ d.at \in Nat /\ d.sz \in Nat /\ d.sz <= size[d.at]
        /\ \A c \in Data(d) : \A e \in DOMAIN size, k \in 0 .. 6 : c # e + k
    BY LiveFacts
  <2>2. d.at # i
    BY <1>0, <1>12, <1>i DEF Blocks
  <2>3. Used(mem', d.at)
    BY <1>8, <1>11, <2>1, <2>2
  <2>4. ASSUME NEW c \in Data(d)
        PROVE  mem'[c] = mem[c]
    <3>1. c \in Bytes /\ c # i + 6
      BY <1>2, <2>1
    <3>2. c \notin i + Header .. i + Header + n - 1
      <4> DEFINE f == d.at
                 s == d.sz
      <4>1. f \in DOMAIN size /\ f # i /\ f \in Nat /\ s \in Nat /\ s <= size[f]
        BY <2>1, <2>2
      <4>2. c \in f + Header .. f + Header + s - 1
        BY DEF Data
      <4> HIDE DEF f, s
      <4>3. /\ size[f] \in Nat /\ EndOf(size, f) = f + Header + size[f]
            /\ EndOf(size, i) = i + Header + size[i]
        BY <1>0, <1>2, <4>1, ChainFacts
      <4>4. (f < i => EndOf(size, f) <= i) /\ (i < f => EndOf(size, i) <= f)
        BY <1>0, <1>2, <4>1 DEF Chain
      <4> QED
        BY <1>2, <1>3, <4>1, <4>2, <4>3, <4>4
    <3> QED
      BY <1>8, <1>10, <3>1, <3>2
  <2> QED
    BY <2>1, <2>2, <2>3, <2>4
<1>13. DataKept
  BY <1>5, <1>12 DEF DataKept
<1>14. Blocks(mem', size, live')
  BY <1>0, <1>5, <1>12 DEF Blocks
<1>15. RunAt(mem', run', size, top, live') /\ Replaced(run', live')
  <2>1. CASE run' = run
    BY <2>1, <1>5 DEF ChainInv, RunAt, Replaced
  <2>2. CASE run' = [Idle EXCEPT !.pc = "forever", !.op = "cfree", !.sz = n % Word]
    BY <2>2 DEF RunAt, Replaced, Idle
  <2> QED
    BY <1>5, <2>1, <2>2
<1> QED
  BY <1>5, <1>11, <1>13, <1>14, <1>15 DEF ChainInv

-----------------------------------------------------------------------------
(* The invariant and what follows from it.                                 *)

LEMMA OrderlyInit == Init => OrderlyInv
<1> SUFFICES ASSUME Init PROVE \E size, top : ChainInv(size, top)
  BY DEF Init, OrderlyInv
<1>1. PICK none : none = [e \in {} |-> 0]
  OBVIOUS
<1>2. DOMAIN none = {} /\ none \in [DOMAIN none -> 1 .. Arena]
  BY <1>1
<1>3. \A c \in Bytes : mem[c] # Magic
  BY Marking DEF Init
<1>4. Chain(mem, none, 0)
  BY <1>2, <1>3 DEF Chain
<1>5. Blocks(mem, none, live) /\ Replaced(run, live) /\ RunAt(mem, run, none, 0, live)
  BY DEF Init, Blocks, Replaced, RunAt, Idle
<1>6. ChainInv(none, 0)
  BY <1>4, <1>5 DEF ChainInv
<1> QED
  BY <1>6

\* What follows of a step that splits and combines nothing.
LEMMA OrderlyStep ==
  ASSUME TypeInv, OrderlyInv, Next, since' = 0
  PROVE  /\ since = 0 /\ ruin = "none"
         /\ ruin' # "garbage"
         /\ \A b, c \in live' : b # c => Extent(b) \cap Extent(c) = {}
         /\ ruin' = "none" =>
               /\ \E size, top : ChainInv(size, top)'
               /\ DataKept
               /\ run'.pc = "idle" => CopyKept
<1>1. since = 0 /\ ruin = "none"
  <2>1. since \in Nat /\ Disordered > 0
    BY DEF TypeInv, Disordered
  <2>2. ASSUME NEW op, NEW sz, NEW old, Call(op, sz, old)
        PROVE  since = 0 /\ ruin = "none"
    BY <2>1, <2>2 DEF Call, disordered
  <2>3. CASE Place \/ Skip \/ Stray
    BY <2>3 DEF Place, Skip, Stray, Running
  <2>4. CASE Take
    BY <2>1, <2>4 DEF Take, Running
  <2>5. CASE Enlarge
    BY <2>1, <2>5 DEF Enlarge, Running
  <2>6. CASE Gather
    BY <2>1, <2>6 DEF Gather, Running
  <2>7. ASSUME NEW pc, Combine(pc)
        PROVE  since = 0 /\ ruin = "none"
    BY <2>7 DEF Combine, Running
  <2>8. CASE Finish \/ Hang
    BY <2>8 DEF Finish, Hang, history
  <2>9. ASSUME NEW b, NEW clear, Release(b, clear)
        PROVE  since = 0 /\ ruin = "none"
    BY <2>9 DEF Release
  <2> QED
    BY <2>2, <2>3, <2>4, <2>5, <2>6, <2>7, <2>8, <2>9 DEF Next, CallStep
<1>2. PICK size, top : ChainInv(size, top)
  BY <1>1 DEF OrderlyInv
<1>3. \A b, c \in live : b # c => Extent(b) \cap Extent(c) = {}
  BY <1>1 DEF OrderlyInv
<1> DEFINE Quiet == /\ live' = live /\ ruin' = ruin
                    /\ \E s, t : ChainInv(s, t)'
                    /\ DataKept
                    /\ run'.pc # "idle"
<1>4. ASSUME Quiet
      PROVE  /\ ruin' # "garbage"
             /\ \A b, c \in live' : b # c => Extent(b) \cap Extent(c) = {}
             /\ ruin' = "none" =>
                   /\ \E s, t : ChainInv(s, t)'
                   /\ DataKept
                   /\ run'.pc = "idle" => CopyKept
  BY <1>1, <1>3, <1>4
<1>r. run \in Runs
  BY DEF TypeInv
<1>5. ASSUME NEW sz \in Requests, NEW op \in {"malloc", "calloc", "realloc"}, NEW old,
             IF op = "realloc" THEN old \in live ELSE old = Nothing,
             Call(op, sz, old)
      PROVE  Quiet
  <2>1. ChainInv(size, top)' /\ DataKept
    BY <1>2, <1>5, CallKeeps
  <2>2. live' = live /\ ruin' = ruin /\ run'.pc = "walk"
    BY <1>5 DEF Call, Idle
  <2> QED
    BY <2>1, <2>2
<1>6. CASE Place
  <2>1. (\E s, t : ChainInv(s, t)') /\ DataKept
    BY <1>2, <1>6, PlaceKeeps
  <2>2. live' = live /\ ruin' = ruin /\ run'.pc = "finish"
    BY <1>6, <1>r DEF Place, Running, Goto, Runs
  <2> QED
    BY <2>1, <2>2, <1>1, <1>4
<1>7. CASE Take
  <2>1. ChainInv(size, top)' /\ DataKept
    BY <1>2, <1>7, TakeKeeps
  <2>2. live' = live /\ ruin' = ruin /\ run'.pc = "finish"
    BY <1>7, <1>r DEF Take, Running, Goto, Runs
  <2> QED
    BY <2>1, <2>2, <1>1, <1>4
<1>8. CASE Enlarge
  <2>1. (\E s, t : ChainInv(s, t)') /\ DataKept
    BY <1>2, <1>8, EnlargeKeeps
  <2>2. live' = live /\ ruin' = ruin /\ run'.pc \in {"combine", "gather"}
    BY <1>8, <1>r DEF Enlarge, Running, Runs
  <2> QED
    BY <2>1, <2>2, <1>1, <1>4
<1>9. CASE Gather
  <2>1. ChainInv(size, top)' /\ DataKept
    BY <1>2, <1>9, GatherKeeps
  <2>2. live' = live /\ ruin' = ruin /\ run'.pc \in {"cut", "gather", "walk"}
    BY <1>9, <1>r DEF Gather, Running, Runs
  <2> QED
    BY <2>1, <2>2, <1>1, <1>4
<1>10. CASE Skip
  <2>1. ChainInv(size, top)' /\ DataKept
    BY <1>2, <1>10, SkipKeeps
  <2>2. live' = live /\ ruin' = ruin /\ run'.pc = "walk"
    BY <1>10, <1>r DEF Skip, Running, Runs
  <2> QED
    BY <2>1, <2>2, <1>1, <1>4
<1>11. ASSUME NEW pc \in {"combine", "cut"}, Combine(pc)
       PROVE  Quiet
  <2>1. (\E s, t : ChainInv(s, t)') /\ DataKept
    BY <1>2, <1>11, CombineKeeps
  <2>2. live' = live /\ ruin' = ruin /\ run'.pc # "idle"
    BY <1>11, <1>r DEF Combine, Running, Goto, Runs
  <2> QED
    BY <2>1, <2>2
<1>12. CASE Finish
  <2>1. /\ ruin' # "garbage"
        /\ \A c, d \in live' : c # d => Extent(c) \cap Extent(d) = {}
        /\ ruin' = "none" => ChainInv(size, top)' /\ DataKept /\ CopyKept
    BY <1>2, <1>12, FinishKeeps
  <2> QED
    BY <2>1, <1>1
<1>15. CASE Hang
  <2>1. ChainInv(size, top)' /\ DataKept
    BY <1>2, <1>15, HangKeeps
  <2>2. live' = live /\ ruin' = ruin /\ run'.pc = "forever"
    BY <1>15, <1>r DEF Hang, Goto, history, Runs
  <2> QED
    BY <2>1, <2>2, <1>1, <1>4
<1>13. CASE Stray
  <2>1. ruin' = "outside" /\ mem' = mem /\ live' = live
    BY <1>2, <1>13, StrayKeeps
  <2> QED
    BY <2>1, <1>1, <1>3
<1>14. ASSUME NEW b \in live, NEW clear \in BOOLEAN, Release(b, clear)
       PROVE  /\ ruin' # "garbage"
              /\ \A c, d \in live' : c # d => Extent(c) \cap Extent(d) = {}
              /\ ChainInv(size, top)' /\ DataKept /\ CopyKept
  <2>1. ChainInv(size, top)' /\ DataKept /\ ruin' # "garbage" /\ live' = live \ {b}
    BY <1>2, <1>14, ReleaseKeeps
  <2>2. run.pc = "idle"
    BY <1>14 DEF Release
  <2>3. run.op = "none"
    BY <1>2, <2>2 DEF ChainInv, RunAt
  <2> QED
    BY <2>1, <2>3, <1>3 DEF CopyKept
<1> QED
  <2>1. CASE \E sz \in Requests, op \in {"malloc", "calloc"} : Call(op, sz, Nothing)
    <3>1. PICK sz \in Requests, op \in {"malloc", "calloc"} : Call(op, sz, Nothing)
      BY <2>1
    <3>2. op \in {"malloc", "calloc", "realloc"} /\ op # "realloc"
      OBVIOUS
    <3>3. Quiet
      BY <3>1, <3>2, <1>5
    <3> QED
      BY <3>3, <1>1, <1>4
  <2>2. CASE \E sz \in Requests, b \in live : Call("realloc", sz, b)
    <3>1. PICK sz \in Requests, b \in live : Call("realloc", sz, b)
      BY <2>2
    <3>2. Quiet
      BY <3>1, <1>5
    <3> QED
      BY <3>2, <1>1, <1>4
  <2>3. CASE \E pc \in {"combine", "cut"} : Combine(pc)
    <3>1. Quiet
      BY <2>3, <1>11
    <3> QED
      BY <3>1, <1>1, <1>4
  <2>4. CASE \E b \in live, clear \in BOOLEAN : Release(b, clear)
    <3>1. /\ ruin' # "garbage"
          /\ \A c, d \in live' : c # d => Extent(c) \cap Extent(d) = {}
          /\ ChainInv(size, top)' /\ DataKept /\ CopyKept
      BY <2>4, <1>14
    <3> QED
      BY <3>1, <1>1
  <2> HIDE DEF Quiet
  <2> QED
    BY <2>1, <2>2, <2>3, <2>4, <1>6, <1>7, <1>8, <1>9, <1>10, <1>12, <1>13, <1>15 DEF Next, CallStep

LEMMA OrderlyKept == TypeInv /\ OrderlyInv /\ [Next]_vars => OrderlyInv'
<1> SUFFICES ASSUME TypeInv, OrderlyInv, [Next]_vars, since' = 0
             PROVE  /\ ruin' # "garbage"
                    /\ \A b, c \in live' : b # c => Extent(b) \cap Extent(c) = {}
                    /\ ruin' = "none" => \E size, top : ChainInv(size, top)'
  BY DEF OrderlyInv, Extent
<1>1. CASE Next
  BY <1>1, OrderlyStep
<1>2. CASE UNCHANGED vars
  <2>1. mem' = mem /\ run' = run /\ live' = live /\ since' = since /\ ruin' = ruin
    BY <1>2 DEF vars, history
  <2> QED
    BY <2>1 DEF OrderlyInv, ChainInv
<1> QED
  BY <1>1, <1>2

\* As long as no entry has been split or combined, the memory holds one chain
\* of whole headers, and every block handed out is an entry of it.
THEOREM OrderlyInvariant == Spec => [](TypeInv /\ OrderlyInv)
<1>1. Init => TypeInv /\ OrderlyInv
  BY TypeInit, OrderlyInit
<1>2. TypeInv /\ OrderlyInv /\ [Next]_vars => TypeInv' /\ OrderlyInv'
  BY TypeKept, OrderlyKept
<1> QED
  BY <1>1, <1>2, PTL DEF Spec

\* Two blocks malloc has handed out do not overlap (memory.cpp:53-128), until
\* shrink_entry or combine_entries has lost a part of the chain.
THEOREM MallocApart == Spec => []Apart
<1>1. TypeInv /\ OrderlyInv => Apart
  BY DEF OrderlyInv, Apart, disordered, TypeInv
<1> QED
  BY <1>1, OrderlyInvariant, PTL

\* Until then the walk goes by whole headers, and free finds the header of every
\* block it may be given, in use and large enough (memory.cpp:155-168).
THEOREM MallocHeaders == Spec => []HeadersIntact
<1>1. TypeInv /\ OrderlyInv => HeadersIntact
  <2> SUFFICES ASSUME TypeInv, OrderlyInv, ~disordered PROVE
        /\ ruin # "garbage"
        /\ ruin = "none" =>
              \A b \in live : /\ Sound(mem, b.at) /\ IsMagic(mem, b.at)
                              /\ Used(mem, b.at) /\ Sz(mem, b.at) >= b.sz
    BY DEF HeadersIntact
  <2>1. since = 0
    BY DEF disordered, TypeInv
  <2>2. ASSUME ruin = "none", NEW b \in live
        PROVE  /\ Sound(mem, b.at) /\ IsMagic(mem, b.at)
               /\ Used(mem, b.at) /\ Sz(mem, b.at) >= b.sz
    <3>1. PICK size, top : ChainInv(size, top)
      BY <2>1, <2>2 DEF OrderlyInv
    <3>2. b.at \in DOMAIN size /\ Used(mem, b.at) /\ b.sz <= size[b.at] /\ b.sz \in Nat
      BY <3>1, LiveFacts
    <3>3. Chain(mem, size, top)
      BY <3>1 DEF ChainInv
    <3>4. /\ Sz(mem, b.at) = size[b.at] /\ IsMagic(mem, b.at) /\ Sound(mem, b.at)
          /\ size[b.at] \in Nat
      BY <3>2, <3>3, ChainFacts
    <3> QED
      BY <3>2, <3>4
  <2> QED
    BY <2>1, <2>2 DEF OrderlyInv
<1> QED
  BY <1>1, OrderlyInvariant, PTL

\* No call writes to the data of a block it was not given, and realloc copies
\* what fits (memory.cpp:53-182).
THEOREM MallocHeld == Spec => HeldDataStable
<1>1. TypeInv /\ OrderlyInv /\ [Next]_vars =>
        [ since' = 0 /\ ruin' = "none" =>
          /\ \A b \in live \cap live' : \A c \in Data(b) :
                mem'[c] = mem[c]
          /\ run.op = "realloc" /\ run'.pc = "idle" =>
                \A k \in 0 .. run.sz - 1 : k < run.old.sz =>
                    mem'[run.i + Header + k] = mem[run.old.at + Header + k]
        ]_vars
  <2>1. ASSUME TypeInv, OrderlyInv, Next, since' = 0, ruin' = "none"
        PROVE  DataKept /\ (run'.pc = "idle" => CopyKept)
    BY <2>1, OrderlyStep
  <2> QED
    BY <2>1 DEF DataKept, CopyKept
<1> QED
  BY <1>1, OrderlyInvariant, PTL DEF Spec, HeldDataStable
=============================================================================
