---------------------------- MODULE PagingProofs ----------------------------
(***************************************************************************)
(* Proofs about Paging, for any number of pages, slots, table entries and  *)
(* mappings, also when PagesHeap runs out of them.  As in Paging, what is  *)
(* said holds until a page in use has been handed out again, a table was   *)
(* used that had been given back, or a process's mapping replaced one of   *)
(* the kernel's.                                                           *)
(***************************************************************************)
EXTENDS Paging, TLAPS

Targets == Phys \cup {Same, Unmapped}

PTyped == TypeOK /\ asked \in [Dirs -> [Slots -> [Pages -> Targets]]]

\* Every directory's kernel slots hold the kernel's tables, which come first in
\* PagesHeap, so that no mapping there goes without a table.
KernelMapped ==
    ruin = "none" =>
       /\ \A d \in live, s \in Slots :
             s < KernelSlots => entry[d][s].present /\ entry[d][s].table = s + 1
       /\ \A d \in live, s \in Slots, pg \in Pages :
             s < KernelSlots => <<d, s, pg>> \notin dropped

\* Two processes have the directory at 0 only once it was set up a second time.
Sharers == users[NullDir] > 1 => doubled

PInv == PTyped /\ Sharers /\ KernelMapped /\ MapsAsAsked /\ PrivateTables /\ HeldExactly

-----------------------------------------------------------------------------
(* Operators *)

LEMMA SizesTyped ==
    /\ KernelSlots \in Nat /\ KernelSlots > 0 /\ UserSlots \in Nat
    /\ MaxFrames \in Nat /\ MaxFrames > KernelSlots + 1
    /\ TableSize \in Nat /\ TableSize > 0
    /\ Slots \subseteq Nat /\ Frames \subseteq Nat
    /\ 0 \in Slots /\ 0 \in Frames
    /\ Frames \subseteq Dirs /\ NullDir \in Dirs /\ NullDir \notin Frames
BY PagingAssumption DEF Slots, Frames, Dirs, NullDir

LEMMA LiveTyped ==
    ASSUME PTyped
    PROVE  /\ live \subseteq Dirs /\ kernel_dir \in live
           /\ \A d \in Dirs : d \notin live => users[d] = 0
BY DEF PTyped, TypeOK, live

LEMMA ReferencedIs ==
    \A x : x \in Referenced <=>
       \/ x \in live \ {NullDir}
       \/ \E e \in live, s \in Slots : entry[e][s].present /\ x = entry[e][s].table
BY DEF Referenced, Tables

LEMMA ReferencedWillBe ==
    \A x : x \in Referenced' <=>
       \/ x \in live' \ {NullDir}
       \/ \E e \in live', s \in Slots :
             entry'[e][s].present /\ x = entry'[e][s].table
BY DEF Referenced, Tables

LEMMA BlankTyped == Blank \in Table /\ NoEntry \in Entry
BY SizesTyped DEF Blank, Table, NoPage, NoEntry, Entry, Null

\* A page is handed out that is still in use only once a directory has been
\* destroyed.
LEMMA HandedReuse ==
    ASSUME PInv, ruin = "none", NEW f \in Frames, NewFrame(f)
    PROVE  /\ f \notin allocated
           /\ Handed(f) = "none" => f \notin Referenced
           /\ Handed(f) = "reuse" => destroyed
           /\ Handed(f) \in {"none", "reuse"}
<1>1. f \notin allocated
  BY DEF NewFrame, Available
<1>2. Handed(f) = "reuse" => f \in Referenced \ allocated
  BY <1>1 DEF Handed
<1>3. Referenced \ allocated \subseteq IF destroyed THEN KernelTables \cup Twice ELSE {}
  BY DEF PInv, HeldExactly
<1>4. Handed(f) = "reuse" => destroyed
  BY <1>2, <1>3
<1>. QED BY <1>1, <1>4 DEF Handed

-----------------------------------------------------------------------------
LEMMA PInitInv == Init => PInv
<1> SUFFICES ASSUME Init
             PROVE  PInv
  OBVIOUS
<1>1. KernelTables \subseteq Frames /\ kernel_dir \in Frames
      /\ kernel_dir \notin KernelTables
  BY SizesTyped DEF KernelTables, Frames, kernel_dir
<1>2. Identity \in Table
  BY DEF Identity, Table
<1>3. entry \in [Dirs -> [Slots -> Entry]]
  <2>1. \A s \in Slots : s < KernelSlots => s + 1 \in Frames
    BY SizesTyped DEF Frames, Slots
  <2>2. \A s \in Slots : s < KernelSlots =>
           [present |-> TRUE, privilege |-> supervisor, table |-> s + 1] \in Entry
    BY <2>1 DEF Entry
  <2>. QED BY <2>2, BlankTyped DEF Init
<1>4. page \in [Frames -> Table]
  BY <1>2, BlankTyped DEF Init
<1>5. PTyped
  <2>1. asked \in [Dirs -> [Slots -> [Pages -> Targets]]]
    BY DEF Init, Targets
  <2>2. allocated \subseteq Frames /\ users \in [Dirs -> Nat] /\ kernel_dir \in live
    BY <1>1, SizesTyped DEF Init, live
  <2>3. /\ {doubled, destroyed} \subseteq BOOLEAN /\ unmaps \in 0 .. MaxUnmaps
        /\ ruin \in {"none", "reuse", "stale", "remap"}
        /\ dropped \subseteq Dirs \X Slots \X Pages
    <3>1. /\ doubled = FALSE /\ destroyed = FALSE /\ unmaps = 0 /\ ruin = "none"
          /\ dropped = {}
      BY DEF Init
    <3>2. 0 \in 0 .. MaxUnmaps
      BY PagingAssumption
    <3>3. {doubled, destroyed} \subseteq BOOLEAN
      BY <3>1, Zenon
    <3>. QED BY <3>1, <3>2, <3>3, Zenon
  <2>. QED BY <1>3, <1>4, <2>1, <2>2, <2>3 DEF PTyped, TypeOK
<1>6. /\ live = {kernel_dir} /\ users[kernel_dir] = 1 /\ users[NullDir] = 0
      /\ dropped = {}
      /\ allocated = {kernel_dir} \cup KernelTables
      /\ \A s \in Slots :
            /\ entry[kernel_dir][s].present <=> s < KernelSlots
            /\ s < KernelSlots => entry[kernel_dir][s].table = s + 1
            /\ s < KernelSlots => s + 1 \in KernelTables
  <2>1. entry[kernel_dir] = [s \in Slots |-> IF s < KernelSlots
           THEN [present |-> TRUE, privilege |-> supervisor, table |-> s + 1]
           ELSE NoEntry]
    BY <1>1, SizesTyped DEF Init
  <2>2. \A s \in Slots : s < KernelSlots => s + 1 \in KernelTables
    BY SizesTyped DEF KernelTables, Slots
  <2>3. ASSUME NEW s \in Slots
        PROVE  /\ entry[kernel_dir][s].present <=> s < KernelSlots
               /\ s < KernelSlots => entry[kernel_dir][s].table = s + 1
    <3>1. CASE s < KernelSlots
      BY <2>1, <3>1
    <3>2. CASE ~(s < KernelSlots)
      BY <2>1, <3>2 DEF NoEntry
    <3>. QED BY <3>1, <3>2
  <2>4. /\ kernel_dir \in Dirs /\ NullDir \in Dirs /\ NullDir # kernel_dir
        /\ users = [f \in Dirs |-> IF f = kernel_dir THEN 1 ELSE 0]
    BY <1>1, SizesTyped DEF Init
  <2>5. live = {kernel_dir} /\ users[kernel_dir] = 1 /\ users[NullDir] = 0
    BY <2>4 DEF live
  <2>. QED BY <2>2, <2>3, <2>5 DEF Init
<1>7. KernelMapped /\ Sharers
  BY <1>6 DEF KernelMapped, Sharers
<1>8. PrivateTables
  <2> SUFFICES ASSUME NEW s \in Slots, NEW t \in Slots
               PROVE  /\ entry[kernel_dir][s].present =>
                            entry[kernel_dir][s].table # kernel_dir
                      /\ /\ entry[kernel_dir][s].present
                         /\ entry[kernel_dir][t].present
                         /\ entry[kernel_dir][s].table = entry[kernel_dir][t].table
                         => s = t
    BY <1>6 DEF PrivateTables
  <2>1. s \in Nat /\ t \in Nat
    BY SizesTyped
  <2>. QED BY <1>1, <1>6, <2>1
<1>9. MapsAsAsked
  <2> SUFFICES ASSUME NEW s \in Slots, NEW pg \in Pages
               PROVE  /\ Translate(kernel_dir, s, pg) = asked[kernel_dir][s][pg]
                      /\ entry[kernel_dir][s].present =>
                           page[entry[kernel_dir][s].table][pg].privilege # user
    BY <1>6 DEF MapsAsAsked
  <2>1. asked[kernel_dir][s][pg] = IF s < KernelSlots THEN Same ELSE Unmapped
    BY <1>1, SizesTyped DEF Init
  <2>2. CASE s < KernelSlots
    <3>1. page[s + 1] = Identity
      BY <1>1, <1>6, <2>2 DEF Init
    <3>2. page[s + 1][pg].phys = Same /\ page[s + 1][pg].privilege = supervisor
      BY <3>1 DEF Identity
    <3>. QED BY <1>6, <2>1, <2>2, <3>2 DEF Translate, supervisor, user
  <2>3. CASE ~(s < KernelSlots)
    BY <1>6, <2>1, <2>3 DEF Translate
  <2>. QED BY <2>2, <2>3
<1>10. HeldExactly
  <2>1. \A x \in KernelTables : x - 1 \in Slots /\ x - 1 < KernelSlots
                               /\ (x - 1) + 1 = x
    BY SizesTyped DEF KernelTables, Slots
  <2>2. \A x \in KernelTables : x \in Referenced
    BY <1>6, <2>1, ReferencedIs
  <2>3. Referenced \subseteq allocated
    BY <1>6, ReferencedIs
  <2>4. ruin # "reuse"
    BY DEF Init
  <2>. QED BY <1>6, <2>2, <2>3, <2>4, ReferencedIs DEF HeldExactly
<1>. QED BY <1>5, <1>7, <1>8, <1>9, <1>10 DEF PInv

-----------------------------------------------------------------------------
(* New directories *)

\* A directory d is set up: a new page, or the one at address 0.
LEMMA InitDirEffect ==
    ASSUME PInv, ruin = "none", NEW d \in Dirs, InitDir(d)
    PROVE  /\ entry' \in [Dirs -> [Slots -> Entry]]
           /\ asked' \in [Dirs -> [Slots -> [Pages -> Targets]]]
           /\ users' \in [Dirs -> Nat]
           /\ dropped' \subseteq Dirs \X Slots \X Pages
           /\ live' = live \cup {d} /\ users'[d] = users[d] + 1
           /\ \A e \in Dirs \ {d} : /\ entry'[e] = entry[e]
                                   /\ asked'[e] = asked[e]
                                   /\ users'[e] = users[e]
           /\ \A s \in Slots :
                 IF s < KernelSlots
                 THEN entry'[d][s] = entry[kernel_dir][s]
                      /\ asked'[d][s] = asked[kernel_dir][s]
                 ELSE entry'[d][s] = NoEntry
                      /\ asked'[d][s] = [pg \in Pages |-> Unmapped]
           /\ \A e \in Dirs, s \in Slots, pg \in Pages :
                 <<e, s, pg>> \in dropped' <=> e # d /\ <<e, s, pg>> \in dropped
<1>. DEFINE Entries(s) == IF s < KernelSlots THEN entry[kernel_dir][s] ELSE NoEntry
            Wishes(s) == IF s < KernelSlots THEN asked[kernel_dir][s]
                         ELSE [pg \in Pages |-> Unmapped]
<1>1. /\ users' = [users EXCEPT ![d] = @ + 1]
      /\ entry' = [entry EXCEPT ![d] = [s \in Slots |-> Entries(s)]]
      /\ asked' = [asked EXCEPT ![d] = [s \in Slots |-> Wishes(s)]]
      /\ dropped' = {m \in dropped : m[1] # d}
  BY DEF InitDir, DroppedOutside
<1>2. PTyped /\ kernel_dir \in Dirs
  BY SizesTyped DEF PInv, kernel_dir
<1>3. \A s \in Slots : Entries(s) \in Entry
  BY <1>2, BlankTyped DEF PTyped, TypeOK
<1>4. \A s \in Slots : Wishes(s) \in [Pages -> Targets]
  BY <1>2 DEF PTyped, TypeOK, Targets
<1>5. /\ entry' \in [Dirs -> [Slots -> Entry]]
      /\ asked' \in [Dirs -> [Slots -> [Pages -> Targets]]]
  BY <1>1, <1>2, <1>3, <1>4 DEF PTyped, TypeOK
<1>6. /\ users' \in [Dirs -> Nat] /\ users'[d] = users[d] + 1
      /\ \A e \in Dirs \ {d} : users'[e] = users[e]
      /\ users[d] \in Nat
  BY <1>1, <1>2 DEF PTyped, TypeOK
<1>7. live' = live \cup {d}
  BY <1>6 DEF live
<1>8. /\ \A s \in Slots : entry'[d][s] = Entries(s) /\ asked'[d][s] = Wishes(s)
      /\ \A e \in Dirs \ {d} : entry'[e] = entry[e] /\ asked'[e] = asked[e]
  BY <1>1, <1>2 DEF PTyped, TypeOK
<1>9. /\ dropped' \subseteq Dirs \X Slots \X Pages
      /\ \A e \in Dirs, s \in Slots, pg \in Pages :
            <<e, s, pg>> \in dropped' <=> e # d /\ <<e, s, pg>> \in dropped
  BY <1>1, <1>2 DEF PTyped, TypeOK
<1>. QED BY <1>5, <1>6, <1>7, <1>8, <1>9

\* What every new directory shows: d is not in use yet, or it is the one at
\* address 0, and its page, if it is one, is read as a table by nobody.
LEMMA InitDirKeeps ==
    ASSUME PInv, ruin = "none", NEW d \in Dirs, InitDir(d), ruin' = "none",
           d # NullDir => d \notin live,
           \A e \in live, s \in Slots : entry[e][s].present => entry[e][s].table # d,
           page' \in [Frames -> Table],
           \A f \in Frames \ {d} : page'[f] = page[f]
    PROVE  /\ KernelMapped' /\ PrivateTables' /\ MapsAsAsked'
           /\ \A x : x \in Referenced' =>
                 x \in Referenced \/ x \in {d} \ {NullDir}
           /\ d # NullDir => \A x : x \in Referenced => x \in Referenced'
<1>. PTyped /\ KernelMapped /\ MapsAsAsked /\ PrivateTables
  BY DEF PInv
<1>. DEFINE Origin(e) == IF e = d THEN kernel_dir ELSE e
<1>1. /\ live' = live \cup {d} /\ users'[d] = users[d] + 1
      /\ \A e \in Dirs \ {d} : /\ entry'[e] = entry[e]
                              /\ asked'[e] = asked[e]
                              /\ users'[e] = users[e]
      /\ \A s \in Slots :
            IF s < KernelSlots
            THEN entry'[d][s] = entry[kernel_dir][s]
                 /\ asked'[d][s] = asked[kernel_dir][s]
            ELSE entry'[d][s] = NoEntry
                 /\ asked'[d][s] = [pg \in Pages |-> Unmapped]
      /\ \A e \in Dirs, s \in Slots, pg \in Pages :
            <<e, s, pg>> \in dropped' <=> e # d /\ <<e, s, pg>> \in dropped
  BY InitDirEffect
<1>2. kernel_dir \in live /\ live \subseteq Dirs
      /\ \A e \in Dirs : e \notin live => users[e] = 0
  BY LiveTyped
<1>3. \A e \in live' : e \in Dirs /\ Origin(e) \in live
  BY <1>1, <1>2
<1>4. ASSUME NEW e \in live', NEW s \in Slots
      PROVE  /\ entry'[e][s].present =>
                   /\ entry'[e][s] = entry[Origin(e)][s]
                   /\ e = d => s < KernelSlots
             /\ s < KernelSlots => entry'[e][s] = entry[Origin(e)][s]
  BY <1>1, <1>3 DEF NoEntry
<1>5. KernelMapped'
  <2>1. ASSUME NEW e \in live', NEW s \in Slots, s < KernelSlots
        PROVE  /\ entry'[e][s].present /\ entry'[e][s].table = s + 1
               /\ \A pg \in Pages : <<e, s, pg>> \notin dropped'
    <3>1. entry'[e][s].present /\ entry'[e][s].table = s + 1
      BY <1>3, <1>4, <2>1 DEF KernelMapped
    <3>2. \A pg \in Pages : <<e, s, pg>> \notin dropped'
      BY <1>1, <1>2, <2>1 DEF KernelMapped
    <3>. QED BY <3>1, <3>2
  <2>. QED BY <2>1 DEF KernelMapped
<1>6. PrivateTables'
  <2>1. ASSUME NEW e \in live', NEW f \in live', NEW s \in Slots, NEW t \in Slots,
               entry'[e][s].present
        PROVE  /\ entry'[e][s].table \notin live'
               /\ /\ entry'[f][t].present
                  /\ entry'[e][s].table = entry'[f][t].table
                  => s = t /\ (e = f \/ s < KernelSlots)
    <3>1. entry'[e][s].table \notin live /\ entry'[e][s].table # d
      BY <1>3, <1>4, <2>1 DEF PrivateTables
    <3>2. ASSUME entry'[f][t].present, entry'[e][s].table = entry'[f][t].table
          PROVE  s = t /\ (e = f \/ s < KernelSlots)
      <4>1. s = t /\ (Origin(e) = Origin(f) \/ s < KernelSlots)
        BY <1>3, <1>4, <2>1, <3>2 DEF PrivateTables
      <4>2. (e = d => s < KernelSlots) /\ (f = d => t < KernelSlots)
        BY <1>4, <2>1, <3>2
      <4>. QED BY <4>1, <4>2
    <3>. QED BY <1>1, <3>1, <3>2
  <2>2. ASSUME NEW e \in live', users'[e] > 1
        PROVE  e = NullDir
    BY <1>1, <1>2, <1>3, <2>2 DEF PrivateTables
  <2>. QED BY <2>1, <2>2 DEF PrivateTables
<1>7. MapsAsAsked'
  <2> SUFFICES ASSUME NEW e \in live', NEW s \in Slots, NEW pg \in Pages
               PROVE  /\ Translate(e, s, pg)' = IF <<e, s, pg>> \in dropped'
                            THEN Unmapped ELSE asked'[e][s][pg]
                      /\ /\ entry'[e][s].present
                         /\ page'[entry'[e][s].table][pg].privilege = user
                         => entry'[e][s].privilege = user
    BY DEF MapsAsAsked
  <2>1. CASE e = d /\ ~(s < KernelSlots)
    <3>1. entry'[e][s] = NoEntry /\ asked'[e][s][pg] = Unmapped
      BY <1>1, <2>1
    <3>. QED BY <3>1 DEF NoEntry, Translate
  <2>2. CASE ~(e = d /\ ~(s < KernelSlots))
    <3>. DEFINE o == Origin(e)
    <3>1. /\ o \in live /\ o \in Dirs /\ entry'[e][s] = entry[o][s]
          /\ asked'[e][s] = asked[o][s]
      BY <1>1, <1>2, <1>3, <2>2
    <3>2. <<e, s, pg>> \in dropped' <=> <<o, s, pg>> \in dropped
      BY <1>1, <1>2, <1>3, <2>2 DEF KernelMapped
    <3>3. entry[o][s].present =>
             page'[entry[o][s].table] = page[entry[o][s].table]
      BY <3>1 DEF PTyped, TypeOK, Entry
    <3>4. /\ Translate(o, s, pg) = IF <<o, s, pg>> \in dropped THEN Unmapped
                                   ELSE asked[o][s][pg]
          /\ entry[o][s].present /\ page[entry[o][s].table][pg].privilege = user
             => entry[o][s].privilege = user
      BY <3>1 DEF MapsAsAsked
    <3>. HIDE DEF o
    <3>. QED BY <3>1, <3>2, <3>3, <3>4 DEF Translate
  <2>. QED BY <2>1, <2>2
<1>8. \A x : x \in Referenced' => x \in Referenced \/ x \in {d} \ {NullDir}
  <2>1. ASSUME NEW x, NEW e \in live', NEW s \in Slots,
               entry'[e][s].present, x = entry'[e][s].table
        PROVE  x \in Referenced
    BY <1>3, <1>4, <2>1, ReferencedIs
  <2>. QED BY <1>1, <2>1, ReferencedIs, ReferencedWillBe
<1>9. ASSUME d # NullDir
      PROVE  \A x : x \in Referenced => x \in Referenced'
  <2>1. \A e \in live : entry'[e] = entry[e] /\ e \in live'
    BY <1>1, <1>2, <1>9
  <2>. QED BY <2>1, ReferencedIs, ReferencedWillBe
<1>. QED BY <1>5, <1>6, <1>7, <1>8, <1>9

LEMMA CreateNewKeeps ==
    ASSUME PInv, ruin = "none", NEW d \in Frames, NewFrame(d),
           allocated' = allocated \cup {d}, ruin' = Handed(d),
           page' = [page EXCEPT ![d] = Blank], InitDir(d),
           UNCHANGED <<doubled, destroyed, unmaps>>
    PROVE  PInv'
<1>. PTyped /\ Sharers /\ HeldExactly
  BY DEF PInv
<1>. d \in Dirs /\ d # NullDir
  BY SizesTyped
<1>1. /\ d \notin allocated
      /\ Handed(d) = "none" => d \notin Referenced
      /\ Handed(d) = "reuse" => destroyed
      /\ Handed(d) \in {"none", "reuse"}
  BY HandedReuse
<1>2. /\ page' \in [Frames -> Table]
      /\ \A f \in Frames \ {d} : page'[f] = page[f]
  BY BlankTyped DEF PTyped, TypeOK
<1>3. /\ live' = live \cup {d} /\ users'[NullDir] = users[NullDir]
      /\ entry'[NullDir] = entry[NullDir]
  BY InitDirEffect, SizesTyped
<1>4. PTyped' /\ Sharers'
  <2>1. /\ entry' \in [Dirs -> [Slots -> Entry]]
        /\ asked' \in [Dirs -> [Slots -> [Pages -> Targets]]]
        /\ users' \in [Dirs -> Nat]
        /\ dropped' \subseteq Dirs \X Slots \X Pages
    BY InitDirEffect
  <2>. QED BY <1>1, <1>2, <1>3, <2>1 DEF PTyped, TypeOK, Sharers
<1>5. CASE ruin' = "reuse"
  BY <1>1, <1>4, <1>5
     DEF PInv, KernelMapped, MapsAsAsked, PrivateTables, HeldExactly
<1>6. CASE ruin' = "none"
  <2>1. /\ d \notin live
        /\ \A e \in live, s \in Slots :
              entry[e][s].present => entry[e][s].table # d
    BY <1>1, <1>6, ReferencedIs
  <2>2. /\ KernelMapped' /\ PrivateTables' /\ MapsAsAsked'
        /\ \A x : x \in Referenced' => x \in Referenced \/ x = d
        /\ \A x : x \in Referenced => x \in Referenced'
    BY <1>2, <1>6, <2>1, InitDirKeeps
  <2>3. d \in Referenced'
    BY <1>3, ReferencedWillBe
  <2>4. Twice' = Twice /\ KernelTables' = KernelTables
    BY <1>3 DEF Twice, Tables, KernelTables
  <2>5. HeldExactly'
    BY <1>6, <2>2, <2>3, <2>4 DEF HeldExactly
  <2>. QED BY <1>4, <2>2, <2>5 DEF PInv
<1>. QED BY <1>1, <1>5, <1>6

\* The directory at address 0 is set up, for the first process or for another.
LEMMA CreateNullKeeps ==
    ASSUME PInv, ruin = "none", InitDir(NullDir),
           doubled' = (doubled \/ users[NullDir] > 0),
           UNCHANGED <<allocated, page, ruin, destroyed, unmaps>>
    PROVE  PInv'
<1>. PTyped /\ Sharers /\ KernelMapped /\ PrivateTables /\ HeldExactly
  BY DEF PInv
<1>1. /\ entry' \in [Dirs -> [Slots -> Entry]]
      /\ asked' \in [Dirs -> [Slots -> [Pages -> Targets]]]
      /\ users' \in [Dirs -> Nat]
      /\ dropped' \subseteq Dirs \X Slots \X Pages
      /\ live' = live \cup {NullDir} /\ users'[NullDir] = users[NullDir] + 1
      /\ \A e \in Dirs \ {NullDir} : entry'[e] = entry[e]
      /\ \A s \in Slots : s < KernelSlots => entry'[NullDir][s] = entry[kernel_dir][s]
  BY SizesTyped, InitDirEffect
<1>2. live \subseteq Dirs /\ kernel_dir \in live /\ NullDir \in Dirs
      /\ kernel_dir # NullDir /\ users[NullDir] \in Nat
      /\ (NullDir \notin live => users[NullDir] = 0)
  BY LiveTyped, SizesTyped DEF PTyped, TypeOK, kernel_dir
<1>3. doubled' \in BOOLEAN
  BY Zenon
<1>4. PTyped'
  BY <1>1, <1>3 DEF PTyped, TypeOK
<1>5. Sharers'
  <2>1. users'[NullDir] > 1 => users[NullDir] > 0
    BY <1>1, <1>2
  <2>2. users[NullDir] > 0 => doubled'
    BY Zenon
  <2>. QED BY <2>1, <2>2 DEF Sharers
<1>6. \A e \in live, s \in Slots : entry[e][s].present => entry[e][s].table # NullDir
  BY <1>2, SizesTyped DEF PTyped, TypeOK, Entry
<1>7. /\ KernelMapped' /\ PrivateTables' /\ MapsAsAsked'
      /\ \A x : x \in Referenced' => x \in Referenced
  BY <1>2, <1>6, InitDirKeeps DEF PTyped, TypeOK
<1>8. KernelTables' = KernelTables
  BY DEF KernelTables
<1>9. HeldExactly'
  <2>1. ASSUME ~doubled'
        PROVE  allocated' \subseteq Referenced'
    <3>1. NullDir \notin live /\ ~doubled
      BY <2>1 DEF live
    <3>2. \A e \in live : entry'[e] = entry[e] /\ e \in live'
      BY <1>1, <1>2, <3>1
    <3>3. \A x : x \in Referenced => x \in Referenced'
      BY <3>2, ReferencedIs, ReferencedWillBe
    <3>. QED BY <3>1, <3>3 DEF HeldExactly
  <2>2. ASSUME NEW x, x \in Referenced', x \notin allocated'
        PROVE  destroyed' /\ (x \in KernelTables' \/ x \in Twice')
    <3>1. x \in Referenced \ allocated
      BY <1>7, <2>2
    <3>2. destroyed /\ (x \in KernelTables \/ x \in Twice)
      BY <3>1 DEF HeldExactly
    <3>3. CASE x \in KernelTables
      BY <1>8, <3>2, <3>3
    <3>4. CASE x \in Twice
      <4>1. PICK s \in Slots : entry[NullDir][s].present /\ x = entry[NullDir][s].table
        BY <3>4 DEF Twice, Tables
      <4>2. doubled /\ NullDir \in live /\ x \notin live /\ x # NullDir
        BY <1>2, <1>6, <3>4, <4>1 DEF Twice, PrivateTables
      <4>3. CASE s < KernelSlots
        <5>1. x = s + 1
          BY <4>1, <4>2, <4>3 DEF KernelMapped
        <5>. QED BY <1>8, <3>2, <4>3, <5>1, SizesTyped DEF KernelTables
      <4>4. CASE ~(s < KernelSlots)
        <5>1. PICK e \in live', r \in Slots :
                 entry'[e][r].present /\ x = entry'[e][r].table
          <6>1. x \notin live'
            BY <1>1, <4>2
          <6>. QED BY <2>2, <6>1, ReferencedWillBe
        <5>2. CASE e = NullDir
          BY <1>1, <3>2, <4>2, <5>1, <5>2 DEF Twice, Tables
        <5>3. CASE e # NullDir
          <6>1. e \in live /\ entry'[e] = entry[e]
            BY <1>1, <1>2, <5>1, <5>3
          <6>2. entry[e][r].present /\ entry[NullDir][s].table = entry[e][r].table
            BY <4>1, <5>1, <6>1
          <6>3. e = NullDir \/ s < KernelSlots
            BY <4>1, <4>2, <6>1, <6>2 DEF PrivateTables
          <6>. QED BY <4>4, <5>3, <6>3
        <5>. QED BY <5>2, <5>3
      <4>. QED BY <4>3, <4>4
    <3>. QED BY <3>2, <3>3, <3>4
  <2>. QED BY <2>1, <2>2 DEF HeldExactly
<1>. QED BY <1>4, <1>5, <1>7, <1>9 DEF PInv

LEMMA CreateKeeps ==
    ASSUME PInv, CreateDir
    PROVE  PInv'
<1>1. ruin = "none" /\ UNCHANGED <<destroyed, unmaps>>
  BY DEF CreateDir
<1>2. CASE /\ InitDir(NullDir)
           /\ doubled' = (doubled \/ users[NullDir] > 0)
           /\ UNCHANGED <<allocated, page, ruin>>
  BY <1>1, <1>2, CreateNullKeeps
<1>3. ASSUME NEW d \in Frames, NewFrame(d),
             allocated' = allocated \cup {d}, ruin' = Handed(d),
             page' = [page EXCEPT ![d] = Blank], InitDir(d), UNCHANGED doubled
      PROVE  PInv'
  BY <1>1, <1>3, CreateNewKeeps
<1>. QED BY <1>2, <1>3 DEF CreateDir

-----------------------------------------------------------------------------
(* Mapping *)

\* The mappings the kernel makes: its own, and user pages of its processes.
Asks(d, s, pg, p, priv) ==
    /\ d \in live /\ s \in Slots /\ pg \in Pages
    /\ priv \in {supervisor, user}
    /\ p \in Phys \cup {Same}
    /\ s < KernelSlots => (priv = user <=> d # kernel_dir)

\* What EnterPage does to a table t that, when it is done, only d (or, in the
\* kernel's slots, only slot s) has.
LEMMA EnterPageEffect ==
    ASSUME PTyped, NEW d, NEW s, NEW pg, NEW p, NEW priv,
           Asks(d, s, pg, p, priv), NEW t \in Frames,
           NEW tables \in [Frames -> Table],
           EnterPage(d, s, pg, p, priv, t, tables)
    PROVE  /\ entry' \in [Dirs -> [Slots -> Entry]]
           /\ page' \in [Frames -> Table]
           /\ asked' \in [Dirs -> [Slots -> [Pages -> Targets]]]
           /\ \A e \in Dirs, r \in Slots : e # d \/ r # s =>
                 entry'[e][r] = entry[e][r]
           /\ entry'[d][s].present /\ entry'[d][s].table = t
           /\ priv = user => entry'[d][s].privilege = user
           /\ entry[d][s].privilege = user => entry'[d][s].privilege = user
           /\ \A f \in Frames \ {t} : page'[f] = tables[f]
           /\ \A q \in Pages \ {pg} : page'[t][q] = tables[t][q]
           /\ page'[t][pg].privilege = priv /\ page'[t][pg].phys = p
           /\ \A e \in Dirs, r \in Slots, q \in Pages :
                 asked'[e][r][q] = IF /\ e = d \/ (s < KernelSlots /\ e \in live)
                                      /\ r = s /\ q = pg
                                   THEN p ELSE asked[e][r][q]
           /\ dropped' = dropped \ {<<d, s, pg>>}
<1>1. /\ d \in Dirs /\ s \in Slots /\ pg \in Pages /\ p \in Targets
      /\ priv \in {supervisor, user}
  BY LiveTyped DEF Asks, Targets
<1>2. /\ entry \in [Dirs -> [Slots -> Entry]]
      /\ asked \in [Dirs -> [Slots -> [Pages -> Targets]]]
  BY DEF PTyped, TypeOK
<1>. DEFINE w == Widened(entry[d][s], priv)
            opened == [present |-> TRUE, privilege |-> w, table |-> t]
            mapping == [privilege |-> priv, phys |-> p]
<1>3. /\ w \in {supervisor, user}
      /\ priv = user => w = user
      /\ entry[d][s].privilege = user => w = user
  <2>1. entry[d][s].privilege \in {supervisor, user}
    BY <1>1, <1>2 DEF Entry
  <2>. QED BY <1>1, <2>1 DEF Widened, read_write, supervisor, user
<1>4. opened \in Entry
  BY <1>3 DEF Entry
<1>5. entry' = [entry EXCEPT ![d] = [@ EXCEPT ![s] = opened]]
  BY DEF EnterPage
<1>6. /\ entry' \in [Dirs -> [Slots -> Entry]]
      /\ entry'[d][s] = opened
      /\ \A e \in Dirs, r \in Slots : e # d \/ r # s =>
            entry'[e][r] = entry[e][r]
  <2>. HIDE DEF opened
  <2>. QED BY <1>1, <1>2, <1>4, <1>5
<1>7. page' = [tables EXCEPT ![t] = [@ EXCEPT ![pg] = mapping]]
  BY DEF EnterPage
<1>8. mapping \in [privilege : {supervisor, user}, phys : Phys \cup {Same, Unmapped}]
  BY <1>1 DEF Targets
<1>9. /\ page' \in [Frames -> Table]
      /\ page'[t][pg] = mapping
      /\ \A f \in Frames \ {t} : page'[f] = tables[f]
      /\ \A q \in Pages \ {pg} : page'[t][q] = tables[t][q]
  <2>. HIDE DEF mapping
  <2>. QED BY <1>1, <1>7, <1>8 DEF Table
<1>10. asked' = [f \in Dirs |->
                   IF f = d \/ (s < KernelSlots /\ f \in live)
                   THEN [asked[f] EXCEPT ![s] = [@ EXCEPT ![pg] = p]] ELSE asked[f]]
  BY DEF EnterPage
<1>11. /\ asked' \in [Dirs -> [Slots -> [Pages -> Targets]]]
       /\ \A e \in Dirs, r \in Slots, q \in Pages :
             asked'[e][r][q] = IF /\ e = d \/ (s < KernelSlots /\ e \in live)
                                  /\ r = s /\ q = pg
                               THEN p ELSE asked[e][r][q]
  BY <1>1, <1>2, <1>10
<1>12. dropped' = dropped \ {<<d, s, pg>>}
  BY DEF EnterPage
<1>. QED BY <1>3, <1>6, <1>9, <1>11, <1>12

\* Mapping into a table that is there.
LEMMA MapOldKeeps ==
    ASSUME PInv, ruin = "none", ruin' = "none", NEW d, NEW s, NEW pg, NEW p,
           NEW priv, Asks(d, s, pg, p, priv), entry[d][s].present,
           s < KernelSlots => d = kernel_dir,
           EnterPage(d, s, pg, p, priv, entry[d][s].table, page),
           UNCHANGED <<users, allocated, doubled, destroyed>>
    PROVE  KernelMapped' /\ MapsAsAsked' /\ PrivateTables' /\ HeldExactly'
<1>. PTyped /\ KernelMapped /\ MapsAsAsked /\ PrivateTables /\ HeldExactly
  BY DEF PInv
<1>. DEFINE t == entry[d][s].table
<1>1. /\ d \in live /\ s \in Slots /\ pg \in Pages /\ live \subseteq Dirs
      /\ page \in [Frames -> Table] /\ live' = live /\ users' = users
  BY LiveTyped DEF Asks, PTyped, TypeOK, live
<1>2. t \in Frames
  BY <1>1 DEF PTyped, TypeOK, Entry
<1>3. /\ \A e \in Dirs, r \in Slots : e # d \/ r # s =>
            entry'[e][r] = entry[e][r]
      /\ entry'[d][s].present /\ entry'[d][s].table = t
      /\ priv = user => entry'[d][s].privilege = user
      /\ entry[d][s].privilege = user => entry'[d][s].privilege = user
      /\ \A f \in Frames \ {t} : page'[f] = page[f]
      /\ \A q \in Pages \ {pg} : page'[t][q] = page[t][q]
      /\ page'[t][pg].privilege = priv /\ page'[t][pg].phys = p
      /\ \A e \in Dirs, r \in Slots, q \in Pages :
            asked'[e][r][q] = IF /\ e = d \/ (s < KernelSlots /\ e \in live)
                                 /\ r = s /\ q = pg
                              THEN p ELSE asked[e][r][q]
      /\ dropped' = dropped \ {<<d, s, pg>>}
  BY <1>1, <1>2, EnterPageEffect
<1>4. \A e \in live, r \in Slots :
         /\ entry'[e][r].present <=> entry[e][r].present
         /\ entry[e][r].present => entry'[e][r].table = entry[e][r].table
         /\ entry[e][r].privilege = user => entry'[e][r].privilege = user
  BY <1>1, <1>3
<1>5. KernelMapped'
  BY <1>1, <1>3, <1>4 DEF KernelMapped
<1>6. PrivateTables'
  BY <1>1, <1>4 DEF PrivateTables
<1>7. HeldExactly'
  <2>1. \A x : x \in Referenced' <=> x \in Referenced
    BY <1>1, <1>4, ReferencedIs, ReferencedWillBe
  <2>2. Twice' = Twice
    BY <1>1, <1>4 DEF Twice, Tables
  <2>. QED BY <2>1, <2>2 DEF HeldExactly, KernelTables
<1>8. MapsAsAsked'
  <2> SUFFICES ASSUME NEW e \in live, NEW r \in Slots, NEW q \in Pages
               PROVE  /\ Translate(e, r, q)' = IF <<e, r, q>> \in dropped'
                            THEN Unmapped ELSE asked'[e][r][q]
                      /\ /\ entry'[e][r].present
                         /\ page'[entry'[e][r].table][q].privilege = user
                         => entry'[e][r].privilege = user
    BY <1>1 DEF MapsAsAsked
  <2>1. /\ Translate(e, r, q) = IF <<e, r, q>> \in dropped
                              THEN Unmapped ELSE asked[e][r][q]
        /\ entry[e][r].present /\ page[entry[e][r].table][q].privilege = user
           => entry[e][r].privilege = user
    BY DEF MapsAsAsked
  <2>2. CASE ~entry[e][r].present
    <3>1. ~(r = s /\ (e = d \/ s < KernelSlots))
      BY <2>2 DEF KernelMapped
    <3>2. /\ asked'[e][r][q] = asked[e][r][q]
          /\ <<e, r, q>> \in dropped' <=> <<e, r, q>> \in dropped
      BY <1>1, <1>3, <3>1
    <3>. QED BY <1>4, <2>1, <2>2, <3>2 DEF Translate
  <2>3. CASE entry[e][r].present /\ entry[e][r].table # t
    <3>1. ~(r = s /\ (e = d \/ s < KernelSlots))
      BY <1>1, <2>3 DEF KernelMapped
    <3>2. entry[e][r].table \in Frames
      BY <1>1 DEF PTyped, TypeOK, Entry
    <3>3. page'[entry[e][r].table] = page[entry[e][r].table]
      BY <1>3, <2>3, <3>2
    <3>4. /\ asked'[e][r][q] = asked[e][r][q]
          /\ <<e, r, q>> \in dropped' <=> <<e, r, q>> \in dropped
      BY <1>1, <1>3, <3>1
    <3>. QED BY <1>4, <2>1, <2>3, <3>3, <3>4 DEF Translate
  <2>4. CASE entry[e][r].present /\ entry[e][r].table = t
    <3>1. r = s /\ (e = d \/ s < KernelSlots)
      BY <1>1, <2>4 DEF PrivateTables
    <3>2. CASE q = pg
      <4>1. asked'[e][r][q] = p /\ Translate(e, r, q)' = p
        BY <1>1, <1>3, <1>4, <2>4, <3>1, <3>2 DEF Translate
      <4>2. priv = user => entry'[e][r].privilege = user
        BY <1>1, <1>3, <3>1, SizesTyped DEF Asks
      <4>3. <<e, r, q>> \notin dropped'
        BY <1>1, <1>3, <3>1, <3>2 DEF KernelMapped
      <4>. QED BY <1>3, <1>4, <2>4, <3>2, <4>1, <4>2, <4>3
    <3>3. CASE q # pg
      <4>1. /\ asked'[e][r][q] = asked[e][r][q]
            /\ <<e, r, q>> \in dropped' <=> <<e, r, q>> \in dropped
            /\ page'[t][q] = page[t][q]
        BY <1>1, <1>3, <3>3
      <4>. QED BY <1>4, <2>1, <2>4, <4>1 DEF Translate
    <3>. QED BY <3>2, <3>3
  <2>. QED BY <2>2, <2>3, <2>4
<1>. QED BY <1>5, <1>6, <1>7, <1>8

\* Mapping into a table that has to be had first.  Only above the kernel's slots
\* can an entry have none.
LEMMA MapNewKeeps ==
    ASSUME PInv, ruin = "none", NEW d, NEW s, NEW pg, NEW p, NEW priv,
           Asks(d, s, pg, p, priv), entry[d][s].table = Null,
           NEW t \in Frames, t \notin Referenced, ruin' = "none",
           EnterPage(d, s, pg, p, priv, t, [page EXCEPT ![t] = Blank]),
           allocated' = allocated \cup {t}, UNCHANGED <<users, doubled, destroyed>>
    PROVE  KernelMapped' /\ MapsAsAsked' /\ PrivateTables' /\ HeldExactly'
<1>. PTyped /\ KernelMapped /\ MapsAsAsked /\ PrivateTables /\ HeldExactly
  BY DEF PInv
<1>. DEFINE tables == [page EXCEPT ![t] = Blank]
<1>1. /\ d \in live /\ s \in Slots /\ pg \in Pages /\ live \subseteq Dirs
      /\ kernel_dir \in live /\ live' = live /\ users' = users
      /\ page \in [Frames -> Table]
  BY LiveTyped DEF Asks, PTyped, TypeOK, live
<1>2. /\ tables \in [Frames -> Table]
      /\ EnterPage(d, s, pg, p, priv, t, tables)
      /\ tables[t] = Blank
      /\ \A f \in Frames \ {t} : tables[f] = page[f]
  BY <1>1, BlankTyped
<1>. HIDE DEF tables
<1>3. /\ \A e \in Dirs, r \in Slots : e # d \/ r # s =>
            entry'[e][r] = entry[e][r]
      /\ entry'[d][s].present /\ entry'[d][s].table = t
      /\ priv = user => entry'[d][s].privilege = user
      /\ \A f \in Frames \ {t} : page'[f] = tables[f]
      /\ \A q \in Pages \ {pg} : page'[t][q] = tables[t][q]
      /\ page'[t][pg].privilege = priv /\ page'[t][pg].phys = p
      /\ \A e \in Dirs, r \in Slots, q \in Pages :
            asked'[e][r][q] = IF /\ e = d \/ (s < KernelSlots /\ e \in live)
                                 /\ r = s /\ q = pg
                              THEN p ELSE asked[e][r][q]
      /\ dropped' = dropped \ {<<d, s, pg>>}
  BY <1>1, <1>2, EnterPageEffect
<1>4. ~entry[d][s].present
  <2>1. entry[d][s].present => entry[d][s].table \notin live
    BY <1>1 DEF PrivateTables
  <2>. QED BY <1>1, <2>1 DEF Null, kernel_dir
<1>5. ~(s < KernelSlots)
  BY <1>1, <1>4 DEF KernelMapped
<1>6. /\ t \notin live /\ t # NullDir
      /\ \A e \in live, r \in Slots :
            entry[e][r].present => entry[e][r].table # t
  BY ReferencedIs, SizesTyped
<1>7. \A e \in live, r \in Slots : e # d \/ r # s => entry'[e][r] = entry[e][r]
  BY <1>1, <1>3
<1>8. KernelMapped'
  BY <1>1, <1>3, <1>5, <1>7 DEF KernelMapped
<1>9. PrivateTables'
  <2>. \A e \in live : users[e] > 1 => e = NullDir
    BY DEF PrivateTables
  <2> SUFFICES ASSUME NEW e \in live, NEW f \in live, NEW r \in Slots,
                      NEW u \in Slots, entry'[e][r].present
               PROVE  /\ entry'[e][r].table \notin live
                      /\ /\ entry'[f][u].present
                         /\ entry'[e][r].table = entry'[f][u].table
                         => r = u /\ (e = f \/ r < KernelSlots)
    BY <1>1 DEF PrivateTables
  <2>1. CASE e = d /\ r = s
    BY <1>3, <1>6, <1>7, <2>1
  <2>2. CASE e # d \/ r # s
    <3>1. /\ entry'[e][r] = entry[e][r] /\ entry[e][r].table # t
          /\ entry[e][r].table \notin live
      BY <1>6, <1>7, <2>2 DEF PrivateTables
    <3>2. CASE f = d /\ u = s
      BY <1>3, <3>1, <3>2
    <3>3. CASE f # d \/ u # s
      BY <1>7, <3>1, <3>3 DEF PrivateTables
    <3>. QED BY <3>2, <3>3
  <2>. QED BY <2>1, <2>2
<1>10. HeldExactly'
  <2>1. \A x : x \in Referenced' => x \in Referenced \/ x = t
    BY <1>1, <1>3, <1>7, ReferencedIs, ReferencedWillBe
  <2>2. \A x : x \in Referenced => x \in Referenced'
    BY <1>1, <1>4, <1>7, ReferencedIs, ReferencedWillBe
  <2>3. t \in Referenced'
    BY <1>1, <1>3, ReferencedWillBe
  <2>4. Twice \subseteq Twice'
    <3>1. NullDir \in live => \A r \in Slots :
             entry[NullDir][r].present => entry'[NullDir][r] = entry[NullDir][r]
      BY <1>4, <1>7
    <3>. QED BY <1>1, <3>1 DEF Twice, Tables
  <2>. QED BY <2>1, <2>2, <2>3, <2>4 DEF HeldExactly, KernelTables
<1>11. MapsAsAsked'
  <2> SUFFICES ASSUME NEW e \in live, NEW r \in Slots, NEW q \in Pages
               PROVE  /\ Translate(e, r, q)' = IF <<e, r, q>> \in dropped'
                            THEN Unmapped ELSE asked'[e][r][q]
                      /\ /\ entry'[e][r].present
                         /\ page'[entry'[e][r].table][q].privilege = user
                         => entry'[e][r].privilege = user
    BY <1>1 DEF MapsAsAsked
  <2>1. /\ Translate(e, r, q) = IF <<e, r, q>> \in dropped
                              THEN Unmapped ELSE asked[e][r][q]
        /\ entry[e][r].present /\ page[entry[e][r].table][q].privilege = user
           => entry[e][r].privilege = user
    BY DEF MapsAsAsked
  <2>2. CASE e = d /\ r = s
    <3>1. CASE q = pg
      <4>1. <<e, r, q>> \notin dropped'
        BY <1>3, <2>2, <3>1
      <4>2. asked'[e][r][q] = p
        BY <1>1, <1>3, <2>2, <3>1
      <4>. QED BY <1>3, <2>2, <3>1, <4>1, <4>2 DEF Translate
    <3>2. CASE q # pg
      <4>1. page'[t][q] = NoPage
        BY <1>1, <1>2, <1>3, <3>2 DEF Blank
      <4>2. <<e, r, q>> \in dropped' \/ asked'[e][r][q] = Unmapped
        BY <1>1, <1>3, <1>4, <2>1, <2>2, <3>2 DEF Translate
      <4>. QED BY <1>3, <2>2, <4>1, <4>2 DEF Translate, NoPage, supervisor, user
    <3>. QED BY <3>1, <3>2
  <2>3. CASE e # d \/ r # s
    <3>1. /\ entry'[e][r] = entry[e][r] /\ asked'[e][r][q] = asked[e][r][q]
          /\ <<e, r, q>> \in dropped' <=> <<e, r, q>> \in dropped
      BY <1>1, <1>3, <1>5, <1>7, <2>3
    <3>2. entry[e][r].table \in Frames
      BY <1>1 DEF PTyped, TypeOK, Entry
    <3>3. entry[e][r].present => page'[entry[e][r].table] = page[entry[e][r].table]
      BY <1>2, <1>3, <1>6, <3>2
    <3>. QED BY <2>1, <3>1, <3>3 DEF Translate
  <2>. QED BY <2>2, <2>3
<1>. QED BY <1>8, <1>9, <1>10, <1>11

\* A mapping that gets no table: there is none, and none is needed in the
\* kernel's slots.
LEMMA MapDropKeeps ==
    ASSUME PInv, ruin = "none", NEW d, NEW s, NEW pg, NEW p, NEW priv,
           Asks(d, s, pg, p, priv), entry[d][s].table = Null,
           asked' = [asked EXCEPT ![d][s][pg] = p],
           dropped' = dropped \cup {<<d, s, pg>>},
           UNCHANGED <<allocated, entry, page, users, doubled, destroyed, ruin>>
    PROVE  KernelMapped' /\ MapsAsAsked' /\ PrivateTables' /\ HeldExactly'
<1>. PTyped /\ KernelMapped /\ MapsAsAsked /\ PrivateTables /\ HeldExactly
  BY DEF PInv
<1>1. /\ d \in live /\ s \in Slots /\ pg \in Pages /\ live \subseteq Dirs
      /\ kernel_dir \in live /\ live' = live
  BY LiveTyped DEF Asks, live
<1>2. ~entry[d][s].present
  BY <1>1 DEF PrivateTables, Null, kernel_dir
<1>3. ~(s < KernelSlots)
  BY <1>1, <1>2 DEF KernelMapped
<1>4. \A e \in Dirs, r \in Slots, q \in Pages :
         e # d \/ r # s \/ q # pg => asked'[e][r][q] = asked[e][r][q]
  BY <1>1 DEF PTyped
<1>5. KernelMapped'
  BY <1>1, <1>3 DEF KernelMapped
<1>6. MapsAsAsked'
  <2> SUFFICES ASSUME NEW e \in live, NEW r \in Slots, NEW q \in Pages
               PROVE  /\ Translate(e, r, q)' = IF <<e, r, q>> \in dropped'
                            THEN Unmapped ELSE asked'[e][r][q]
                      /\ /\ entry'[e][r].present
                         /\ page'[entry'[e][r].table][q].privilege = user
                         => entry'[e][r].privilege = user
    BY <1>1 DEF MapsAsAsked
  <2>1. Translate(e, r, q)' = Translate(e, r, q)
    BY DEF Translate
  <2>2. /\ Translate(e, r, q) = IF <<e, r, q>> \in dropped
                                THEN Unmapped ELSE asked[e][r][q]
        /\ entry[e][r].present /\ page[entry[e][r].table][q].privilege = user
           => entry[e][r].privilege = user
    BY DEF MapsAsAsked
  <2>3. CASE e = d /\ r = s /\ q = pg
    BY <1>2, <2>1, <2>2, <2>3 DEF Translate
  <2>4. CASE ~(e = d /\ r = s /\ q = pg)
    <3>1. /\ asked'[e][r][q] = asked[e][r][q]
          /\ <<e, r, q>> \in dropped' <=> <<e, r, q>> \in dropped
      BY <1>1, <1>4, <2>4
    <3>. QED BY <2>1, <2>2, <3>1
  <2>. QED BY <2>3, <2>4
<1>7. PrivateTables' /\ HeldExactly'
  BY <1>1 DEF PrivateTables, HeldExactly, Referenced, Tables, Twice, KernelTables
<1>. QED BY <1>5, <1>6, <1>7

LEMMA MapKeeps ==
    ASSUME PInv, NEW d, NEW s, NEW pg, NEW p, NEW priv,
           Asks(d, s, pg, p, priv), MapPage(d, s, pg, p, priv)
    PROVE  PInv'
<1>. PTyped /\ Sharers /\ HeldExactly
  BY DEF PInv
<1>. ruin = "none" /\ UNCHANGED <<users, doubled, destroyed, unmaps>>
  BY DEF MapPage
<1>s. Sharers'
  BY DEF Sharers
<1>. DEFINE old == entry[d][s].table
<1>0. /\ d \in live /\ d \in Dirs /\ s \in Slots /\ pg \in Pages /\ kernel_dir \in live
      /\ page \in [Frames -> Table]
      /\ old \in Frames /\ live' = live
      /\ dropped \subseteq Dirs \X Slots \X Pages
  BY LiveTyped DEF Asks, PTyped, TypeOK, Entry, live
<1>1. CASE /\ old # Null
           /\ EnterPage(d, s, pg, p, priv, old, page)
           /\ UsesTable(d, s)
           /\ UNCHANGED allocated
  <2>1. ruin' = IF ~entry[d][s].present THEN "stale"
                ELSE IF s < KernelSlots /\ d # kernel_dir THEN "remap" ELSE "none"
    BY <1>1 DEF UsesTable
  <2>2. PTyped'
    <3>1. /\ entry' \in [Dirs -> [Slots -> Entry]]
          /\ page' \in [Frames -> Table]
          /\ asked' \in [Dirs -> [Slots -> [Pages -> Targets]]]
          /\ dropped' = dropped \ {<<d, s, pg>>}
      BY <1>0, <1>1, EnterPageEffect
    <3>. QED BY <1>0, <1>1, <2>1, <3>1 DEF PTyped, TypeOK
  <2>3. CASE ruin' = "none"
    <3>1. entry[d][s].present /\ (s < KernelSlots => d = kernel_dir)
      BY <2>1, <2>3
    <3>. QED BY <1>s, <1>1, <2>2, <2>3, <3>1, MapOldKeeps DEF PInv
  <2>4. CASE ruin' \in {"stale", "remap"}
    BY <1>s, <2>2, <2>4
       DEF PInv, KernelMapped, MapsAsAsked, PrivateTables, HeldExactly
  <2>. QED BY <2>1, <2>3, <2>4
<1>2. ASSUME NEW t \in Frames, old = Null, NewFrame(t),
             EnterPage(d, s, pg, p, priv, t, [page EXCEPT ![t] = Blank]),
             allocated' = allocated \cup {t}, ruin' = Handed(t)
      PROVE  PInv'
  <2>1. /\ Handed(t) = "none" => t \notin Referenced
        /\ Handed(t) = "reuse" => destroyed
        /\ Handed(t) \in {"none", "reuse"}
    BY <1>2, HandedReuse
  <2>2. PTyped'
    <3>1. [page EXCEPT ![t] = Blank] \in [Frames -> Table]
      BY <1>0, BlankTyped
    <3>2. /\ entry' \in [Dirs -> [Slots -> Entry]]
          /\ page' \in [Frames -> Table]
          /\ asked' \in [Dirs -> [Slots -> [Pages -> Targets]]]
          /\ dropped' = dropped \ {<<d, s, pg>>}
      BY <1>2, <3>1, EnterPageEffect
    <3>. QED BY <1>0, <1>2, <2>1, <3>2 DEF PTyped, TypeOK
  <2>3. CASE Handed(t) = "none"
    BY <1>s, <1>2, <2>1, <2>2, <2>3, MapNewKeeps DEF PInv
  <2>4. CASE Handed(t) = "reuse"
    BY <1>s, <1>2, <2>1, <2>2, <2>4
       DEF PInv, KernelMapped, MapsAsAsked, PrivateTables, HeldExactly
  <2>. QED BY <2>1, <2>3, <2>4
<1>3. CASE /\ old = Null
           /\ asked' = [asked EXCEPT ![d][s][pg] = p]
           /\ dropped' = dropped \cup {<<d, s, pg>>}
           /\ UNCHANGED <<allocated, ruin, page, entry>>
  <2>1. PTyped'
    <3>1. asked' \in [Dirs -> [Slots -> [Pages -> Targets]]]
      <4>1. p \in Targets
        BY DEF Asks, Targets
      <4>2. asked' = [asked EXCEPT ![d] = [asked[d] EXCEPT
                         ![s] = [asked[d][s] EXCEPT ![pg] = p]]]
        BY <1>3
      <4>. QED BY <1>0, <4>1, <4>2 DEF PTyped
    <3>. QED BY <1>0, <1>3, <3>1 DEF PTyped, TypeOK
  <2>2. KernelMapped' /\ MapsAsAsked' /\ PrivateTables' /\ HeldExactly'
    BY <1>3, MapDropKeeps
  <2>. QED BY <1>s, <2>1, <2>2 DEF PInv
<1>. QED BY <1>1, <1>2, <1>3 DEF MapPage

-----------------------------------------------------------------------------
(* Destroying a directory and unmapping *)

\* Whoever leaves a directory, what the live ones map stays as it was asked for.
LEMMA MapsStay ==
    ASSUME PInv, NEW d \in live \ {kernel_dir}, ruin = "none", Leaves(d),
           UNCHANGED <<entry, page>>
    PROVE  MapsAsAsked'
<1>1. /\ PTyped /\ MapsAsAsked /\ live \subseteq Dirs
      /\ users \in [Dirs -> Nat]
  BY LiveTyped DEF PInv, PTyped, TypeOK
<1>2. ASSUME NEW e \in live'
      PROVE  /\ e \in live /\ asked'[e] = asked[e]
             /\ \A s \in Slots, pg \in Pages :
                   <<e, s, pg>> \in dropped' <=> <<e, s, pg>> \in dropped
  <2>1. e \in Dirs /\ users'[e] > 0 /\ users' = [users EXCEPT ![d] = @ - 1]
    BY DEF Leaves, live
  <2>2. e \in live /\ (e = d => users[d] # 1)
    BY <1>1, <2>1 DEF live
  <2>3. CASE users[d] = 1
    BY <1>1, <2>1, <2>2, <2>3 DEF Leaves, DroppedOutside, PTyped
  <2>4. CASE users[d] # 1
    BY <2>2, <2>4 DEF Leaves
  <2>. QED BY <2>3, <2>4
<1> SUFFICES ASSUME ruin' = "none", NEW e \in live', NEW s \in Slots,
                    NEW pg \in Pages
             PROVE  /\ Translate(e, s, pg)' = IF <<e, s, pg>> \in dropped'
                          THEN Unmapped ELSE asked'[e][s][pg]
                    /\ /\ entry'[e][s].present
                       /\ page'[entry'[e][s].table][pg].privilege = user
                       => entry'[e][s].privilege = user
  BY DEF MapsAsAsked
<1>3. Translate(e, s, pg)' = Translate(e, s, pg)
  BY DEF Translate
<1>4. e \in live /\ asked'[e] = asked[e]
      /\ (<<e, s, pg>> \in dropped' <=> <<e, s, pg>> \in dropped)
  BY <1>2
<1>. QED BY <1>1, <1>3, <1>4 DEF MapsAsAsked

\* Of the tables that are freed, those another directory uses are the kernel's.
LEMMA DestroyKeeps ==
    ASSUME PInv, NEW d \in live \ {kernel_dir}, DestroyDir(d)
    PROVE  PInv'
<1>. PTyped /\ Sharers /\ KernelMapped /\ MapsAsAsked /\ PrivateTables /\ HeldExactly
  BY DEF PInv
<1>1. /\ ruin = "none" /\ ruin' = "none" /\ destroyed' = TRUE
      /\ allocated' = allocated \ (Tables(d) \cup {d})
      /\ users' = [users EXCEPT ![d] = @ - 1]
      /\ UNCHANGED <<entry, page, doubled, unmaps>>
      /\ IF users[d] = 1
         THEN /\ asked' = [asked EXCEPT ![d] =
                             [s \in Slots |-> [pg \in Pages |-> Unmapped]]]
              /\ dropped' = DroppedOutside(d)
         ELSE UNCHANGED <<asked, dropped>>
  BY DEF DestroyDir, Leaves
<1>2. /\ live \subseteq Dirs /\ kernel_dir \in live /\ d \in Dirs
      /\ users \in [Dirs -> Nat] /\ users[d] > 0
  BY LiveTyped DEF PTyped, TypeOK, live
<1>3. /\ users' \in [Dirs -> Nat]
      /\ users'[d] = users[d] - 1
      /\ \A e \in Dirs \ {d} : users'[e] = users[e]
  BY <1>1, <1>2
<1>4. /\ dropped' \subseteq dropped
      /\ \A e \in Dirs \ {d}, s \in Slots, pg \in Pages :
            /\ asked'[e] = asked[e]
            /\ <<e, s, pg>> \in dropped' <=> <<e, s, pg>> \in dropped
  BY <1>1 DEF DroppedOutside, PTyped
<1>5. PTyped'
  <2>1. asked' \in [Dirs -> [Slots -> [Pages -> Targets]]]
    <3>1. [s \in Slots |-> [pg \in Pages |-> Unmapped]] \in [Slots -> [Pages -> Targets]]
      BY DEF Targets
    <3>2. CASE users[d] = 1
      BY <1>1, <3>1, <3>2 DEF PTyped
    <3>3. CASE users[d] # 1
      BY <1>1, <3>3 DEF PTyped
    <3>. QED BY <3>2, <3>3
  <2>2. {doubled', destroyed'} \subseteq BOOLEAN
    <3>1. doubled \in BOOLEAN
      BY DEF PTyped, TypeOK
    <3>. QED BY <1>1, <3>1, Zenon
  <2>3. /\ allocated' \subseteq Frames /\ entry' \in [Dirs -> [Slots -> Entry]]
        /\ page' \in [Frames -> Table]
        /\ kernel_dir \in live'
        /\ dropped' \subseteq Dirs \X Slots \X Pages
        /\ unmaps' \in 0 .. MaxUnmaps
        /\ ruin' \in {"none", "reuse", "stale", "remap"}
    BY <1>1, <1>2, <1>3, <1>4 DEF PTyped, TypeOK, live
  <2>. QED BY <1>3, <2>1, <2>2, <2>3 DEF PTyped, TypeOK
<1>6. Sharers'
  BY <1>1, <1>2, <1>3, SizesTyped DEF Sharers
<1>7. live' \subseteq live
  BY <1>2, <1>3 DEF live
<1>8. KernelMapped'
  BY <1>1, <1>4, <1>7 DEF KernelMapped
<1>9. PrivateTables'
  <2>1. \A e \in live' : users'[e] > 1 => users[e] > 1
    BY <1>2, <1>3, <1>7
  <2>. QED BY <1>1, <1>7, <2>1 DEF PrivateTables
<1>10. ASSUME NEW x, x \in Tables(d), x \in Referenced', d \notin live'
       PROVE  x \in KernelTables
  <2>1. PICK s \in Slots : entry[d][s].present /\ x = entry[d][s].table
    BY <1>10 DEF Tables
  <2>2. x \notin live
    BY <2>1, <1>1 DEF PrivateTables
  <2>3. PICK e \in live', r \in Slots :
           entry'[e][r].present /\ x = entry'[e][r].table
    BY <1>7, <1>10, <2>2, ReferencedWillBe
  <2>4. s < KernelSlots
    <3>1. e \in live /\ e # d /\ entry[e][r].present
      BY <1>1, <1>7, <1>10, <2>3
    <3>2. entry[d][s].table = entry[e][r].table
      BY <1>1, <2>1, <2>3
    <3>. QED BY <1>1, <2>1, <3>1, <3>2 DEF PrivateTables
  <2>5. x = s + 1
    BY <1>1, <2>1, <2>4 DEF KernelMapped
  <2>. QED BY <2>4, <2>5, SizesTyped DEF KernelTables
<1>11. \A x : x \in Referenced' => x \in Referenced
  BY <1>1, <1>7, ReferencedIs, ReferencedWillBe
<1>12. /\ \A x : x \in Referenced' /\ x = d => d \in live'
       /\ NullDir \notin Referenced'
  <2>1. \A e \in live, s \in Slots : entry[e][s].present =>
           entry[e][s].table \notin live /\ entry[e][s].table \in Frames
    BY <1>1, <1>2 DEF PrivateTables, PTyped, TypeOK, Entry
  <2>. QED BY <1>1, <1>7, <2>1, SizesTyped, ReferencedWillBe
<1>13. ASSUME NEW x, x \in Referenced', x \notin allocated'
       PROVE  x \in KernelTables \/ x \in Twice'
  <2>1. CASE d \in live'
    <3>1. d = NullDir /\ doubled
      BY <1>1, <1>2, <1>3, <2>1 DEF live, PrivateTables, Sharers
    <3>2. Twice' = Tables(d) /\ (Twice \subseteq Tables(d))
      BY <1>1, <2>1, <3>1 DEF Twice, Tables
    <3>3. CASE x \in Tables(d)
      BY <3>2, <3>3
    <3>4. CASE x \notin Tables(d)
      <4>1. x \in Referenced \ allocated
        BY <1>1, <1>11, <1>12, <1>13, <3>1, <3>4
      <4>. QED BY <1>1, <3>2, <3>4, <4>1 DEF HeldExactly
    <3>. QED BY <3>3, <3>4
  <2>2. CASE d \notin live'
    <3>1. CASE x \in Tables(d)
      BY <1>10, <1>13, <2>2, <3>1
    <3>2. CASE x \notin Tables(d)
      <4>1. x \in Referenced \ allocated
        BY <1>1, <1>11, <1>12, <1>13, <2>2, <3>2
      <4>2. x \in KernelTables \/ x \in Twice
        BY <1>1, <4>1 DEF HeldExactly
      <4>3. x \in Twice => x \in Twice'
        <5>1. d # NullDir /\ NullDir \in live => NullDir \in live'
          BY <1>2, <1>3, SizesTyped DEF live
        <5>. QED BY <1>1, <3>2, <5>1 DEF Twice, Tables
      <4>. QED BY <4>2, <4>3
    <3>. QED BY <3>1, <3>2
  <2>. QED BY <2>1, <2>2
<1>14. ASSUME ~doubled', NEW x, x \in allocated'
       PROVE  x \in Referenced'
  <2>1. x \in allocated /\ x # d /\ x \notin Tables(d) /\ ~doubled
    BY <1>1, <1>14
  <2>2. x \in Referenced
    BY <2>1, <1>1 DEF HeldExactly
  <2>3. \A s \in Slots : entry[d][s].present => x # entry[d][s].table
    BY <2>1 DEF Tables
  <2>4. \A e \in live : e # d => e \in live'
    BY <1>2, <1>3 DEF live
  <2>. QED BY <1>1, <2>1, <2>2, <2>3, <2>4, ReferencedIs, ReferencedWillBe
<1>15. HeldExactly'
  BY <1>1, <1>13, <1>14 DEF HeldExactly, KernelTables
<1>16. MapsAsAsked'
  BY <1>1, MapsStay DEF DestroyDir
<1>. QED BY <1>5, <1>6, <1>8, <1>9, <1>15, <1>16 DEF PInv

LEMMA UnmapPageKeeps ==
    ASSUME PInv, NEW d \in live, NEW s \in Slots, s >= KernelSlots, NEW pg \in Pages,
           UnmapPage(d, s, pg)
    PROVE  PInv'
<1>. PTyped /\ Sharers /\ KernelMapped /\ MapsAsAsked /\ PrivateTables /\ HeldExactly
  BY DEF PInv
<1>. DEFINE t == entry[d][s].table
<1>1. /\ ruin = "none" /\ unmaps < MaxUnmaps /\ unmaps' = unmaps + 1
      /\ ruin' = IF entry[d][s].present THEN "none" ELSE "stale"
      /\ s \in Nat /\ ~(s < KernelSlots)
      /\ page' = [page EXCEPT ![t][pg].phys = Unmapped]
      /\ asked' = [asked EXCEPT ![d][s][pg] = Unmapped]
      /\ dropped' = dropped \ {<<d, s, pg>>}
      /\ UNCHANGED <<allocated, entry, users, doubled, destroyed>>
  BY SizesTyped DEF UnmapPage, Unmaps, UsesTable
<1>2. /\ live \subseteq Dirs /\ d \in Dirs /\ t \in Frames /\ live' = live
      /\ page \in [Frames -> Table]
      /\ asked \in [Dirs -> [Slots -> [Pages -> Targets]]]
  BY <1>1, LiveTyped DEF PTyped, TypeOK, Entry, live
<1>. DEFINE gone == [page[t][pg] EXCEPT !.phys = Unmapped]
<1>3. /\ gone \in [privilege : {supervisor, user}, phys : Phys \cup {Same, Unmapped}]
      /\ gone.phys = Unmapped /\ gone.privilege = page[t][pg].privilege
  <2>1. page[t][pg] \in [privilege : {supervisor, user},
                        phys : Phys \cup {Same, Unmapped}]
    BY <1>2 DEF Table
  <2>. HIDE DEF t
  <2>. QED BY <2>1
<1>4. page' = [page EXCEPT ![t] = [@ EXCEPT ![pg] = gone]]
  BY <1>1, <1>2
<1>5. /\ page' \in [Frames -> Table]
      /\ page'[t][pg] = gone
      /\ \A f \in Frames \ {t} : page'[f] = page[f]
      /\ \A q \in Pages \ {pg} : page'[t][q] = page[t][q]
  <2>. HIDE DEF gone
  <2>. QED BY <1>2, <1>3, <1>4 DEF Table
<1>6. /\ asked' \in [Dirs -> [Slots -> [Pages -> Targets]]]
      /\ \A e \in Dirs, r \in Slots, q \in Pages :
            asked'[e][r][q] = IF e = d /\ r = s /\ q = pg THEN Unmapped
                              ELSE asked[e][r][q]
  <2>1. Unmapped \in Targets
    BY DEF Targets
  <2>2. asked' = [asked EXCEPT ![d] = [asked[d] EXCEPT
                     ![s] = [asked[d][s] EXCEPT ![pg] = Unmapped]]]
    BY <1>1
  <2>. QED BY <1>2, <2>1, <2>2
<1>7. PTyped'
  <2>1. unmaps' \in 0 .. MaxUnmaps
    BY <1>1, PagingAssumption DEF PTyped, TypeOK
  <2>. QED BY <1>1, <1>2, <1>5, <1>6, <2>1 DEF PTyped, TypeOK
<1>s. Sharers'
  BY <1>1 DEF Sharers
<1>8. CASE entry[d][s].present
  <2>1. ruin' = "none"
    BY <1>1, <1>8
  <2>2. KernelMapped' /\ PrivateTables'
    BY <1>1, <1>2 DEF KernelMapped, PrivateTables
  <2>3. HeldExactly'
    BY <1>1, <1>2, <2>1 DEF HeldExactly, Referenced, Tables, Twice, KernelTables
  <2>4. MapsAsAsked'
    <3> SUFFICES ASSUME NEW e \in live, NEW r \in Slots, NEW q \in Pages
                 PROVE  /\ Translate(e, r, q)' = IF <<e, r, q>> \in dropped'
                              THEN Unmapped ELSE asked'[e][r][q]
                        /\ /\ entry'[e][r].present
                           /\ page'[entry'[e][r].table][q].privilege = user
                           => entry'[e][r].privilege = user
      BY <1>2 DEF MapsAsAsked
    <3>1. /\ Translate(e, r, q) = IF <<e, r, q>> \in dropped
                                  THEN Unmapped ELSE asked[e][r][q]
          /\ entry[e][r].present /\ page[entry[e][r].table][q].privilege = user
             => entry[e][r].privilege = user
          /\ entry'[e][r] = entry[e][r] /\ entry[e][r].table \in Frames
      BY <1>1, <1>2 DEF MapsAsAsked, PTyped, TypeOK, Entry
    <3>2. CASE e = d /\ r = s /\ q = pg
      <4>1. entry'[e][r].table = t /\ entry'[e][r].present
        BY <1>8, <3>1, <3>2
      <4>2. page'[t][q] = gone /\ asked'[e][r][q] = Unmapped
        BY <1>2, <1>5, <1>6, <3>2
      <4>3. <<e, r, q>> \notin dropped'
        BY <1>1, <3>2
      <4>4. page[t][q].privilege = user => entry'[e][r].privilege = user
        BY <1>8, <3>1, <3>2
      <4>. HIDE DEF t, gone
      <4>. QED BY <1>3, <3>2, <4>1, <4>2, <4>3, <4>4 DEF Translate
    <3>3. CASE ~(e = d /\ r = s /\ q = pg)
      <4>1. /\ asked'[e][r][q] = asked[e][r][q]
            /\ <<e, r, q>> \in dropped' <=> <<e, r, q>> \in dropped
        BY <1>1, <1>2, <1>6, <3>3
      <4>2. CASE ~entry[e][r].present
        BY <3>1, <4>1, <4>2 DEF Translate
      <4>3. CASE entry[e][r].present
        <5>1. entry[e][r].table = t => q # pg
          <6>1. entry[e][r].table = t => s = r /\ d = e
            BY <1>1, <1>8, <4>3 DEF PrivateTables
          <6>. QED BY <3>3, <6>1
        <5>2. page'[entry[e][r].table][q] = page[entry[e][r].table][q]
          BY <1>5, <3>1, <5>1
        <5>. QED BY <3>1, <4>1, <4>3, <5>2 DEF Translate
      <4>. QED BY <4>2, <4>3
    <3>. QED BY <3>2, <3>3
  <2>. QED BY <1>7, <1>s, <2>2, <2>3, <2>4 DEF PInv
<1>9. CASE ~entry[d][s].present
  <2>1. ruin' = "stale"
    BY <1>1, <1>9
  <2>. QED BY <1>7, <1>s, <2>1
           DEF PInv, KernelMapped, MapsAsAsked, PrivateTables, HeldExactly
<1>. QED BY <1>8, <1>9

LEMMA UnmapTableKeeps ==
    ASSUME PInv, NEW d \in live, NEW s \in Slots, s >= KernelSlots,
           UnmapTable(d, s)
    PROVE  PInv'
<1>. PTyped /\ Sharers /\ KernelMapped /\ MapsAsAsked /\ PrivateTables /\ HeldExactly
  BY DEF PInv
<1>. DEFINE t == entry[d][s].table
<1>1. /\ ruin = "none" /\ unmaps < MaxUnmaps /\ unmaps' = unmaps + 1
      /\ ruin' = IF entry[d][s].present THEN "none" ELSE "stale"
      /\ s \in Nat /\ ~(s < KernelSlots)
      /\ allocated' = allocated \ {t}
      /\ entry' = [entry EXCEPT ![d][s].present = FALSE]
      /\ asked' = [asked EXCEPT ![d][s] = [pg \in Pages |-> Unmapped]]
      /\ dropped' = {m \in dropped : ~(m[1] = d /\ m[2] = s)}
      /\ UNCHANGED <<page, users, doubled, destroyed>>
  BY SizesTyped DEF UnmapTable, Unmaps, UsesTable
<1>2. /\ live \subseteq Dirs /\ d \in Dirs /\ t \in Frames /\ live' = live
      /\ entry \in [Dirs -> [Slots -> Entry]]
      /\ asked \in [Dirs -> [Slots -> [Pages -> Targets]]]
  BY <1>1, LiveTyped DEF PTyped, TypeOK, Entry, live
<1>. DEFINE gone == [entry[d][s] EXCEPT !.present = FALSE]
<1>3. gone \in Entry /\ ~gone.present
  <2>1. entry[d][s] \in Entry
    BY <1>2
  <2>. QED BY <2>1 DEF Entry
<1>4. entry' = [entry EXCEPT ![d] = [@ EXCEPT ![s] = gone]]
  BY <1>1, <1>2
<1>5. /\ entry' \in [Dirs -> [Slots -> Entry]]
      /\ ~entry'[d][s].present
      /\ \A e \in Dirs, r \in Slots : e # d \/ r # s => entry'[e][r] = entry[e][r]
  <2>. HIDE DEF gone
  <2>. QED BY <1>2, <1>3, <1>4
<1>6. /\ asked' \in [Dirs -> [Slots -> [Pages -> Targets]]]
      /\ \A e \in Dirs, r \in Slots, q \in Pages :
            asked'[e][r][q] = IF e = d /\ r = s THEN Unmapped ELSE asked[e][r][q]
  <2>1. [pg \in Pages |-> Unmapped] \in [Pages -> Targets]
    BY DEF Targets
  <2>2. asked' = [asked EXCEPT ![d] = [@ EXCEPT ![s] = [pg \in Pages |-> Unmapped]]]
    BY <1>1
  <2>. QED BY <1>2, <2>1, <2>2
<1>7. PTyped'
  <2>1. unmaps' \in 0 .. MaxUnmaps
    BY <1>1, PagingAssumption DEF PTyped, TypeOK
  <2>. QED BY <1>1, <1>2, <1>5, <1>6, <2>1 DEF PTyped, TypeOK
<1>s. Sharers'
  BY <1>1 DEF Sharers
<1>8. CASE entry[d][s].present
  <2>1. ruin' = "none"
    BY <1>1, <1>8
  <2>2. \A e \in live, r \in Slots : e # d \/ r # s =>
           /\ entry'[e][r] = entry[e][r]
           /\ entry[e][r].present => entry[e][r].table # t
    BY <1>1, <1>2, <1>5, <1>8 DEF PrivateTables
  <2>3. KernelMapped'
    <3>1. \A e \in live, r \in Slots : r < KernelSlots => entry'[e][r] = entry[e][r]
      BY <1>1, <2>2
    <3>. QED BY <1>1, <1>2, <3>1 DEF KernelMapped
  <2>4. \A e \in live, r \in Slots : entry'[e][r].present =>
           (e # d \/ r # s) /\ entry'[e][r] = entry[e][r]
    BY <1>5, <2>2
  <2>5. PrivateTables'
    BY <1>1, <1>2, <2>4 DEF PrivateTables
  <2>6. HeldExactly'
    <3>1. t \notin live
      BY <1>1, <1>8 DEF PrivateTables
    <3>2. \A x : x \in Referenced' => x \in Referenced /\ x # t
      <4>1. \A e \in live', r \in Slots : entry'[e][r].present =>
               /\ e \in live /\ entry'[e][r] = entry[e][r]
               /\ entry[e][r].table # t
        BY <1>2, <2>2, <2>4
      <4>. HIDE DEF t
      <4>. QED BY <1>2, <3>1, <4>1, ReferencedIs, ReferencedWillBe
    <3>3. \A x : x \in Referenced /\ x # t => x \in Referenced'
      <4>1. \A e \in live, r \in Slots : entry[e][r].table # t =>
               e \in live' /\ entry'[e][r] = entry[e][r]
        BY <1>2, <2>2
      <4>2. ASSUME NEW x, NEW e \in live, NEW r \in Slots,
                   entry[e][r].present, x = entry[e][r].table, x # t
            PROVE  x \in Referenced'
        <5>1. e \in live' /\ entry'[e][r].present /\ x = entry'[e][r].table
          BY <4>1, <4>2
        <5>. QED BY <5>1, ReferencedWillBe
      <4>. HIDE DEF t
      <4>. QED BY <1>2, <4>2, ReferencedIs, ReferencedWillBe
    <3>4. \A x \in Twice : x # t => x \in Twice'
      <4>1. NullDir \in live => \A r \in Slots :
               /\ entry[NullDir][r].present
               /\ entry[NullDir][r].table # t
               => entry'[NullDir][r] = entry[NullDir][r]
        BY <2>2
      <4>. QED BY <1>1, <1>2, <4>1 DEF Twice, Tables
    <3>. QED BY <1>1, <2>1, <3>2, <3>3, <3>4 DEF HeldExactly, KernelTables
  <2>7. MapsAsAsked'
    <3> SUFFICES ASSUME NEW e \in live, NEW r \in Slots, NEW q \in Pages
                 PROVE  /\ Translate(e, r, q)' = IF <<e, r, q>> \in dropped'
                              THEN Unmapped ELSE asked'[e][r][q]
                        /\ /\ entry'[e][r].present
                           /\ page'[entry'[e][r].table][q].privilege = user
                           => entry'[e][r].privilege = user
      BY <1>2 DEF MapsAsAsked
    <3>1. CASE e = d /\ r = s
      <4>1. ~entry'[e][r].present /\ asked'[e][r][q] = Unmapped
        BY <1>2, <1>5, <1>6, <3>1
      <4>. QED BY <4>1 DEF Translate
    <3>2. CASE e # d \/ r # s
      <4>1. /\ entry'[e][r] = entry[e][r] /\ asked'[e][r][q] = asked[e][r][q]
            /\ <<e, r, q>> \in dropped' <=> <<e, r, q>> \in dropped
        BY <1>1, <1>2, <1>6, <2>2, <3>2
      <4>2. /\ Translate(e, r, q) = IF <<e, r, q>> \in dropped
                                    THEN Unmapped ELSE asked[e][r][q]
            /\ entry[e][r].present /\ page[entry[e][r].table][q].privilege = user
               => entry[e][r].privilege = user
        BY <1>1 DEF MapsAsAsked
      <4>3. page' = page
        BY <1>1
      <4>. QED BY <4>1, <4>2, <4>3 DEF Translate
    <3>. QED BY <3>1, <3>2
  <2>. QED BY <1>7, <1>s, <2>3, <2>5, <2>6, <2>7 DEF PInv
<1>9. CASE ~entry[d][s].present
  <2>1. ruin' = "stale"
    BY <1>1, <1>9
  <2>. QED BY <1>7, <1>s, <2>1
           DEF PInv, KernelMapped, MapsAsAsked, PrivateTables, HeldExactly
<1>. QED BY <1>8, <1>9

-----------------------------------------------------------------------------
LEMMA PStepInv == PInv /\ [Next]_vars => PInv'
<1> SUFFICES ASSUME PInv, [Next]_vars
             PROVE  PInv'
  OBVIOUS
<1>1. /\ KernelSlots \in Nat /\ Slots \subseteq Nat
      /\ live \subseteq Dirs /\ kernel_dir \in live
  BY SizesTyped, LiveTyped DEF PInv
<1>2. CASE CreateDir
  BY <1>2, CreateKeeps
<1>3. ASSUME NEW s \in Slots, NEW pg \in Pages,
             MapPage(kernel_dir, s, pg, Same, supervisor)
      PROVE  PInv'
  <2>1. Asks(kernel_dir, s, pg, Same, supervisor)
    BY <1>1 DEF Asks, supervisor, user
  <2>. QED BY <1>3, <2>1, MapKeeps
<1>4. ASSUME NEW d \in live \ {kernel_dir}, NEW s \in Slots, NEW pg \in Pages,
             NEW p \in Phys, MapPage(d, s, pg, p, user)
      PROVE  PInv'
  <2>1. Asks(d, s, pg, p, user)
    BY <1>1, <1>4 DEF Asks
  <2>. QED BY <1>4, <2>1, MapKeeps
<1>5. ASSUME NEW d \in live \ {kernel_dir}, DestroyDir(d)
      PROVE  PInv'
  BY <1>5, DestroyKeeps
<1>6. ASSUME NEW d \in live, NEW s \in Slots, s >= KernelSlots, UnmapTable(d, s)
      PROVE  PInv'
  BY <1>6, UnmapTableKeeps
<1>7. ASSUME NEW d \in live, NEW s \in Slots, s >= KernelSlots, NEW pg \in Pages,
             UnmapPage(d, s, pg)
      PROVE  PInv'
  BY <1>7, UnmapPageKeeps
<1>8. CASE UNCHANGED vars
  <2>1. PTyped' /\ Sharers'
    BY <1>8 DEF PInv, PTyped, TypeOK, Sharers, live, vars
  <2>2. KernelMapped' /\ MapsAsAsked' /\ PrivateTables'
    BY <1>8 DEF PInv, KernelMapped, MapsAsAsked, PrivateTables, Translate, live, vars
  <2>3. HeldExactly'
    BY <1>8 DEF PInv, HeldExactly, Referenced, Tables, Twice, KernelTables, live, vars
  <2>. QED BY <2>1, <2>2, <2>3 DEF PInv
<1>. QED BY <1>2, <1>3, <1>4, <1>5, <1>6, <1>7, <1>8 DEF Next

\* PInv is inductive.
LEMMA PInvariance == Spec => []PInv
BY PInitInv, PStepInv, PTL DEF Spec

\* Whatever is mapped, unmapped, created and destroyed, directories and tables
\* stay pages of PagesHeap and their entries well-formed.
THEOREM PagingTyped == Spec => []TypeOK
<1>1. PInv => TypeOK
  BY DEF PInv, PTyped
<1>. QED BY <1>1, PInvariance, PTL

\* Until a page in use is handed out again, a table is used that was given back,
\* or a process's page replaces one of the kernel's, page_map_addr_dir_one_pg and
\* the unmapping functions leave every address space, the one at address 0 too,
\* mapping exactly what was last asked for in it, whatever other directories do
\* and whatever a new table's page held before; the pages that are not mapped
\* are those asked for while PagesHeap had no page for their table.
THEOREM AddressSpacesHold == Spec => []MapsAsAsked
<1>1. PInv => MapsAsAsked
  BY DEF PInv
<1>. QED BY <1>1, PInvariance, PTL

\* page_create_dir and page_map_addr_dir_one_pg share no table outside the
\* kernel's slots and never make a directory serve as a table, and two processes
\* have the same directory only when it is the one at address 0.
THEOREM TablesStayPrivate == Spec => []PrivateTables
<1>1. PInv => PrivateTables
  BY DEF PInv
<1>. QED BY <1>1, PInvariance, PTL

\* The allocated pages of PagesHeap are those some directory in use refers to,
\* but for the kernel's tables once page_destroy_dir has freed them, and for what
\* is lost or freed too early when processes share the directory at address 0; a
\* page in use is handed out again only after a directory was destroyed.
THEOREM PagesHeldExactly == Spec => []HeldExactly
<1>1. PInv => HeldExactly
  BY DEF PInv
<1>. QED BY <1>1, PInvariance, PTL
=============================================================================
