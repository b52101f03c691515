-------------------------- MODULE AllocatorProofs ---------------------------
(***************************************************************************)
(* Block allocation keeps its types for any number of threads, and is      *)
(* exact when the mount runs one thread (fuse -s), for every size of the   *)
(* disk, of a bitmap page and of a bitmap word.                            *)
(***************************************************************************)
EXTENDS Allocator, TLAPS

\* A mount with the -s option: at most one thread runs calls.
OneThread == \A t, u \in Threads : t = u

-----------------------------------------------------------------------------
(***************************************************************************)
(* The inductive invariants.                                               *)
(***************************************************************************)
\* Thread t is in bitmap_put or after it: its block ii is chosen.
InCall(t) == pc[t] \notin {"idle", "scan"}

\* The blocks under change by the calls.
InFlight == {ii[t] : t \in {u \in Threads : InCall(u)}}

\* A chosen block is a block of the disk, and the call has its bitmap page.
ChosenInRange == \A t \in Threads : InCall(t) => ii[t] \in Blocks /\ pbmn[t] = Page(ii[t])

\* The search has the page of the block it tested last.
SearchPage ==
    \A t \in Threads : pc[t] = "scan" => pbmn[t] = IF ii[t] = 0 THEN 1 ELSE Page(ii[t] - 1)

TypeInv == TypeOK /\ ChosenInRange /\ SearchPage

\* Calls run in a mounted file system only, and the one that searches allocates.
CallsMounted ==
    /\ proc # "mounted" => AllIdle
    /\ \A t \in Threads : pc[t] = "scan" => fn[t] = "alloc"
    /\ \A t \in Threads : InCall(t) => fn[t] \in {"alloc", "free"}

\* The bits of a set of blocks.
Bits(S) == {Place(b) : b \in S}

\* The cached pages differ from those of the disk image in chosen blocks only.
CacheMatchesDisk ==
    proc = "mounted" => bitmap \ Bits(InFlight) = disk_bitmap \ Bits(InFlight)

\* A bit set on the disk is that of a block held, chosen by a call, or caught by
\* a kill.
MarkedExplained == disk_bitmap \subseteq Bits(held \cup lost \cup InFlight)

\* A chosen block is held by nobody.
ChosenNotHeld == \A t \in Threads : InCall(t) => ii[t] \notin held

\* The search has passed marked blocks only.
PassedMarked ==
    \A t \in Threads : pc[t] = "scan" => \A b \in Blocks : b < ii[t] => Place(b) \in bitmap

\* The word read is the word still in the page, and from bitmap_put's write on
\* the chosen block is marked exactly when it is being allocated.
WordCurrent ==
    \A t \in Threads :
        /\ pc[t] = "store" => word[t] = bitmap \cap InWord(Place(ii[t]))
        /\ pc[t] \in {"super", "mark", "through"} => (Place(ii[t]) \in bitmap <=> fn[t] = "alloc")

IInv ==
    /\ TypeInv
    /\ CallsMounted
    /\ HandedOutMarked
    /\ CacheMatchesDisk
    /\ MarkedExplained
    /\ ChosenNotHeld
    /\ PassedMarked
    /\ WordCurrent

-----------------------------------------------------------------------------
(***************************************************************************)
(* The arithmetic of bitmap pages.                                         *)
(***************************************************************************)
LEMMA DivMod ==
    ASSUME NEW b \in Nat
    PROVE  /\ b \div PageBits \in Nat /\ b % PageBits \in 0 .. PageBits - 1
           /\ b = (b \div PageBits) * PageBits + (b % PageBits)
  BY BitmapAssumption

\* A number is a page and a position below PageBits in one way only.
LEMMA QuotientUnique ==
    ASSUME NEW q \in Nat, NEW r \in 0 .. PageBits - 1, NEW s \in Nat, NEW u \in 0 .. PageBits - 1,
           q * PageBits + r = s * PageBits + u
    PROVE  q = s /\ r = u
  <1> USE BitmapAssumption
  <1>1. ASSUME NEW x \in Nat, NEW y \in Nat, x < y
        PROVE  x * PageBits + PageBits =< y * PageBits
    <2>1. PICK d \in Nat : y = x + 1 + d
      <3>1. y = x + 1 + (y - x - 1) /\ y - x - 1 \in Nat
        BY <1>1
      <3> QED BY <3>1
    <2>2. y * PageBits = x * PageBits + PageBits + d * PageBits
      BY <2>1
    <2>3. d * PageBits >= 0
      BY <2>1
    <2> QED BY <2>2, <2>3
  <1>2. q * PageBits \in Nat /\ s * PageBits \in Nat
    OBVIOUS
  <1>3. ~ (q < s)
    BY <1>1, <1>2
  <1>4. ~ (s < q)
    BY <1>1, <1>2
  <1>5. q = s
    BY <1>3, <1>4
  <1> QED BY <1>2, <1>5

\* The bit free_page computes for a block is one in use, and gives the block.
LEMMA PageOfBlock ==
    ASSUME NEW b \in Nat
    PROVE  /\ Page(b) \in Nat \ {0} /\ Bit(Page(b), b) \in 0 .. PageBits - 1
           /\ Bit(Page(b), b) \in 0 .. b
           /\ b = (Page(b) - 1) * PageBits + Bit(Page(b), b)
           /\ Bit(Page(b), b) = b % PageBits
  <1> DEFINE q == b \div PageBits
             r == b % PageBits
  <1>1. q \in Nat /\ r \in 0 .. PageBits - 1 /\ b = q * PageBits + r
    BY DivMod
  <1>2. Page(b) = 1 + q /\ Page(b) - 1 = q
    BY <1>1 DEF Page
  <1>3. Bit(Page(b), b) = b - q * PageBits
    BY <1>2 DEF Bit
  <1> HIDE DEF q, r
  <1>4. q * PageBits \in Nat
    BY <1>1, BitmapAssumption
  <1>5. Bit(Page(b), b) = r
    BY <1>1, <1>3, <1>4, BitmapAssumption
  <1>6. r \in 0 .. b
    BY <1>1, <1>4, BitmapAssumption
  <1>7. b = (Page(b) - 1) * PageBits + Bit(Page(b), b)
    BY <1>1, <1>2, <1>5
  <1> QED BY <1>1, <1>2, <1>5, <1>6, <1>7 DEF r

\* The page free_page computes is the page the search counts up to.
LEMMA NextPage ==
    ASSUME NEW b \in Nat
    PROVE  Page(b + 1) = IF (b + 1) % PageBits = 0 THEN Page(b) + 1 ELSE Page(b)
  <1> DEFINE q == Page(b) - 1
             r == Bit(Page(b), b)
             s == Page(b + 1) - 1
             u == Bit(Page(b + 1), b + 1)
  <1>1. q \in Nat /\ r \in 0 .. PageBits - 1 /\ b = q * PageBits + r /\ Page(b) = q + 1
    BY PageOfBlock
  <1>2. /\ s \in Nat /\ u \in 0 .. PageBits - 1 /\ b + 1 = s * PageBits + u
        /\ Page(b + 1) = s + 1 /\ u = (b + 1) % PageBits
    BY PageOfBlock
  <1> HIDE DEF q, r, s, u
  <1>3. CASE r < PageBits - 1
    <2>1. r + 1 \in 0 .. PageBits - 1 /\ q * PageBits + (r + 1) = s * PageBits + u
      BY <1>1, <1>2, <1>3, BitmapAssumption
    <2>2. q = s /\ u = r + 1
      BY <1>1, <1>2, <2>1, QuotientUnique
    <2> QED BY <1>1, <1>2, <2>2
  <1>4. CASE r = PageBits - 1
    <2>1. (q + 1) * PageBits + 0 = s * PageBits + u
      BY <1>1, <1>2, <1>4, BitmapAssumption
    <2>2. q + 1 \in Nat /\ 0 \in 0 .. PageBits - 1
      BY <1>1, BitmapAssumption
    <2>3. s = q + 1 /\ u = 0
      BY <1>2, <2>1, <2>2, QuotientUnique
    <2> QED BY <1>1, <1>2, <2>3
  <1> QED BY <1>1, <1>3, <1>4, BitmapAssumption

\* Every block of the disk has a bit, and no two have the same.
LEMMA PlaceTypes == \A b \in Blocks : Place(b) \in Places
  BY PageOfBlock, DiskAssumption DEF Place, Places, Pages, Blocks

LEMMA PlaceInjective ==
    ASSUME NEW b \in Nat, NEW c \in Nat, Place(b) = Place(c)
    PROVE  b = c
  <1>1. Page(b) = Page(c) /\ Bit(Page(b), b) = Bit(Page(c), c)
    BY DEF Place
  <1> QED BY <1>1, PageOfBlock

\* A bit is in its own word and page, and these have bits of the bitmap only.
LEMMA RegionTypes ==
    /\ \A b \in Blocks : Place(b) \in InWord(Place(b)) /\ Place(b) \in InPage(Page(b))
    /\ \A l : InWord(l) \subseteq Places /\ InPage(l) \subseteq Places
  BY PlaceTypes DEF InWord, InPage, Place

LEMMA FirstPage == 1 \in Pages /\ Page(0) = 1
  <1>1. Page(0) = 1
    BY BitmapAssumption DEF Page
  <1> QED BY <1>1, DiskAssumption DEF Pages, Blocks

\* The page of the next round is the page of the block it tests.
LEMMA RoundPage ==
    ASSUME TypeInv, NEW t \in Threads, pc[t] = "scan", ii[t] < NBlocks
    PROVE  PageOfRound(t) = Page(ii[t]) /\ ii[t] \in Blocks /\ Page(ii[t]) \in Pages
  <1>1. ii[t] \in Blocks /\ ii[t] \in Nat
    BY DiskAssumption DEF TypeInv, TypeOK, Blocks
  <1>2. pbmn[t] = IF ii[t] = 0 THEN 1 ELSE Page(ii[t] - 1)
    BY DEF TypeInv, SearchPage
  <1>3. CASE ii[t] = 0
    BY <1>1, <1>2, <1>3, FirstPage DEF PageOfRound
  <1>4. CASE ii[t] # 0
    <2>1. ii[t] - 1 \in Nat /\ (ii[t] - 1) + 1 = ii[t]
      BY <1>1, <1>4
    <2>2. Page(ii[t]) = IF ii[t] % PageBits = 0 THEN Page(ii[t] - 1) + 1 ELSE Page(ii[t] - 1)
      BY <2>1, NextPage
    <2> QED BY <1>1, <1>2, <1>4, <2>2 DEF PageOfRound, Pages
  <1> QED BY <1>1, <1>3, <1>4

\* A call that has chosen a block works on its bit.
LEMMA ChosenBit ==
    ASSUME TypeInv, NEW t \in Threads, InCall(t)
    PROVE  ii[t] \in Blocks /\ pbmn[t] = Page(ii[t]) /\ At(t) = Place(ii[t])
  BY DEF TypeInv, ChosenInRange, At, Place

-----------------------------------------------------------------------------
(***************************************************************************)
(* Types, for any number of threads.                                       *)
(***************************************************************************)
LEMMA TypeInit == Init => TypeInv
  BY DiskAssumption, ModulusAssumption, FirstPage
  DEF Init, TypeInv, TypeOK, ChosenInRange, SearchPage, InCall, Blocks

\* A call that returns leaves the locals of its thread typed.
LEMMA ReturnTypes ==
    ASSUME TypeInv, NEW t \in Threads, Return(t)
    PROVE  /\ fn' \in [Threads -> {"none", "alloc", "free"}]
           /\ pc' \in [Threads -> {"idle", "scan", "load", "store", "super", "mark", "through"}]
           /\ ii' \in [Threads -> 0 .. NBlocks]
           /\ pbmn' \in [Threads -> Pages]
           /\ sb' \in [Threads -> 0 .. Modulus - 1]
           /\ word' \in [Threads -> SUBSET Places]
           /\ ChosenInRange' /\ SearchPage'
  BY DiskAssumption, ModulusAssumption, FirstPage
  DEF TypeInv, TypeOK, Return, ChosenInRange, SearchPage, InCall

\* The same for the end of the process.
LEMMA GoneTypes ==
    ASSUME CacheGone
    PROVE  /\ bitmap' \subseteq Places /\ free_blocks' \in 0 .. Modulus - 1
           /\ dirty' \subseteq Pages
           /\ fn' \in [Threads -> {"none", "alloc", "free"}]
           /\ pc' \in [Threads -> {"idle", "scan", "load", "store", "super", "mark", "through"}]
           /\ ii' \in [Threads -> 0 .. NBlocks]
           /\ pbmn' \in [Threads -> Pages]
           /\ sb' \in [Threads -> 0 .. Modulus - 1]
           /\ word' \in [Threads -> SUBSET Places]
           /\ ChosenInRange' /\ SearchPage'
  BY DiskAssumption, ModulusAssumption, FirstPage DEF CacheGone, ChosenInRange, SearchPage, InCall

\* No step, of any thread at any point of another's call, leaves the types.
LEMMA TypeStep == TypeInv /\ [Next]_vars => TypeInv'
  <1> SUFFICES ASSUME TypeInv, [Next]_vars PROVE TypeInv'
    OBVIOUS
  <1> USE DiskAssumption, ModulusAssumption
  <1>1. CASE Format
    <2>1. disk_bitmap' \subseteq Places
      BY <1>1, PlaceTypes DEF Format, Blocks
    <2> QED BY <1>1, <2>1 DEF Format, TypeInv, TypeOK, ChosenInRange, SearchPage, InCall, Blocks, pageVars, callVars
  <1>2. CASE Mount
    BY <1>2 DEF Mount, TypeInv, TypeOK, ChosenInRange, SearchPage, InCall, diskVars, callVars
  <1>3. CASE Unmount
    BY <1>3, GoneTypes DEF Unmount, TypeInv, TypeOK, Overwrite
  <1>4. CASE Kill
    BY <1>4, GoneTypes DEF Kill, TypeInv, TypeOK, ChosenInRange, SearchPage, InCall, diskVars
  <1>5. ASSUME NEW t \in Threads, AllocStart(t) PROVE TypeInv'
    BY <1>5, FirstPage DEF AllocStart, TypeInv, TypeOK, ChosenInRange, SearchPage, InCall, pageVars, diskVars
  <1>6. ASSUME NEW t \in Threads, Scan(t) PROVE TypeInv'
    <2>1. /\ pc[t] = "scan" /\ ii[t] < NBlocks
          /\ pbmn' = [pbmn EXCEPT ![t] = PageOfRound(t)]
          /\ \/ ii' = [ii EXCEPT ![t] = @ + 1] /\ UNCHANGED pc
             \/ pc' = [pc EXCEPT ![t] = "load"] /\ UNCHANGED ii
          /\ UNCHANGED <<proc, pageVars, diskVars, fn, sb, word, held, lost>>
      BY <1>6 DEF Scan
    <2>2. PageOfRound(t) = Page(ii[t]) /\ ii[t] \in Blocks /\ Page(ii[t]) \in Pages
      BY <2>1, RoundPage
    <2>3. TypeOK'
      BY <2>1, <2>2 DEF TypeInv, TypeOK, Blocks, pageVars, diskVars
    <2>4. ChosenInRange'
      BY <2>1, <2>2 DEF TypeInv, TypeOK, ChosenInRange, InCall
    <2>5. SearchPage'
      BY <2>1, <2>2 DEF TypeInv, TypeOK, SearchPage, Blocks
    <2> QED BY <2>3, <2>4, <2>5 DEF TypeInv
  <1>7. ASSUME NEW t \in Threads, AllocFail(t) PROVE TypeInv'
    BY <1>7, ReturnTypes DEF AllocFail, TypeInv, TypeOK, pageVars, diskVars
  <1>8. ASSUME NEW t \in Threads, NEW b \in held, FreeStart(t, b) PROVE TypeInv'
    BY <1>8 DEF FreeStart, Pages, TypeInv, TypeOK, ChosenInRange, SearchPage, InCall, Blocks, pageVars, diskVars
  <1>9. ASSUME NEW t \in Threads, LoadWord(t) PROVE TypeInv'
    BY <1>9, RegionTypes DEF LoadWord, TypeInv, TypeOK, ChosenInRange, SearchPage, InCall, pageVars, diskVars
  <1>10. ASSUME NEW t \in Threads, StoreWord(t) PROVE TypeInv'
    <2>1. At(t) \in Places /\ word[t] \subseteq Places
      BY <1>10, ChosenBit, PlaceTypes DEF StoreWord, TypeInv, TypeOK, InCall
    <2>2. bitmap' \subseteq Places
      BY <1>10, <2>1 DEF StoreWord, TypeInv, TypeOK, Overwrite
    <2> QED BY <1>10, <2>2 DEF StoreWord, TypeInv, TypeOK, ChosenInRange, SearchPage, InCall, diskVars
  <1>11. ASSUME NEW t \in Threads, WriteSuper(t) PROVE TypeInv'
    <2>1. free_blocks' \in 0 .. Modulus - 1
      BY <1>11 DEF WriteSuper, TypeInv, TypeOK
    <2> QED BY <1>11, <2>1 DEF WriteSuper, TypeInv, TypeOK, ChosenInRange, SearchPage, InCall, diskVars
  <1>12. ASSUME NEW t \in Threads, MarkBitmap(t) PROVE TypeInv'
    BY <1>12 DEF MarkBitmap, TypeInv, TypeOK, ChosenInRange, SearchPage, InCall, diskVars
  <1>13. ASSUME NEW t \in Threads, Through(t) PROVE TypeInv'
    <2>1. ii[t] \in Blocks
      BY <1>13 DEF Through, TypeInv, ChosenInRange, InCall
    <2>2. disk_bitmap' \subseteq Places
      BY <1>13 DEF Through, TypeInv, TypeOK, Overwrite
    <2>3. held' \subseteq Blocks /\ lost' \subseteq Blocks
      BY <1>13, <2>1 DEF Through, TypeInv, TypeOK
    <2> QED BY <1>13, <2>2, <2>3, ReturnTypes DEF Through, TypeInv, TypeOK, pageVars
  <1>14. ASSUME NEW t \in Threads, NEW p \in dirty, Evict(t, p) PROVE TypeInv'
    BY <1>14 DEF Evict, TypeInv, TypeOK, ChosenInRange, SearchPage, InCall, callVars, Overwrite
  <1>15. ASSUME NEW t \in Threads, SuperThrough(t) PROVE TypeInv'
    BY <1>15 DEF SuperThrough, TypeInv, TypeOK, ChosenInRange, SearchPage, InCall, callVars, pageVars
  <1>16. CASE UNCHANGED vars
    BY <1>16 DEF vars, TypeInv, TypeOK, ChosenInRange, SearchPage, InCall, callVars, pageVars, diskVars
  <1> QED
    BY <1>1, <1>2, <1>3, <1>4, <1>5, <1>6, <1>7, <1>8, <1>9, <1>10, <1>11, <1>12, <1>13,
       <1>14, <1>15, <1>16 DEF Next, Step

\* Every variable keeps its type, however the threads interleave: no call marks
\* or hands out a block outside the disk, and free_blocks stays a machine word.
THEOREM AllocatorTypes == Spec => []TypeOK
  <1>1. TypeInv => TypeOK
    BY DEF TypeInv
  <1> QED BY <1>1, TypeInit, TypeStep, PTL DEF Spec

-----------------------------------------------------------------------------
(***************************************************************************)
(* Exactness, for one thread.                                              *)
(***************************************************************************)
\* With one thread, its block is the only one in flight.
LEMMA OneInFlight ==
    ASSUME OneThread, NEW t \in Threads
    PROVE  /\ InFlight = IF InCall(t) THEN {ii[t]} ELSE {}
           /\ InFlight' = IF InCall(t)' THEN {ii'[t]} ELSE {}
           /\ AllIdle <=> pc[t] = "idle"
           /\ AllIdle' <=> pc'[t] = "idle"
  <1>1. Threads = {t}
    BY DEF OneThread
  <1> QED BY <1>1 DEF InFlight, InCall, AllIdle

\* Between calls nothing is in flight, and the cached bitmap is the disk's.
LEMMA IdleMatches ==
    ASSUME AllIdle
    PROVE  InFlight = {} /\ (CacheMatchesDisk /\ proc = "mounted" => bitmap = disk_bitmap)
  BY DEF AllIdle, InFlight, InCall, CacheMatchesDisk, Bits

LEMMA ExactInit == Init => IInv
  <1> SUFFICES ASSUME Init PROVE IInv
    OBVIOUS
  <1>1. TypeInv
    BY TypeInit
  <1> QED
    BY <1>1 DEF Init, IInv, CallsMounted, AllIdle, HandedOutMarked, CacheMatchesDisk,
       MarkedExplained, ChosenNotHeld, PassedMarked, WordCurrent, InCall, InFlight

\* The exact parts that a step of thread t can disturb, for one thread.
LEMMA ExactStepFrom ==
    ASSUME OneThread, NEW t \in Threads,
           TypeInv',
           proc' # "mounted" => pc'[t] = "idle",
           pc'[t] = "scan" => fn'[t] = "alloc",
           InCall(t)' => fn'[t] \in {"alloc", "free"} /\ ii'[t] \notin held',
           \A b \in held' : Place(b) \in disk_bitmap',
           proc' = "mounted" =>
                \A l : (InCall(t)' /\ l = Place(ii'[t])) \/ (l \in bitmap' <=> l \in disk_bitmap'),
           \A l \in disk_bitmap' : l \in Bits(held' \cup lost') \/ (InCall(t)' /\ l = Place(ii'[t])),
           pc'[t] = "scan" => \A b \in Blocks : b < ii'[t] => Place(b) \in bitmap',
           pc'[t] = "store" => word'[t] = bitmap' \cap InWord(Place(ii'[t])),
           pc'[t] \in {"super", "mark", "through"} => (Place(ii'[t]) \in bitmap' <=> fn'[t] = "alloc")
    PROVE  IInv'
  <1>1. Threads = {t}
    BY DEF OneThread
  <1>2. InFlight' = IF InCall(t)' THEN {ii'[t]} ELSE {}
    BY OneInFlight
  <1>3. CacheMatchesDisk' /\ MarkedExplained'
    BY <1>2 DEF CacheMatchesDisk, MarkedExplained, Bits
  <1>4. CallsMounted' /\ ChosenNotHeld' /\ PassedMarked' /\ WordCurrent'
    BY <1>1 DEF CallsMounted, AllIdle, ChosenNotHeld, PassedMarked, WordCurrent
  <1>5. HandedOutMarked'
    BY DEF HandedOutMarked, Marked, TypeInv, TypeOK
  <1> QED BY <1>3, <1>4, <1>5 DEF IInv

\* The invariant of one thread, unfolded at that thread.
LEMMA ExactAt ==
    ASSUME IInv, OneThread, NEW t \in Threads
    PROVE  /\ TypeOK
           /\ proc # "mounted" => pc[t] = "idle"
           /\ pc[t] = "scan" => fn[t] = "alloc"
           /\ InCall(t) => fn[t] \in {"alloc", "free"} /\ ii[t] \notin held /\ ii[t] \in Blocks
           /\ held \subseteq Blocks /\ \A b \in held : Place(b) \in disk_bitmap
           /\ proc = "mounted" =>
                \A l : (InCall(t) /\ l = Place(ii[t])) \/ (l \in bitmap <=> l \in disk_bitmap)
           /\ \A l \in disk_bitmap : l \in Bits(held \cup lost) \/ (InCall(t) /\ l = Place(ii[t]))
           /\ pc[t] = "scan" => \A b \in Blocks : b < ii[t] => Place(b) \in bitmap
           /\ pc[t] = "store" => word[t] = bitmap \cap InWord(Place(ii[t]))
           /\ pc[t] \in {"super", "mark", "through"} => (Place(ii[t]) \in bitmap <=> fn[t] = "alloc")
  <1>1. InFlight = IF InCall(t) THEN {ii[t]} ELSE {}
    BY OneInFlight
  <1>2. proc = "mounted" =>
            \A l : (InCall(t) /\ l = Place(ii[t])) \/ (l \in bitmap <=> l \in disk_bitmap)
    BY <1>1 DEF IInv, CacheMatchesDisk, Bits
  <1>3. \A l \in disk_bitmap : l \in Bits(held \cup lost) \/ (InCall(t) /\ l = Place(ii[t]))
    BY <1>1 DEF IInv, MarkedExplained, Bits
  <1> QED
    BY <1>2, <1>3 DEF IInv, TypeInv, TypeOK, CallsMounted, AllIdle, HandedOutMarked, Marked,
       ChosenNotHeld, ChosenInRange, PassedMarked, WordCurrent

\* mkfs, mount, unmount and a kill: steps that leave every thread idle.
LEMMA IdleStep ==
    ASSUME TypeInv', AllIdle', HandedOutMarked', disk_bitmap' \subseteq Bits(held' \cup lost'),
           proc' = "mounted" => bitmap' = disk_bitmap'
    PROVE  IInv'
  BY DEF IInv, CallsMounted, AllIdle, CacheMatchesDisk, MarkedExplained,
     ChosenNotHeld, PassedMarked, WordCurrent, InCall, Bits

\* Every step of a mount with one thread, kills included, keeps the invariant.
LEMMA ExactStep == OneThread /\ IInv /\ [Next]_vars => IInv'
  <1> SUFFICES ASSUME OneThread, IInv, [Next]_vars PROVE IInv'
    OBVIOUS
  <1> USE DiskAssumption
  <1>a. TypeInv'
    BY TypeStep DEF IInv
  <1>1. CASE Format
    <2>1. AllIdle'
      BY <1>1 DEF Format, callVars, AllIdle, IInv, CallsMounted
    <2>2. HandedOutMarked' /\ disk_bitmap' \subseteq Bits(held' \cup lost')
      BY <1>1 DEF Format, HandedOutMarked, Marked, Bits, Blocks
    <2> QED BY <1>1, <1>a, <2>1, <2>2, IdleStep DEF Format
  <1>2. CASE Mount
    <2>1. AllIdle /\ AllIdle'
      BY <1>2 DEF Mount, callVars, AllIdle, IInv, CallsMounted
    <2>2. disk_bitmap \subseteq Bits(held \cup lost)
      BY <2>1, IdleMatches DEF IInv, MarkedExplained
    <2> QED BY <1>2, <1>a, <2>1, <2>2, IdleStep DEF Mount, diskVars, IInv, HandedOutMarked
  <1>3. CASE Unmount
    <2>1. bitmap = disk_bitmap /\ disk_bitmap \subseteq Bits(held \cup lost)
      BY <1>3, IdleMatches DEF Unmount, IInv, MarkedExplained
    <2>2. disk_bitmap' = disk_bitmap
      BY <1>3, <2>1 DEF Unmount, Overwrite
    <2>3. AllIdle'
      BY <1>3 DEF Unmount, CacheGone, AllIdle
    <2> QED BY <1>3, <1>a, <2>1, <2>2, <2>3, IdleStep DEF Unmount, IInv, HandedOutMarked
  <1>4. CASE Kill
    <2>1. AllIdle'
      BY <1>4 DEF Kill, CacheGone, AllIdle
    <2>2. held' \cup lost' = held \cup lost \cup InFlight
      BY <1>4 DEF Kill, InFlight, InCall
    <2>3. HandedOutMarked' /\ disk_bitmap' \subseteq Bits(held' \cup lost')
      BY <1>4, <2>2 DEF Kill, diskVars, IInv, HandedOutMarked, MarkedExplained
    <2> QED BY <1>4, <1>a, <2>1, <2>3, IdleStep DEF Kill
  <1>5. ASSUME NEW t \in Threads, AllocStart(t) PROVE IInv'
    <2>1. /\ proc = "mounted" /\ pc[t] = "idle" /\ ~ InCall(t)
          /\ pc'[t] = "scan" /\ fn'[t] = "alloc" /\ ii'[t] = 0
          /\ UNCHANGED <<proc, bitmap, disk_bitmap, held, lost>>
      BY <1>5, ExactAt DEF AllocStart, TypeOK, InCall, pageVars, diskVars
    <2>2. \A b \in Blocks : ~ (b < ii'[t])
      BY <2>1 DEF Blocks
    <2> QED BY <1>a, <2>1, <2>2, ExactAt, ExactStepFrom DEF InCall
  <1>6. ASSUME NEW t \in Threads, Scan(t) PROVE IInv'
    <2>1. pc[t] = "scan" /\ ii[t] \in Nat /\ ii[t] < NBlocks
      BY <1>6, ExactAt DEF Scan, TypeOK
    <2>2. PageOfRound(t) = Page(ii[t])
      BY <2>1, RoundPage DEF IInv
    <2>3. CASE Place(ii[t]) \in bitmap
      <3>1. /\ ii' = [ii EXCEPT ![t] = @ + 1]
            /\ UNCHANGED <<proc, pc, fn, word, bitmap, disk_bitmap, held, lost>>
        BY <1>6, <2>2, <2>3 DEF Scan, Place, pageVars, diskVars
      <3>2. ii'[t] = ii[t] + 1
        BY <3>1, ExactAt DEF TypeOK
      <3>3. \A b \in Blocks : b < ii'[t] => Place(b) \in bitmap
        BY <2>1, <2>3, <3>2, ExactAt DEF Blocks
      <3> QED BY <1>a, <2>1, <3>1, <3>3, ExactAt, ExactStepFrom DEF InCall
    <2>4. CASE Place(ii[t]) \notin bitmap
      <3>1. /\ pc' = [pc EXCEPT ![t] = "load"]
            /\ UNCHANGED <<proc, ii, fn, word, bitmap, disk_bitmap, held, lost>>
        BY <1>6, <2>2, <2>4 DEF Scan, Place, pageVars, diskVars
      <3>2. pc'[t] = "load"
        BY <3>1, ExactAt DEF TypeOK
      <3>3. ii[t] \notin held
        BY <2>1, <2>4, ExactAt DEF InCall
      <3> QED BY <1>a, <2>1, <3>1, <3>2, <3>3, ExactAt, ExactStepFrom DEF InCall
    <2> QED BY <2>3, <2>4
  <1>7. ASSUME NEW t \in Threads, AllocFail(t) PROVE IInv'
    BY <1>7, <1>a, ExactAt, ExactStepFrom
    DEF AllocFail, Return, TypeOK, InCall, pageVars, diskVars
  <1>8. ASSUME NEW t \in Threads, NEW b \in held, FreeStart(t, b) PROVE IInv'
    <2>1. /\ proc = "mounted" /\ pc[t] = "idle" /\ ~ InCall(t)
          /\ pc'[t] = "load" /\ fn'[t] = "free" /\ ii'[t] = b /\ held' = held \ {b}
          /\ UNCHANGED <<proc, bitmap, disk_bitmap, lost>>
      BY <1>8, ExactAt DEF FreeStart, TypeOK, InCall, pageVars, diskVars
    <2>2. \A l \in disk_bitmap : l \in Bits(held' \cup lost) \/ l = Place(b)
      BY <2>1, ExactAt DEF Bits
    <2> QED BY <1>a, <2>1, <2>2, ExactAt, ExactStepFrom DEF InCall
  <1>9. ASSUME NEW t \in Threads, LoadWord(t) PROVE IInv'
    <2>1. At(t) = Place(ii[t])
      BY <1>9, ChosenBit DEF LoadWord, InCall, IInv
    <2> QED BY <1>9, <1>a, <2>1, ExactAt, ExactStepFrom DEF LoadWord, TypeOK, InCall, pageVars, diskVars
  <1>10. ASSUME NEW t \in Threads, StoreWord(t) PROVE IInv'
    <2>1. /\ pc[t] = "store" /\ ii[t] \in Blocks /\ At(t) = Place(ii[t]) /\ At(t) \in InWord(At(t))
          /\ word[t] = bitmap \cap InWord(At(t))
      BY <1>10, ExactAt, ChosenBit, RegionTypes DEF StoreWord, InCall, IInv
    <2>2. bitmap' = IF fn[t] = "alloc" THEN bitmap \cup {At(t)} ELSE bitmap \ {At(t)}
      BY <1>10, <2>1 DEF StoreWord, Overwrite
    <2>3. /\ UNCHANGED <<proc, fn, ii, held, lost, disk_bitmap>>
          /\ pc'[t] = "super"
      BY <1>10, ExactAt DEF StoreWord, TypeOK, diskVars
    <2> QED BY <1>a, <2>1, <2>2, <2>3, ExactAt, ExactStepFrom DEF InCall
  <1>11. ASSUME NEW t \in Threads, WriteSuper(t) PROVE IInv'
    BY <1>11, <1>a, ExactAt, ExactStepFrom DEF WriteSuper, TypeOK, InCall, diskVars
  <1>12. ASSUME NEW t \in Threads, MarkBitmap(t) PROVE IInv'
    BY <1>12, <1>a, ExactAt, ExactStepFrom DEF MarkBitmap, TypeOK, InCall, diskVars
  <1>13. ASSUME NEW t \in Threads, Through(t) PROVE IInv'
    <2>1. /\ pc[t] = "through" /\ proc = "mounted" /\ InCall(t) /\ ii[t] \in Blocks
          /\ fn[t] \in {"alloc", "free"} /\ (Place(ii[t]) \in bitmap <=> fn[t] = "alloc")
          /\ pbmn[t] = Page(ii[t])
      BY <1>13, ExactAt, ChosenBit DEF Through, InCall, IInv
    <2>2. disk_bitmap' = bitmap
      <3>1. Place(ii[t]) \in InPage(pbmn[t])
        BY <2>1, RegionTypes
      <3>2. \A l : l = Place(ii[t]) \/ (l \in bitmap <=> l \in disk_bitmap)
        BY <2>1, ExactAt
      <3>3. disk_bitmap' = Overwrite(disk_bitmap, InPage(pbmn[t]), bitmap)
        BY <1>13 DEF Through
      <3> QED BY <3>1, <3>2, <3>3 DEF Overwrite
    <2>3. pc'[t] = "idle" /\ UNCHANGED <<proc, bitmap>>
      BY <1>13, ExactAt DEF Through, Return, TypeOK, pageVars
    <2>4. \A b \in held' : Place(b) \in bitmap
      <3>1. \A b \in held : Place(b) \in disk_bitmap /\ b \in Nat /\ b # ii[t]
        BY <2>1, ExactAt DEF Blocks
      <3>2. \A b \in held : Place(b) # Place(ii[t])
        BY <2>1, <3>1, PlaceInjective DEF Blocks
      <3>3. \A b \in held : Place(b) \in bitmap
        BY <2>1, <3>1, <3>2, ExactAt
      <3> QED BY <1>13, <2>1, <3>3 DEF Through
    <2>5. bitmap \subseteq Bits(held' \cup lost')
      <3> SUFFICES ASSUME NEW l \in bitmap PROVE l \in Bits(held' \cup lost')
        OBVIOUS
      <3>1. CASE l = Place(ii[t])
        <4>1. fn[t] = "alloc" /\ ii[t] \in held'
          BY <1>13, <2>1, <3>1 DEF Through
        <4> QED BY <3>1, <4>1 DEF Bits
      <3>2. CASE l # Place(ii[t])
        <4>1. PICK b \in held \cup lost : l = Place(b)
          BY <2>1, <3>2, ExactAt DEF Bits
        <4> QED BY <1>13, <3>2, <4>1 DEF Through, Bits
      <3> QED BY <3>1, <3>2
    <2> QED BY <1>a, <2>2, <2>3, <2>4, <2>5, ExactStepFrom DEF InCall
  <1>14. ASSUME NEW t \in Threads, NEW p \in dirty, Evict(t, p) PROVE IInv'
    <2>1. disk_bitmap = bitmap
      BY <1>14, OneInFlight, IdleMatches DEF Evict, IInv
    <2>2. disk_bitmap' = disk_bitmap
      BY <1>14, <2>1 DEF Evict, Overwrite
    <2> QED BY <1>14, <1>a, <2>2, ExactAt, ExactStepFrom DEF Evict, callVars, InCall
  <1>15. ASSUME NEW t \in Threads, SuperThrough(t) PROVE IInv'
    BY <1>15, <1>a, ExactAt, ExactStepFrom DEF SuperThrough, callVars, pageVars, InCall
  <1>16. CASE UNCHANGED vars
    BY <1>16, <1>a DEF vars, pageVars, diskVars, callVars, IInv, CallsMounted, AllIdle,
       HandedOutMarked, CacheMatchesDisk, MarkedExplained, ChosenNotHeld, PassedMarked,
       WordCurrent, InCall, InFlight
  <1> QED
    BY <1>1, <1>2, <1>3, <1>4, <1>5, <1>6, <1>7, <1>8, <1>9, <1>10, <1>11, <1>12, <1>13,
       <1>14, <1>15, <1>16 DEF Next, Step

LEMMA Exactness == OneThread => (Spec => []IInv)
  <1> SUFFICES ASSUME OneThread PROVE Spec => []IInv
    OBVIOUS
  <1>1. IInv /\ [Next]_vars => IInv'
    BY ExactStep
  <1> QED BY <1>1, ExactInit, PTL DEF Spec

\* With one thread, a block alloc_page has handed out is marked in the disk
\* image until free_page is called on it: a kill between any two steps of any
\* call, an eviction, an unmount and the next mount find it allocated.
THEOREM HandedOutStaysMarked == OneThread => (Spec => []HandedOutMarked)
  <1>1. IInv => HandedOutMarked
    BY DEF IInv
  <1> QED BY <1>1, Exactness, PTL

\* With one thread, the bitmap is exact between calls but for the blocks a kill
\* caught in the middle of alloc_page or free_page.
THEOREM OnlyKillsLeakBlocks == OneThread => (Spec => []OnlyKillsLeak)
  <1>1. IInv => OnlyKillsLeak
    <2> SUFFICES ASSUME IInv, proc = "mounted", AllIdle
                 PROVE  held \subseteq Marked(bitmap) /\ bitmap \subseteq Bits(held \cup lost)
      BY DEF OnlyKillsLeak, Bits
    <2> QED BY IdleMatches DEF IInv, HandedOutMarked, MarkedExplained
  <1> QED BY <1>1, Exactness, PTL

\* With one thread, alloc_page never returns a block that is held: what the
\* search found free in the cached bitmap is free on the disk too, and stays so
\* until the call returns.
THEOREM NeverAllocatedTwice == OneThread => (Spec => NoDoubleAllocation)
  <1>1. IInv /\ [Next]_vars =>
            [\A t \in Threads :
                pc[t] = "through" /\ fn[t] = "alloc" /\ pc'[t] = "idle" /\ proc' = "mounted"
                    => ii[t] \notin held]_vars
    BY DEF IInv, ChosenNotHeld, InCall
  <1> QED BY <1>1, Exactness, PTL DEF Spec, NoDoubleAllocation

\* With one thread, alloc_page returns 0 only when every block of the disk is
\* marked.  Whatever the size of a page, the page number the search counts up
\* and the position it computes in that page are at every round those free_page
\* computes by division, so it passes no free block.
THEOREM FailsOnlyOnFullDisk == OneThread => (Spec => FailsOnlyWhenFull)
  <1>1. OneThread /\ IInv /\ [Next]_vars =>
            [\A t \in Threads : pc[t] = "scan" /\ pc'[t] = "idle" /\ proc' = "mounted"
                => Marked(bitmap) = Blocks]_vars
    <2> SUFFICES ASSUME OneThread, IInv, Next, NEW t \in Threads,
                        pc[t] = "scan", pc'[t] = "idle", proc' = "mounted"
                 PROVE  Marked(bitmap) = Blocks
      OBVIOUS
    <2>1. Threads = {t} /\ pc \in [Threads -> {"idle", "scan", "load", "store", "super", "mark", "through"}]
      BY DEF OneThread, IInv, TypeInv, TypeOK
    <2>2. AllocFail(t)
      BY <2>1 DEF Next, Step, Format, Mount, Unmount, Kill, AllocStart, Scan, FreeStart, LoadWord,
         StoreWord, WriteSuper, MarkBitmap, Through, Evict, SuperThrough, IInv, CallsMounted,
         AllIdle, callVars
    <2>3. ii[t] = NBlocks
      BY <2>2 DEF AllocFail
    <2> QED BY <2>3, DiskAssumption DEF IInv, PassedMarked, Marked, Blocks
  <1> SUFFICES ASSUME OneThread PROVE Spec => FailsOnlyWhenFull
    OBVIOUS
  <1>2. IInv /\ [Next]_vars =>
            [\A t \in Threads : pc[t] = "scan" /\ pc'[t] = "idle" /\ proc' = "mounted"
                => Marked(bitmap) = Blocks]_vars
    BY <1>1
  <1>3. Spec => []IInv
    BY Exactness
  <1> QED BY <1>2, <1>3, PTL DEF Spec, FailsOnlyWhenFull
=============================================================================
