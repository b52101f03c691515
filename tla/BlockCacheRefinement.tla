------------------------ MODULE BlockCacheRefinement ------------------------
(***************************************************************************)
(* The block cache implements the block store: what callers read and what  *)
(* the disk image holds change only as BlockStore allows, for every value  *)
(* of the constants.                                                       *)
(***************************************************************************)
EXTENDS BlockCacheProofs

\* The contents of a block, and whether it is marked, one block at a time.
LEMMA StoreIs ==
    /\ \A c \in Blocks : StoreMem[c] = IF pci[c] = None THEN disk[c] ELSE page_data[pci[c]]
    /\ \A c \in Blocks : c \in StoreMarked <=> pci[c] # None /\ dirty_bit[pci[c]]
  BY DEF StoreMem, StoreMarked

\* A fresh cache is a store that shows the disk.
LEMMA InitRefines == Init => Store!Init
  <1> SUFFICES ASSUME Init PROVE Store!Init
    OBVIOUS
  <1>1. disk \in [Blocks -> Pages] /\ \A c \in Blocks : pci[c] = None
    BY DEF Init
  <1>2. StoreMem = disk
    BY <1>1 DEF StoreMem
  <1>3. StoreMarked = {}
    BY <1>1 DEF StoreMarked
  <1>4. StoreMode = "clean"
    BY DEF Init, StoreMode
  <1> QED BY <1>1, <1>2, <1>3, <1>4 DEF Store!Init

\* While the process runs, the store is up.
LEMMA ModeUp ==
    /\ proc \notin {"unmounted", "killed"} => StoreMode = "up"
    /\ proc = "unmounted" => StoreMode = "clean"
    /\ proc = "killed" => StoreMode = "crashed"
  BY DEF StoreMode

\* The same after a step.
LEMMA ModeUpNext ==
    /\ proc' \notin {"unmounted", "killed"} => StoreMode' = "up"
    /\ proc' = "unmounted" => StoreMode' = "clean"
    /\ proc' = "killed" => StoreMode' = "crashed"
  BY DEF StoreMode

\* A step that leaves index, pages, dirty bits and disk alone is invisible.
LEMMA QuietRefines ==
    ASSUME UNCHANGED <<pci, page_data, dirty_bit, disk>>, StoreMode' = StoreMode
    PROVE  UNCHANGED Store!vars
  BY DEF StoreMem, StoreMarked, Store!vars

\* The end of the process shows the disk again.
LEMMA GoneShowsDisk ==
    ASSUME IInv, CacheGone
    PROVE  StoreMem' = disk /\ StoreMarked' = {} /\ disk' = disk
  <1>1. disk' = disk /\ disk \in [Blocks -> Pages] /\ \A c \in Blocks : pci'[c] = None
    BY DEF CacheGone, IInv, TypeOK
  <1> QED BY <1>1 DEF StoreMem, StoreMarked

\* Mount, kill and the end of an unmount.
LEMMA LifeRefines ==
    ASSUME IInv, Mount \/ Kill \/ SyncReturn
    PROVE  Store!Next
  <1>1. CASE Mount
    <2>1. StoreMem' = StoreMem /\ StoreMarked' = StoreMarked /\ disk' = disk
      BY <1>1 DEF Mount, StoreMem, StoreMarked, slotVars, indexVars
    <2>2. StoreMode # "up" /\ StoreMode' = "up"
      BY <1>1, ModeUp, ModeUpNext DEF Mount
    <2> QED BY <2>1, <2>2 DEF Store!Next, Store!Start
  <1>2. CASE Kill
    <2>1. StoreMode = "up" /\ StoreMode' = "crashed"
      BY <1>2, ModeUp, ModeUpNext DEF Kill, Running, Faults
    <2>2. StoreMem' = disk /\ StoreMarked' = {} /\ disk' = disk
      BY <1>2, GoneShowsDisk DEF Kill
    <2> QED BY <2>1, <2>2 DEF Store!Next, Store!Crash
  <1>3. CASE SyncReturn
    <2>1. StoreMode = "up" /\ StoreMode' = "clean"
      BY <1>3, ModeUp, ModeUpNext DEF SyncReturn
    <2>2. StoreMem' = disk /\ StoreMarked' = {} /\ disk' = disk
      BY <1>3, GoneShowsDisk DEF SyncReturn
    <2>3. StoreMarked = {}
      <3>1. Range(gdl) = {}
        BY <1>3 DEF SyncReturn, Range
      <3>2. \A s \in InUse : ~dirty_bit[s]
        BY <3>1, InUseIs DEF IInv, GdlPosValid
      <3> QED BY <3>2, InUseIs DEF StoreMarked
    <2> QED BY <2>1, <2>2, <2>3 DEF Store!Next, Store!Stop
  <1> QED BY <1>1, <1>2, <1>3

\* Loading a block is invisible.
LEMMA LoadRefines ==
    ASSUME IInv, Load
    PROVE  UNCHANGED Store!vars
  <1> DEFINE s == Head(free_list)
             b == op.block
  <1>1. /\ b \in Blocks /\ pci[b] = None /\ free_list # <<>> /\ proc = "mounted" /\ proc' = "mounted"
        /\ disk' = disk
        /\ dirty_bit' = [dirty_bit EXCEPT ![s] = FALSE]
        /\ page_data' = [page_data EXCEPT ![s] = disk[b]]
        /\ pci' = [pci EXCEPT ![b] = s]
    BY CallTypes DEF IInv, TypeOK, Load, Miss, pci_insert
  <1>2. s \in Slots /\ s \notin InUse /\ s # None
    BY <1>1, TailRange, SizesAssumption DEF IInv, TypeOK, SlotsAccounted, Slots, None
  <1> HIDE DEF s, b
  <1>3. \A c \in Blocks : c # b => pci'[c] = pci[c] /\ pci[c] # s
    BY <1>1, <1>2, InUseIs DEF IInv, TypeOK
  <1>4. pci'[b] = s /\ page_data'[s] = disk[b] /\ dirty_bit'[s] = FALSE
    BY <1>1, <1>2 DEF IInv, TypeOK
  <1>5. \A t \in Slots : t # s => page_data'[t] = page_data[t] /\ dirty_bit'[t] = dirty_bit[t]
    BY <1>1 DEF IInv, TypeOK
  <1>6. \A c \in Blocks : pci[c] # None => pci[c] \in Slots
    BY InUseIs
  <1>7. StoreMem' = StoreMem
    BY <1>1, <1>2, <1>3, <1>4, <1>5, <1>6 DEF StoreMem
  <1>8. StoreMarked' = StoreMarked
    BY <1>1, <1>2, <1>3, <1>4, <1>5, <1>6 DEF StoreMarked
  <1>9. StoreMode' = StoreMode
    BY <1>1, ModeUp, ModeUpNext
  <1> QED BY <1>1, <1>7, <1>8, <1>9 DEF Store!vars

\* An eviction flushes a dirty block and forgets a clean one.
LEMMA EvictRefines ==
    ASSUME IInv, NEW i \in DOMAIN lru, Evict(i)
    PROVE  Store!Next
  <1> DEFINE s == lru[i]
             b == block_number[lru[i]]
  <1>1. /\ s \in InUse /\ s \in Slots /\ s # None
        /\ b \in Blocks /\ pci[b] = s
        /\ page_data[s] \in Pages
    BY InUseIs DEF IInv, PagesLoaded
  <1>2. /\ pci' = [pci EXCEPT ![b] = None]
        /\ UNCHANGED <<dirty_bit, page_data>>
        /\ proc = "mounted" /\ proc' = "mounted"
        /\ \/ dirty_bit[s] /\ disk' = [disk EXCEPT ![b] = page_data[s]]
           \/ ~dirty_bit[s] /\ disk' = disk
    BY DEF Evict, Miss, pci_delete, disk_write_block
  <1> HIDE DEF s, b
  <1>3. StoreMode = "up" /\ StoreMode' = "up"
    BY <1>2, ModeUp, ModeUpNext
  <1>4. /\ \A c \in Blocks : c # b => pci'[c] = pci[c] /\ disk'[c] = disk[c]
        /\ pci'[b] = None
    BY <1>1, <1>2 DEF IInv, TypeOK
  <1>5. StoreMem[b] = page_data[s] /\ (b \in StoreMarked <=> dirty_bit[s])
    BY <1>1, StoreIs
  <1>6. StoreMarked' = StoreMarked \ {b}
    BY <1>1, <1>2, <1>4 DEF StoreMarked
  <1>7. CASE dirty_bit[s]
    <2>1. disk' = [disk EXCEPT ![b] = StoreMem[b]]
      BY <1>2, <1>5, <1>7
    <2>2. disk'[b] = page_data[s]
      BY <1>1, <1>2, <1>7 DEF IInv, TypeOK
    <2>3. StoreMem' = StoreMem
      BY <1>1, <1>2, <1>4, <2>2 DEF StoreMem
    <2> QED BY <1>1, <1>3, <1>6, <2>1, <2>3 DEF Store!Next, Store!Flush
  <1>8. CASE ~dirty_bit[s]
    <2>1. disk' = disk /\ b \notin StoreMarked /\ StoreMarked' = StoreMarked
      BY <1>2, <1>5, <1>6, <1>8
    <2>2. StoreMem' = [StoreMem EXCEPT ![b] = disk[b]]
      <3>1. \A c \in Blocks : c # b => StoreMem'[c] = StoreMem[c]
        BY <1>2, <1>4, <2>1 DEF StoreMem
      <3>2. StoreMem'[b] = disk[b]
        BY <1>1, <1>4, <2>1 DEF StoreMem
      <3>3. StoreMem' = [c \in Blocks |-> StoreMem'[c]] /\ StoreMem = [c \in Blocks |-> StoreMem[c]]
        BY DEF StoreMem
      <3> HIDE DEF StoreMem
      <3> QED BY <1>1, <3>1, <3>2, <3>3
    <2> QED BY <1>1, <1>3, <2>1, <2>2 DEF Store!Next, Store!Forget
  <1> QED BY <1>7, <1>8

\* write_block is a write, a caller's access to the page a scribble.
LEMMA PageRefines ==
    ASSUME IInv, NEW b \in Blocks, NEW p \in Pages, pci[b] # None,
           page_data' = [page_data EXCEPT ![pci[b]] = p],
           dirty_bit' = [dirty_bit EXCEPT ![pci[b]] = TRUE] \/ dirty_bit' = dirty_bit,
           UNCHANGED <<pci, disk>>, proc = "mounted", proc' = "mounted"
    PROVE  Store!Next
  <1>1. StoreMode = "up" /\ StoreMode' = "up"
    BY ModeUp, ModeUpNext
  <1>2. pci[b] \in Slots /\ \A c \in Blocks : pci[c] # None => pci[c] \in Slots /\ (c # b => pci[c] # pci[b])
    BY InUseIs DEF IInv, IndexConsistent
  <1>3. page_data \in [Slots -> Pages \cup {NoPage}] /\ dirty_bit \in [Slots -> BOOLEAN]
    BY DEF IInv, TypeOK
  <1>4. StoreMem' = [StoreMem EXCEPT ![b] = p]
    BY <1>2, <1>3 DEF StoreMem
  <1>5. CASE dirty_bit' = dirty_bit
    <2>1. StoreMarked' = StoreMarked
      BY <1>5 DEF StoreMarked
    <2> QED BY <1>1, <1>4, <2>1 DEF Store!Next, Store!Scribble
  <1>6. CASE dirty_bit' = [dirty_bit EXCEPT ![pci[b]] = TRUE]
    <2>1. StoreMarked' = StoreMarked \cup {b}
      BY <1>2, <1>3, <1>6 DEF StoreMarked
    <2> QED BY <1>1, <1>4, <2>1 DEF Store!Next, Store!Write
  <1> QED BY <1>5, <1>6

\* Copying the page of a slot to the disk writes it through, and flushes it
\* when the page is marked clean.
LEMMA DiskRefines ==
    ASSUME IInv, NEW s \in InUse,
           disk' = [disk EXCEPT ![block_number[s]] = page_data[s]],
           dirty_bit' = [dirty_bit EXCEPT ![s] = FALSE] \/ dirty_bit' = dirty_bit,
           UNCHANGED <<pci, page_data>>, StoreMode = "up", StoreMode' = "up"
    PROVE  Store!Next
  <1> DEFINE b == block_number[s]
  <1>1. b \in Blocks /\ pci[b] = s /\ s # None /\ s \in Slots
    BY InUseIs
  <1>2. \A c \in Blocks : pci[c] # None => pci[c] \in Slots /\ (c # b => pci[c] # s)
    BY <1>1, InUseIs DEF IInv, IndexConsistent
  <1>3. disk \in [Blocks -> Pages] /\ dirty_bit \in [Slots -> BOOLEAN]
    BY DEF IInv, TypeOK
  <1>4. disk' = [disk EXCEPT ![b] = StoreMem[b]]
    BY <1>1, StoreIs
  <1> HIDE DEF b
  <1>5. StoreMem' = StoreMem
    BY <1>1, <1>2, <1>3 DEF StoreMem, b
  <1>6. CASE dirty_bit' = dirty_bit
    <2>1. StoreMarked' = StoreMarked
      BY <1>6 DEF StoreMarked
    <2> QED BY <1>1, <1>4, <1>5, <2>1 DEF Store!Next, Store!WriteThrough
  <1>7. CASE dirty_bit' = [dirty_bit EXCEPT ![s] = FALSE]
    <2>1. StoreMarked' = StoreMarked \ {b}
      BY <1>1, <1>2, <1>3, <1>7 DEF StoreMarked
    <2> QED BY <1>1, <1>4, <1>5, <2>1 DEF Store!Next, Store!Flush
  <1> QED BY <1>6, <1>7

\* A step into undefined behaviour stutters or has written a page through.
LEMMA FaultRefines ==
    ASSUME IInv, (\E i \in DOMAIN lru : EvictFault(i)) \/ (\E b \in Blocks : FsyncFault(b))
    PROVE  Store!Next \/ UNCHANGED Store!vars
  <1>1. /\ UNCHANGED <<pci, page_data, dirty_bit>>
        /\ proc = "mounted" /\ proc' \in Faults
    BY DEF EvictFault, FsyncFault, Miss, slotVars, indexVars, Faults
  <1>2. StoreMode = "up" /\ StoreMode' = "up"
    BY <1>1, ModeUp, ModeUpNext DEF Faults
  <1>3. disk' = disk \/ \E s \in InUse : disk' = [disk EXCEPT ![block_number[s]] = page_data[s]]
    <2>1. ASSUME NEW i \in DOMAIN lru, EvictFault(i)
          PROVE  disk' = disk \/ disk' = [disk EXCEPT ![block_number[lru[i]]] = page_data[lru[i]]]
      BY <2>1 DEF EvictFault, disk_write_block
    <2>2. ASSUME NEW b \in Blocks, FsyncFault(b)
          PROVE  disk' = disk \/ (pci[b] # None /\ disk' = [disk EXCEPT ![block_number[pci[b]]] = page_data[pci[b]]])
      BY <2>2 DEF FsyncFault, disk_write_block
    <2> QED BY <2>1, <2>2, InUseIs
  <1>4. CASE disk' = disk
    BY <1>1, <1>2, <1>4, QuietRefines
  <1>5. CASE \E s \in InUse : disk' = [disk EXCEPT ![block_number[s]] = page_data[s]]
    BY <1>1, <1>2, <1>5, DiskRefines
  <1> QED BY <1>3, <1>4, <1>5

\* Every step of the cache is a step of the store or invisible.
LEMMA NextRefines == IInv /\ [Next]_vars => [Store!Next]_(Store!vars)
  <1> SUFFICES ASSUME IInv, [Next]_vars PROVE Store!Next \/ UNCHANGED Store!vars
    OBVIOUS
  <1>1. CASE GetHit \/ IncreasePin \/ DecreasePin \/ FsyncReturn \/ Unmount \/ \E c \in Calls : Call(c)
    <2>1. /\ UNCHANGED <<pci, page_data, dirty_bit, disk>>
          /\ proc \in {"mounted", "unmounting"} /\ proc' \in {"mounted", "unmounting"}
      BY <1>1 DEF GetHit, IncreasePin, DecreasePin, FsyncReturn, Unmount, Call, Hit, slotVars, indexVars
    <2>2. StoreMode' = StoreMode
      BY <2>1, ModeUp, ModeUpNext
    <2> QED BY <2>1, <2>2, QuietRefines
  <1>2. CASE WriteHit
    <2>1. op.block \in Blocks /\ op.page \in Pages
      BY <1>2, CallTypes DEF IInv, TypeOK, WriteHit, Hit
    <2> QED BY <1>2, <2>1, PageRefines DEF WriteHit, Hit, indexVars
  <1>3. ASSUME NEW b \in Blocks, NEW p \in Pages, Poke(b, p) PROVE Store!Next
    BY <1>3, PageRefines DEF Poke, indexVars
  <1>4. ASSUME NEW b \in Blocks, Through(b) PROVE Store!Next
    <2>1. pci[b] \in InUse /\ block_number[pci[b]] = b
      BY <1>4 DEF IInv, IndexConsistent, Through
    <2>2. StoreMode = "up" /\ StoreMode' = "up"
      BY <1>4, ModeUp, ModeUpNext DEF Through
    <2> QED BY <1>4, <2>1, <2>2, DiskRefines DEF Through, slotVars, indexVars
  <1>5. ASSUME NEW b \in Blocks, FsyncBlock(b) PROVE Store!Next
    <2>1. pci[b] \in InUse
      BY <1>5, InUseIs DEF FsyncBlock
    <2>2. StoreMode = "up" /\ StoreMode' = "up"
      BY <1>5, ModeUp, ModeUpNext DEF FsyncBlock
    <2> QED BY <1>5, <2>1, <2>2, DiskRefines DEF FsyncBlock, disk_write_block, indexVars
  <1>6. CASE SyncNode
    <2>1. gdl[Len(gdl)] \in InUse
      <3>1. gdl \in Seq(Slots) /\ Len(gdl) \in DOMAIN gdl
        BY <1>6 DEF IInv, TypeOK, SyncNode
      <3>2. ~Reloading
        BY <1>6 DEF IInv, UnmountIdle, SyncNode, Reloading, Idle
      <3> QED BY <3>1, <3>2, InUseIs DEF IInv, GdlSlots
    <2>2. StoreMode = "up" /\ StoreMode' = "up"
      BY <1>6, ModeUp, ModeUpNext DEF SyncNode
    <2> QED BY <1>6, <2>1, <2>2, DiskRefines DEF SyncNode, disk_write_block, indexVars
  <1>7. CASE UNCHANGED vars
    <2>1. UNCHANGED <<pci, page_data, dirty_bit, disk>> /\ StoreMode' = StoreMode
      BY <1>7 DEF vars, slotVars, indexVars, StoreMode
    <2> QED BY <2>1, QuietRefines
  <1> QED
    BY <1>1, <1>2, <1>3, <1>4, <1>5, <1>6, <1>7, LifeRefines, LoadRefines, EvictRefines, FaultRefines
    DEF Next, Step

\* The cache implements the store: a block written by write_block reads back as
\* written and reaches the disk before its page is dropped, unless the process
\* dies, and a completed unmount leaves every written block on the disk.
THEOREM CacheImplementsStore == Spec => ImplementsStore
  <1>1. Spec => []IInv
    BY Invariance
  <1> QED
    BY <1>1, InitRefines, NextRefines, PTL DEF Spec, ImplementsStore, Store!Spec
=============================================================================
