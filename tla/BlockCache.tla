----------------------------- MODULE BlockCache -----------------------------
(***************************************************************************)
(* The write-back block cache (cache.c) with its lists and indexes (lru.c, *)
(* gdl.c, fl.c, dl.c, pci.c), over the memory-mapped disk image of disk.c, *)
(* as the single-threaded mount (fuse -s) runs it: one cache call at a     *)
(* time, which a kill can interrupt between any two of its steps.          *)
(*                                                                         *)
(* A page is abstracted to its contents, of which the cache only reads the *)
(* type word: DataPages carry BLOCK_TYPE_DATA, MetaPages any other type.   *)
(***************************************************************************)
EXTENDS Integers, Sequences, FiniteSets, SequencesExt

CONSTANTS
    Blocks,         \* block numbers of the disk image
    Inodes,         \* inode numbers that calls pass as inum
    DataPages,      \* page contents whose type word is BLOCK_TYPE_DATA
    MetaPages,      \* page contents of any other type
    NoPage,         \* stands for the page of a slot that has none
    CacheSize,      \* cache->cache_size
    HashSize,       \* HASHMAP_SIZE, the number of buckets of the PCI
    Pinnable,       \* the blocks whose pages callers pin
    MaxPin,         \* bound on pin_count
    MaxGdl          \* bound on the length of the global dirty list

ASSUME BlocksAssumption == Blocks \subseteq Nat
ASSUME InodesAssumption == Inodes \subseteq Nat
ASSUME PagesAssumption == DataPages \cap MetaPages = {} /\ NoPage \notin DataPages \cup MetaPages
ASSUME SizesAssumption == CacheSize \in Nat \ {0} /\ HashSize \in Nat \ {0}
ASSUME BoundsAssumption == Pinnable \subseteq Blocks /\ MaxPin \in Nat /\ MaxGdl \in Nat

VARIABLES
    proc,           \* life of the process
    op,             \* the cache call being executed
    dirty_bit,      \* the fields of cache->cache[slot], each a function of the slot
    pin_count,
    block_number,
    inode_number,
    page_data,
    gdl_pos,        \* "node": points to the newest GDL node pushed for the slot
    pci,            \* block -> slot, as pci_lookup returns it
    pci_chain,      \* bucket -> its chain of blocks, head first
    lru,            \* slots, most recently used first
    free_list,      \* slots, head first
    dirty_list,     \* inode -> its dirty blocks
    gdl,            \* slots, newest node first; a slot may have several nodes
    disk,           \* block -> contents in the disk image
    unsynced        \* history: data blocks written for an inode and not written back

slotVars == <<dirty_bit, pin_count, block_number, inode_number, page_data, gdl_pos>>
indexVars == <<pci, pci_chain>>
vars == <<proc, op, slotVars, indexVars, lru, free_list, dirty_list, gdl, disk, unsynced>>

-----------------------------------------------------------------------------
Slots == 0 .. CacheSize - 1
Pages == DataPages \cup MetaPages
Buckets == 0 .. HashSize - 1
None == -1      \* pci_lookup's miss; a field malloc left unset

\* Undefined behaviour the cache can run into.
Faults == {"read_freed_page", "wild_prev", "index_minus_one", "unset_gdl_pos"}

Idle == [fn |-> "none"]
Calls ==
    [fn : {"get", "inc", "dec"}, inum : Inodes, block : Blocks]
        \cup [fn : {"write"}, inum : Inodes, block : Blocks, page : Pages]
        \cup [fn : {"fsync"}, inum : Inodes]

\* alloc_cache pushes the slots in increasing order onto the free list.
FullFreeList == [i \in 1 .. CacheSize |-> CacheSize - i]

Running == proc \in {"mounted", "unmounting"}

-----------------------------------------------------------------------------
(***************************************************************************)
(* alloc_cache: nothing is cached; pin counts, block and inode numbers and *)
(* gdl_pos are not initialised.                                            *)
(***************************************************************************)
Init ==
    /\ proc = "unmounted"
    /\ op = Idle
    /\ dirty_bit = [s \in Slots |-> FALSE]
    /\ pin_count = [s \in Slots |-> 0]
    /\ block_number = [s \in Slots |-> None]
    /\ inode_number = [s \in Slots |-> None]
    /\ page_data = [s \in Slots |-> NoPage]
    /\ gdl_pos = [s \in Slots |-> "unset"]
    /\ pci = [b \in Blocks |-> None]
    /\ pci_chain = [h \in Buckets |-> <<>>]
    /\ lru = <<>>
    /\ free_list = FullFreeList
    /\ dirty_list = [k \in Inodes |-> {}]
    /\ gdl = <<>>
    /\ disk \in [Blocks -> Pages]
    /\ unsynced = [k \in Inodes |-> {}]

\* The process ends, by free_cache or by a kill, and the next mount calls
\* alloc_cache; only the disk image survives.
CacheGone ==
    /\ op' = Idle
    /\ dirty_bit' = [s \in Slots |-> FALSE]
    /\ pin_count' = [s \in Slots |-> 0]
    /\ block_number' = [s \in Slots |-> None]
    /\ inode_number' = [s \in Slots |-> None]
    /\ page_data' = [s \in Slots |-> NoPage]
    /\ gdl_pos' = [s \in Slots |-> "unset"]
    /\ pci' = [b \in Blocks |-> None]
    /\ pci_chain' = [h \in Buckets |-> <<>>]
    /\ lru' = <<>>
    /\ free_list' = FullFreeList
    /\ dirty_list' = [k \in Inodes |-> {}]
    /\ gdl' = <<>>
    /\ unsynced' = [k \in Inodes |-> {}]
    /\ UNCHANGED disk

Mount ==
    /\ proc \in {"unmounted", "killed"}
    /\ proc' = "mounted"
    /\ UNCHANGED <<op, slotVars, indexVars, lru, free_list, dirty_list, gdl, disk, unsynced>>

\* The process is killed, or a sanitizer aborts it.
Kill ==
    /\ Running \/ proc \in Faults
    /\ proc' = "killed"
    /\ CacheGone

-----------------------------------------------------------------------------
\* lru_push and gdl_push: a new node in front of the list.
Push(s, list) == <<s>> \o list

\* gdl_pop of a slot's gdl_pos: the newest of the slot's nodes goes.
FirstIn(list, s) == CHOOSE i \in DOMAIN list : list[i] = s /\ \A j \in 1 .. i - 1 : list[j] # s
gdl_pop(s) == IF gdl_pos[s] = "node" THEN RemoveAt(gdl, FirstIn(gdl, s)) ELSE gdl

\* dl_insert, dl_remove_block: the per-inode lists hold a block at most once,
\* and are looked up by an inode number.
dl_insert(k, b) == [dirty_list EXCEPT ![k] = @ \cup {b}]
dl_remove_block(k, b) == [dirty_list EXCEPT ![k] = @ \ {b}]

\* pci_insert, pci_delete: nodes are inserted at the head of their bucket's
\* chain.  pci_delete has no predecessor for the head of a chain.
Bucket(b) == b % HashSize
pci_insert(b, s) ==
    /\ pci' = [pci EXCEPT ![b] = s]
    /\ pci_chain' = [pci_chain EXCEPT ![Bucket(b)] = <<b>> \o @]
pci_delete(b) ==
    /\ pci' = [pci EXCEPT ![b] = None]
    /\ pci_chain' = [pci_chain EXCEPT ![Bucket(b)] = RemoveAt(@, FirstIn(@, b))]
HeadOfChain(b) == pci_chain[Bucket(b)] # <<>> /\ Head(pci_chain[Bucket(b)]) = b

\* disk_write_block: the page of slot s goes to the block the slot caches.
disk_write_block(s) == disk' = [disk EXCEPT ![block_number[s]] = page_data[s]]

\* History: block b has been written back, for whichever inode wrote it.
WrittenBack(b) == unsynced' = [k \in Inodes |-> unsynced[k] \ {b}]

-----------------------------------------------------------------------------
\* The calls the bounds leave out: a GDL or a pin count beyond its bound.
WithinBounds(c) ==
    CASE c.fn = "write" -> Len(gdl) + 2 =< MaxGdl
      [] c.fn = "inc" -> c.block \in Pinnable /\ (pci[c.block] # None => pin_count[pci[c.block]] < MaxPin)
      [] c.fn = "dec" -> c.block \in Pinnable
      [] OTHER -> TRUE

\* A caller enters get_block, write_block, increase_pin_count,
\* decrease_pin_count or cache_fsync.
Call(c) ==
    /\ proc = "mounted"
    /\ op = Idle
    /\ WithinBounds(c)
    /\ op' = c
    /\ UNCHANGED <<proc, slotVars, indexVars, lru, free_list, dirty_list, gdl, disk, unsynced>>

Miss ==
    /\ proc = "mounted"
    /\ op.fn \in {"get", "write", "inc", "dec"}
    /\ pci[op.block] = None
Hit(fn) ==
    /\ proc = "mounted"
    /\ op.fn = fn
    /\ pci[op.block] # None

\* Mutant of GetHit: the entry's old LRU node is not popped.
GetHitKeepsNode ==
    /\ Hit("get")
    /\ lru' = Push(pci[op.block], lru)
    /\ op' = Idle
    /\ UNCHANGED <<proc, slotVars, indexVars, free_list, dirty_list, gdl, disk, unsynced>>

\* get_block on a hit: the entry moves to the front of the LRU list.
GetHit ==
    /\ Hit("get")
    /\ \E i \in DOMAIN lru :
        /\ lru[i] = pci[op.block]
        /\ lru' = Push(pci[op.block], RemoveAt(lru, i))
    /\ op' = Idle
    /\ UNCHANGED <<proc, slotVars, indexVars, free_list, dirty_list, gdl, disk, unsynced>>

\* Mutant of Load: the loaded entry is not linked into the LRU list.
LoadUnlinked ==
    /\ Miss
    /\ free_list # <<>>
    /\ LET s == Head(free_list) b == op.block IN
        /\ free_list' = Tail(free_list)
        /\ block_number' = [block_number EXCEPT ![s] = b]
        /\ inode_number' = [inode_number EXCEPT ![s] = op.inum]
        /\ page_data' = [page_data EXCEPT ![s] = disk[b]]
        /\ pci_insert(b, s)
    /\ op' = IF op.fn = "get" THEN Idle ELSE op
    /\ UNCHANGED <<proc, dirty_bit, pin_count, gdl_pos, lru, dirty_list, gdl, disk, unsynced>>

\* get_block on a miss: the head of the free list takes the block.
Load ==
    /\ Miss
    /\ free_list # <<>>
    /\ LET s == Head(free_list) b == op.block IN
        /\ free_list' = Tail(free_list)
        /\ dirty_bit' = [dirty_bit EXCEPT ![s] = FALSE]
        /\ pin_count' = [pin_count EXCEPT ![s] = 0]
        /\ block_number' = [block_number EXCEPT ![s] = b]
        /\ inode_number' = [inode_number EXCEPT ![s] = op.inum]
        /\ page_data' = [page_data EXCEPT ![s] = disk[b]]
        /\ lru' = Push(s, lru)
        /\ pci_insert(b, s)
    /\ op' = IF op.fn = "get" THEN Idle ELSE op
    /\ UNCHANGED <<proc, gdl_pos, dirty_list, gdl, disk, unsynced>>

\* Mutants of IsVictim: pins are ignored; only the tail is considered.
AnyTail(i) == i \in DOMAIN lru /\ i = Len(lru)
UnpinnedTail(i) == i \in DOMAIN lru /\ i = Len(lru) /\ pin_count[lru[i]] = 0

\* The position of get_block's victim: the last unpinned entry of the LRU
\* list.  When every entry is pinned the search never ends.
IsVictim(i) ==
    /\ i \in DOMAIN lru
    /\ pin_count[lru[i]] = 0
    /\ \A j \in i + 1 .. Len(lru) : pin_count[lru[j]] # 0

\* Mutants of Evict: the block stays in the index; a dirty page is dropped
\* without being written back.
EvictKeepsIndex(i) ==
    /\ Miss
    /\ free_list = <<>>
    /\ IsVictim(i)
    /\ lru' = RemoveAt(lru, i)
    /\ free_list' = Push(lru[i], free_list)
    /\ UNCHANGED <<proc, op, slotVars, indexVars, dirty_list, gdl, disk, unsynced>>
EvictDropsPage(i) ==
    /\ Miss
    /\ free_list = <<>>
    /\ IsVictim(i)
    /\ lru' = RemoveAt(lru, i)
    /\ free_list' = Push(lru[i], free_list)
    /\ pci_delete(block_number[lru[i]])
    /\ UNCHANGED <<proc, op, slotVars, dirty_list, gdl, disk, unsynced>>

\* Eviction on a miss without a free slot: a dirty victim is written back and
\* leaves the dirty lists.  Its type word is read after the page was freed, so
\* it may or may not look like a data block.
Evict(i) ==
    /\ Miss
    /\ free_list = <<>>
    /\ IsVictim(i)
    /\ LET s == lru[i] b == block_number[lru[i]] IN
        /\ lru' = RemoveAt(lru, i)
        /\ \/ /\ dirty_bit[s]
              /\ disk_write_block(s)
              /\ WrittenBack(b)
              /\ \E is_data \in BOOLEAN :
                    dirty_list' = IF is_data THEN dl_remove_block(inode_number[s], b) ELSE dirty_list
              /\ gdl' = gdl_pop(s)
              /\ gdl_pos' = [gdl_pos EXCEPT ![s] = "null"]
           \/ /\ ~dirty_bit[s]
              /\ UNCHANGED <<disk, unsynced, dirty_list, gdl, gdl_pos>>
        /\ pci_delete(b)
        /\ free_list' = Push(s, free_list)
    /\ UNCHANGED <<proc, op, dirty_bit, pin_count, block_number, inode_number, page_data>>

\* The other outcomes of an eviction: the read of the freed page is trapped,
\* or pci_delete, deleting the head of a chain, writes through an
\* uninitialised pointer.
EvictFault(i) ==
    /\ Miss
    /\ free_list = <<>>
    /\ IsVictim(i)
    /\ \/ /\ dirty_bit[lru[i]]
          /\ proc' = "read_freed_page"
       \/ /\ HeadOfChain(block_number[lru[i]])
          /\ proc' = "wild_prev"
    /\ IF dirty_bit[lru[i]] THEN disk_write_block(lru[i]) ELSE UNCHANGED disk
    /\ UNCHANGED <<op, slotVars, indexVars, lru, free_list, dirty_list, gdl, unsynced>>

\* Mutant of WriteHit: an inode that rewrites a dirty page is not recorded in
\* its dirty list.
WriteHitOnce ==
    /\ Hit("write")
    /\ LET s == pci[op.block] IN
        /\ page_data' = [page_data EXCEPT ![s] = op.page]
        /\ dirty_bit' = [dirty_bit EXCEPT ![s] = TRUE]
        /\ gdl' = Push(s, gdl)
        /\ gdl_pos' = [gdl_pos EXCEPT ![s] = "node"]
        /\ dirty_list' = IF op.page \in DataPages /\ ~dirty_bit[s]
                         THEN dl_insert(op.inum, op.block) ELSE dirty_list
    /\ unsynced' = IF op.page \in DataPages
                   THEN [unsynced EXCEPT ![op.inum] = @ \cup {op.block}] ELSE unsynced
    /\ op' = Idle
    /\ UNCHANGED <<proc, pin_count, block_number, inode_number, indexVars, lru, free_list, disk>>

\* write_block, once the block is cached: one GDL node for a dirty page, two
\* for a clean one, of which gdl_pos keeps the newer.
WriteHit ==
    /\ Hit("write")
    /\ LET s == pci[op.block] IN
        /\ page_data' = [page_data EXCEPT ![s] = op.page]
        /\ dirty_bit' = [dirty_bit EXCEPT ![s] = TRUE]
        /\ gdl' = Push(s, IF dirty_bit[s] THEN gdl ELSE Push(s, gdl))
        /\ gdl_pos' = [gdl_pos EXCEPT ![s] = "node"]
    /\ IF op.page \in DataPages
       THEN /\ dirty_list' = dl_insert(op.inum, op.block)
            /\ unsynced' = [unsynced EXCEPT ![op.inum] = @ \cup {op.block}]
       ELSE UNCHANGED <<dirty_list, unsynced>>
    /\ op' = Idle
    /\ UNCHANGED <<proc, pin_count, block_number, inode_number, indexVars, lru, free_list, disk>>

\* increase_pin_count, once the block is cached.
IncreasePin ==
    /\ Hit("inc")
    /\ pin_count' = [pin_count EXCEPT ![pci[op.block]] = @ + 1]
    /\ op' = Idle
    /\ UNCHANGED <<proc, dirty_bit, block_number, inode_number, page_data, gdl_pos>>
    /\ UNCHANGED <<indexVars, lru, free_list, dirty_list, gdl, disk, unsynced>>

\* Mutant of DecreasePin: the count is not checked for zero.
DecreasePinUnchecked ==
    /\ Hit("dec")
    /\ pin_count' = [pin_count EXCEPT ![pci[op.block]] = @ - 1]
    /\ op' = Idle
    /\ UNCHANGED <<proc, dirty_bit, block_number, inode_number, page_data, gdl_pos>>
    /\ UNCHANGED <<indexVars, lru, free_list, dirty_list, gdl, disk, unsynced>>

\* decrease_pin_count, once the block is cached.
DecreasePin ==
    /\ Hit("dec")
    /\ pin_count' = [pin_count EXCEPT ![pci[op.block]] = IF @ > 0 THEN @ - 1 ELSE @]
    /\ op' = Idle
    /\ UNCHANGED <<proc, dirty_bit, block_number, inode_number, page_data, gdl_pos>>
    /\ UNCHANGED <<indexVars, lru, free_list, dirty_list, gdl, disk, unsynced>>

-----------------------------------------------------------------------------
\* A caller writes into the page get_block gave it, before or without
\* write_block (*block_type = ..., memcpy into the page).
Poke(b, p) ==
    /\ proc = "mounted"
    /\ op = Idle
    /\ pci[b] # None
    /\ page_data' = [page_data EXCEPT ![pci[b]] = p]
    /\ UNCHANGED <<proc, op, dirty_bit, pin_count, block_number, inode_number, gdl_pos>>
    /\ UNCHANGED <<indexVars, lru, free_list, dirty_list, gdl, disk, unsynced>>

\* A caller writes the page through to the disk (disk_write_block).
Through(b) ==
    /\ proc = "mounted"
    /\ op = Idle
    /\ pci[b] # None
    /\ disk' = [disk EXCEPT ![b] = page_data[pci[b]]]
    /\ UNCHANGED <<proc, op, slotVars, indexVars, lru, free_list, dirty_list, gdl, unsynced>>

-----------------------------------------------------------------------------
\* Mutant of FsyncBlock: the page written back stays marked dirty.
FsyncBlockStaysDirty(b) ==
    /\ proc = "mounted"
    /\ op.fn = "fsync"
    /\ b \in dirty_list[op.inum]
    /\ pci[b] # None
    /\ disk_write_block(pci[b])
    /\ WrittenBack(b)
    /\ gdl' = gdl_pop(pci[b])
    /\ gdl_pos' = [gdl_pos EXCEPT ![pci[b]] = "null"]
    /\ dirty_list' = dl_remove_block(op.inum, b)
    /\ UNCHANGED <<proc, op, dirty_bit, pin_count, block_number, inode_number, page_data>>
    /\ UNCHANGED <<indexVars, lru, free_list>>

\* cache_fsync, one block of the inode's dirty list.
FsyncBlock(b) ==
    /\ proc = "mounted"
    /\ op.fn = "fsync"
    /\ b \in dirty_list[op.inum]
    /\ pci[b] # None
    /\ LET s == pci[b] IN
        /\ disk_write_block(s)
        /\ WrittenBack(block_number[s])
        /\ dirty_bit' = [dirty_bit EXCEPT ![s] = FALSE]
        /\ gdl' = gdl_pop(s)
        /\ gdl_pos' = [gdl_pos EXCEPT ![s] = "null"]
    /\ dirty_list' = dl_remove_block(op.inum, b)
    /\ UNCHANGED <<proc, op, pin_count, block_number, inode_number, page_data>>
    /\ UNCHANGED <<indexVars, lru, free_list>>

\* cache_fsync, a listed block that is not cached (index -1), or whose slot
\* was never written so that gdl_pop follows an uninitialised pointer.
FsyncFault(b) ==
    /\ proc = "mounted"
    /\ op.fn = "fsync"
    /\ b \in dirty_list[op.inum]
    /\ \/ /\ pci[b] = None
          /\ proc' = "index_minus_one"
          /\ UNCHANGED disk
       \/ /\ pci[b] # None
          /\ gdl_pos[pci[b]] = "unset"
          /\ proc' = "unset_gdl_pos"
          /\ disk_write_block(pci[b])
    /\ UNCHANGED <<op, slotVars, indexVars, lru, free_list, dirty_list, gdl, unsynced>>

\* Mutant of FsyncReturn: it returns with blocks left in the list.
FsyncReturnEarly ==
    /\ proc = "mounted"
    /\ op.fn = "fsync"
    /\ op' = Idle
    /\ UNCHANGED <<proc, slotVars, indexVars, lru, free_list, dirty_list, gdl, disk, unsynced>>

\* cache_fsync returns after dl_delete.
FsyncReturn ==
    /\ proc = "mounted"
    /\ op.fn = "fsync"
    /\ dirty_list[op.inum] = {}
    /\ op' = Idle
    /\ UNCHANGED <<proc, slotVars, indexVars, lru, free_list, dirty_list, gdl, disk, unsynced>>

-----------------------------------------------------------------------------
\* nbtrfs_destroy: cache_sync, then free_cache.
Unmount ==
    /\ proc = "mounted"
    /\ op = Idle
    /\ proc' = "unmounting"
    /\ UNCHANGED <<op, slotVars, indexVars, lru, free_list, dirty_list, gdl, disk, unsynced>>

\* Mutant of SyncNode: the node written back is not popped.
SyncNodeKept ==
    /\ proc = "unmounting"
    /\ gdl # <<>>
    /\ LET s == gdl[Len(gdl)] IN
        /\ disk_write_block(s)
        /\ WrittenBack(block_number[s])
        /\ dirty_bit' = [dirty_bit EXCEPT ![s] = FALSE]
        /\ gdl_pos' = [gdl_pos EXCEPT ![s] = "null"]
    /\ UNCHANGED <<proc, op, pin_count, block_number, inode_number, page_data>>
    /\ UNCHANGED <<indexVars, lru, free_list, dirty_list, gdl>>

\* cache_sync, one node: the oldest of the global dirty list.
SyncNode ==
    /\ proc = "unmounting"
    /\ gdl # <<>>
    /\ LET s == gdl[Len(gdl)] IN
        /\ gdl' = RemoveAt(gdl, Len(gdl))
        /\ disk_write_block(s)
        /\ WrittenBack(block_number[s])
        /\ dirty_bit' = [dirty_bit EXCEPT ![s] = FALSE]
        /\ gdl_pos' = [gdl_pos EXCEPT ![s] = "null"]
        /\ dirty_list' = IF page_data[s] \in DataPages
                         THEN dl_remove_block(inode_number[s], block_number[s])
                         ELSE dirty_list
    /\ UNCHANGED <<proc, op, pin_count, block_number, inode_number, page_data>>
    /\ UNCHANGED <<indexVars, lru, free_list>>

\* cache_sync found the list empty; free_cache.
SyncReturn ==
    /\ proc = "unmounting"
    /\ gdl = <<>>
    /\ proc' = "unmounted"
    /\ CacheGone

-----------------------------------------------------------------------------
\* What the running call does next, whatever its callers do.
Step ==
    \/ GetHit \/ Load \/ WriteHit \/ IncreasePin \/ DecreasePin
    \/ \E i \in DOMAIN lru : Evict(i) \/ EvictFault(i)
    \/ \E b \in Blocks : FsyncBlock(b) \/ FsyncFault(b)
    \/ FsyncReturn
    \/ SyncNode
    \/ SyncReturn

Next ==
    \/ Step
    \/ \E c \in Calls : Call(c)
    \/ \E b \in Blocks : Through(b) \/ \E p \in Pages : Poke(b, p)
    \/ Mount \/ Unmount \/ Kill

Spec == Init /\ [][Next]_vars

\* The single thread of the mount keeps executing the call it is in.
FairSpec == Spec /\ WF_vars(Step)
-----------------------------------------------------------------------------
\* Every variable has its type; the lists hold slots of the array only.
TypeOK ==
    /\ proc \in {"unmounted", "killed", "mounted", "unmounting"} \cup Faults
    /\ op \in Calls \cup {Idle}
    /\ dirty_bit \in [Slots -> BOOLEAN]
    /\ pin_count \in [Slots -> Nat]
    /\ block_number \in [Slots -> Blocks \cup {None}]
    /\ inode_number \in [Slots -> Inodes \cup {None}]
    /\ page_data \in [Slots -> Pages \cup {NoPage}]
    /\ gdl_pos \in [Slots -> {"unset", "null", "node"}]
    /\ pci \in [Blocks -> Slots \cup {None}]
    /\ pci_chain \in [Buckets -> Seq(Blocks)]
    /\ lru \in Seq(Slots)
    /\ free_list \in Seq(Slots)
    /\ dirty_list \in [Inodes -> SUBSET Blocks]
    /\ gdl \in Seq(Slots)
    /\ disk \in [Blocks -> Pages]
    /\ unsynced \in [Inodes -> SUBSET Blocks]

\* The slots that hold a block.
InUse == Range(lru)

\* The slots are partitioned by the LRU list and the free list, and neither
\* lists a slot twice: get_block's moves lose and duplicate no slot.
SlotsAccounted ==
    /\ IsInjective(lru)
    /\ IsInjective(free_list)
    /\ Range(free_list) = Slots \ InUse

\* The primary cache index and the slots agree (README "Maps block_number to
\* its array index/slot"): a block is found in the slot that caches it, every
\* slot in use is found, so no block is cached twice.
IndexConsistent ==
    /\ \A b \in Blocks : pci[b] # None => pci[b] \in InUse /\ block_number[pci[b]] = b
    /\ \A s \in InUse : block_number[s] \in Blocks /\ pci[block_number[s]] = s

\* A dirty page has a node in the global dirty list and knows it, whatever
\* evictions, fsyncs and repeated writes popped (README "Tracks all dirty
\* pages in the block cache"): cache_sync misses no dirty page.
DirtyTracked ==
    \A s \in InUse : dirty_bit[s] => s \in Range(gdl) /\ gdl_pos[s] = "node"

\* Nodes outlive the page they were pushed for, but between calls every one of
\* them names a slot that holds a page: cache_sync reads no empty slot.
GdlNamesPages == op = Idle => Range(gdl) \subseteq InUse

\* What write_block accepted as data of an inode and nobody wrote back is
\* cached, dirty and in that inode's dirty list, although entries are removed
\* by the inode that loaded the page and not by the one that wrote it: the
\* next cache_fsync of the inode will write it.
FsyncCovers ==
    \A k \in Inodes : \A b \in unsynced[k] :
        /\ b \in dirty_list[k]
        /\ pci[b] # None
        /\ dirty_bit[pci[b]]

\* cache_fsync returns only when nothing the inode wrote is still unwritten.
FsyncDurable ==
    [][op.fn = "fsync" /\ op' = Idle /\ proc' = "mounted" => unsynced[op.inum] = {}]_vars

\* A pinned page stays where it is until it is unpinned or the process ends
\* (types.h "Reference count for preventing eviction").
PinnedStays ==
    [][\A b \in Blocks :
        pci[b] # None /\ pin_count[pci[b]] > 0 /\ proc' \notin {"killed", "unmounted"}
            => pci'[b] = pci[b]]_vars

\* README "All known memory corruption and leaks have been snuffed out": the
\* cache reads no freed page, follows no pointer it never set, and takes
\* pci_lookup's -1 for no index.
NoMemoryFault == proc \notin Faults

-----------------------------------------------------------------------------
\* The store the callers see: a cached block has the contents of its page.
StoreMem == [b \in Blocks |-> IF pci[b] = None THEN disk[b] ELSE page_data[pci[b]]]
StoreMarked == {b \in Blocks : pci[b] # None /\ dirty_bit[pci[b]]}
StoreMode ==
    CASE proc = "unmounted" -> "clean"
      [] proc = "killed" -> "crashed"
      [] OTHER -> "up"

Store == INSTANCE BlockStore WITH
    mode <- StoreMode, mem <- StoreMem, marked <- StoreMarked

\* Slots, lists, evictions and reloads are invisible: the cache is a store
\* that loses no written block except in a crash, and none in an unmount.
ImplementsStore == Store!Spec

-----------------------------------------------------------------------------
\* A cache call returns, unless it runs into undefined behaviour.
CallReturns == (op # Idle) ~> (op = Idle \/ proc \in Faults)

\* Writing back the global dirty list ends, so an unmount does.
UnmountEnds == (proc = "unmounting") ~> (proc \in {"unmounted", "killed"})
=============================================================================
