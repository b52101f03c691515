# A TLA+ model of nbtrfs

nbtrfs is a FUSE file system in C: a memory-mapped disk image, a write-back
block cache, bitmaps, an inode table with block maps, directories kept in
B-trees, and a metadata journal that is replayed at mount. This directory holds
TLA+ modules translated from its source, the TLC configurations that check them
on small instances, and proofs that TLAPS checks. `PROJECT.json` lists, in
machine-readable form, which lines each definition stands for, what each run
checks, the mutants that show each property can fail, the hazards the properties
are for, and the disagreements between code and comments that the runs exhibit.

## 1. The system

| Component | Source | State | Operations |
|---|---|---|---|
| Block cache | `cache.c`, `lru.c`, `gdl.c`, `fl.c`, `dl.c`, `pci.c` | slots (dirty bit, pin count, block, inode, page), LRU list, free list, global dirty list (GDL), per-inode dirty lists, hash chains of the primary cache index (PCI) | `get_block`, `write_block`, pin/unpin, `cache_fsync`, `cache_sync`, `alloc_cache`, `free_cache` |
| Disk image | `disk.c` | blocks | `disk_read_block`, `disk_write_block` |
| Block allocation | `disk.c`, `bitmap.c`, `superblock.c` | block bitmap, `free_blocks` | `alloc_page`, `free_page`, `disk_format` |
| Inodes and block maps | `inode.c` | inode bitmap, inode table, indirect blocks | `inode_read/write/allocate/free`, `inode_get_block`, `inode_set_block` |
| Journal | `journal.c` | ring of entries, `journal_head` | `initialize_journal_entry`, `sync_entry`, `sync_journal`, `mark_journal_synced` |
| Metadata operations | `metadata-api.c` | - | `_mknod`, `_link`, `_unlink`, `_rename`, `_chmod`, `_truncate` |
| FUSE handlers | `fuse.c` | - | `nbtrfs_*`, `main` |
| Directories | `directory.c` | entries in directory pages | add, remove, list, exists |
| B-tree | `btr.c` | nodes in blocks | search, insert, split, borrow, merge, remove |
| Names | `string.c`, `hash.c` | - | path splitting, hash, `item_search` |

How they interact. A handler of `fuse.c` logs an entry (`initialize_journal_entry`)
and then carries the operation out (`metadata-api.c`), mostly in that order. The
operation reads and writes inodes, directory pages and bitmaps through
`get_block` and `write_block`; callers also write directly into the page
`get_block` returned. Journal entries, the superblock (when the journal writes
it) and the block bitmap go to the disk image at once; everything else stays in
the cache until an eviction, a `cache_fsync`, a write-through of its page, or the
`cache_sync` of a clean unmount. A process that is killed loses the cache; the
next mount replays the journal entries that are not marked `synced`.

What is hard here: lists and indexes that are updated by position and by two
different inode numbers over long call sequences; kills between any two of the
write-throughs of one operation; replay of entries that already took effect, in
the middle of normal operation when the ring wraps; copies of inode and
superblock that are written back after the original changed; ends of ranges
(bitmap words and pages, direct and indirect pointers); a full disk; pins that
keep every page in the cache; and, on the multi-threaded mount, unlocked
bitmaps and lists.

What makes each part correct:

- cache: no slot is lost or used twice, the index names the slot that holds the
  block, no dirty page is forgotten, an fsync that returns has written what its
  inode wrote, pinned pages stay, calls end - in sum, the cache is invisible
  except for what a crash loses;
- allocation: a block has one holder, also across kills; a failed allocation
  means a full disk; `free_blocks` is the number of free blocks;
- block maps: a page reads back as written, no two pointers share a block,
  truncation and removal free what they should and touch nothing else;
- journal: pending entries are executed once each, in order, none is lost; after
  a replay the metadata is what was logged last;
- names: a name leads to the file it was linked to, whatever was created, linked,
  renamed and removed before; the B-tree agrees with the directory page; two
  names share an inode only when one was linked to the other; a file that was
  created is there after a kill;
- B-tree: what was inserted and not deleted is found with its value, nothing else
  is; every block of the tree is linked once.

## 2. Modules

| Module | What it is |
|---|---|
| `BlockStore` | Abstract specification: what a cached block device promises its callers. |
| `BlockCache` | The cache, one action per path through its functions. `ImplementsStore` is the refinement of `BlockStore`. |
| `BlockCacheProofs` | Inductive invariant of the cache and the theorems that follow. |
| `BlockCacheRefinement` | The cache implements the store, proved. |
| `Allocator` | `alloc_page`, `free_page`, `disk_format` by any number of threads. |
| `AllocatorProofs` | Allocation is exact on one thread, proved. |
| `FileMap` | Inode table and block maps under write, read, truncate, create, remove. |
| `FileMapProofs` | Block maps are disjoint and files read back, proved. |
| `Journal` | The ring, the handlers that use it, replay and unmount, with kills. |
| `JournalProofs` | The ring is a queue, replay is complete and restores modes, proved. |
| `Namespace` | Names of the root directory: creation, link, rename, removal, their journal entries and replay, with a kill between any two writes. |
| `NamespaceProofs` | Tree, directory page and inodes agree with the names while nothing is executed again, proved. |
| `NamespaceTypes` | Type correctness of `Namespace` under kills, replays and wraps, proved. |
| `NamespaceRecovery` | Created files survive kills, wraps and replays, proved. |
| `BTree` | The tree of one directory: search, insertion with splits, removal, on the node layout of the code. |
| `MC*` | Instances of these for TLC. |

### BlockCache

The variables are the fields of `cache_entry_t`, each as a function of the slot,
and the lists as sequences (LRU, GDL, free list), sets (the per-inode lists,
which hold a block at most once) and functions (PCI). A page is one value; the
cache reads only its type word, so there are pages of type data and others. `op`
is the call the single thread is in. A miss of `get_block` is `Evict` (when no
slot is free) and `Load`; `write_block` and the pin calls load a missing block
the same way and continue with `WriteHit`, `IncreasePin` or `DecreasePin`.
`Poke` and `Through` are the direct page stores and the `disk_write_block` calls
of the cache's users. A kill can come between any two steps.

Undefined behaviour is a choice: reading the type word of a freed page gives
either answer or ends the process; unlinking the head of a hash chain through
the uninitialised `prev` either works (the value happened to be 0) or ends it.
The properties that must hold hold for the behaviours that survive. `unsynced`
is a history variable: the data blocks an inode wrote that were not written back.

### Allocator

Bitmap and superblock are cached pages: `bitmap`, `free_blocks`, and their
images on disk. A bit of the bitmap is a page and a position in it, as the code
addresses it: `alloc_page` counts its pages (`pbmn`) up while `ii` runs over the
blocks, `free_page` divides, and both compute the position in the page by
subtraction. A call is a sequence of steps of its thread: copy the superblock,
test bits one by one and go on to the next page where one begins, read the 64-bit
word, store it, write the superblock copy, mark the page dirty, write it through.
`held` and `lost` are
history variables: who has been given which block, and which blocks a kill
caught inside a call.

### FileMap

Sizes and offsets are in pages; a page of data is one value. The two functions
`inode_get_block` and `inode_set_block` keep their own bounds for the single
indirect range, which differ. `proc` leaves `"mounted"` where the code writes
over the superblock or past a page; what happens afterwards is not modelled.
`shadow` records what was written last to each page, `placed` the block that was
linked last to it and neither truncated nor removed since, `ran_out` that an
allocation failed.

Handlers log as the code does: `logging` is the entry a handler is about to log,
and the handler goes on when it is in the ring (`log`, `head`). For `nbtrfs_write`
that is in the middle of the write, after the new page was linked. The slot's old
entry is executed first, unless it is marked: a WRITE entry stores its pointer
again (`RedoWrite`), in inode 0 when its file is gone; a TRUNCATE entry runs the
loop of `_truncate` when the size of the file is no longer the one logged
(`RedoTruncate`); the other entries change no block map as long as the names are
what they left (`RedoOther`). How `synced` of a WRITE entry comes out is chosen.
The model takes every such step, and `proc` becomes `"overtaken"` with the first
entry that later calls have overtaken: a WRITE whose page was truncated, removed
or given another block since, or never got the block; a TRUNCATE of another size;
possibly any of the others. What is expected of the files afterwards nobody can
say. It takes no kill: with a ring of two, a write to one file,
its truncation, and a write to another file that gets the same block; logging the
latter stores the block in the first file again.

### Journal

The ring has `RingSize = calculate_journal_size() - 1` blocks, `head` is
`journal_head`. A handler advances step by step: execute the entry about to be
overwritten (`Prev`, the `Run...` steps, `Mark`), advance the head (`Advance`),
write the entry (`LogEntry`), carry the operation out. Replay and unmount are
rounds over the ring. Inodes have two copies, `mem` and `disk`; a write-through
takes the whole inode page along. `queue` is the history of entries logged and
not yet executed by the journal or marked, `committed` the mode last logged.
`synced` of a WRITE entry is not assigned by the handler and is chosen.

### Namespace

`mem` and `disk` are records of the pages that hold names: inode table, inode
bitmap, directory page with its `entry_count`, tree, and the root nodes of the
trees of subdirectories. A name is recorded twice, as an entry of the page and
as a leaf of the tree; the code changes the two at different moments and writes
them at others. `todo` is the list of steps that the call in progress has still
to take, with one action for each C function: `_rename` puts `_link` and
`_unlink` in front, `_unlink` puts `directory_remove_entry`, and so on, down to
the steps that write a page through. A step writes the disk at most once, so
that `Kill` between two steps is a kill between any two writes. Logging,
`sync_entry`, the wrap of the ring and the replay use the same list with
`write_through` set. An unmount marks the entries of the ring one by one
(`mark_journal_synced`) and then writes the cache (`cache_sync`), so that a kill
may come among the marks.

The ring is a queue and the tree a map from names to stacks of leaves. These are
the abstractions that `Journal` (`RingIsQueue`) and `BTree`
(`SmallDirectoryIsMap`) check of the detailed models; a stack, because insertion
does not look for its key first. `dict` records the names the calls gave out,
`calm` that there was no kill and no entry was executed again, `torn` that at or
after the first kill or wrap something else than a creation was in the ring or
called, `promised` the files created and not touched since. The kernel looks a path up
before it calls a handler; the guards of the handlers are that lookup
(`Resolves`). The root directory has its page from the start. When the inode of
the root directory is lost (`RootKept`) the model stops.

### BTree

Every function of `btr.c` is an operator from a tree to a tree. The arrays
`keys`, `children` and the three links are one function of words, because the
code indexes one past an array in several places and then meets the next field.
A call that would dereference NULL, leave the node, recurse without end or go on
with a node it failed to read ends in `"fault"`; one that enters the borrow, merge
and promote code or the split of a full parent ends in `"rebalance"`. A tree is
followed up to its first fault or its first wrong search. Nodes are recursive
structures and the operators are `RECURSIVE`, so this module is for TLC only.

## 3. Runs

| Run | Instance | Checks | Result |
|---|---|---|---|
| `cache_store` | 3 blocks, 2 slots, 1 bucket, 2 page types | `SlotsAccounted`, `IndexConsistent`, `DirtyTracked`, `ImplementsStore` | hold |
| `cache_fsync_pins` | 3 blocks, 2 slots, 2 inodes, one block pinned, fairness | `TypeOK`, `GdlNamesPages`, `FsyncCovers`, `FsyncDurable`, `PinnedStays`, `CallReturns`, `UnmountEnds` | hold |
| `cache_memory` | 2 blocks, 1 slot, 2 inodes | `NoMemoryFault` | violated |
| `alloc_one_thread` | 6 blocks, 2-bit words, 4-bit pages, counter modulo 8 | `TypeOK`, `HandedOutMarked`, `OnlyKillsLeak`, `NoDoubleAllocation`, `FailsOnlyWhenFull`, `CallsReturn` | hold |
| `alloc_two_threads` | the same, two threads | `NoDoubleAllocation` | violated |
| `file_map` | 2 files of up to 4 pages, 2 values, 3 free blocks, 1 direct pointer, an inode bitmap larger than the table, ring of 2, 5 entries | `TypeOK`, `ReadsBack`, `BlocksOwned` | hold |
| `journal_ring` | 1 file, ring of 3, all operations and kills, fairness | `TypeOK`, `RingIsQueue`, `ReplayComplete`, `LoopsEnd` | hold |
| `journal_modes` | 2 files on one inode page, ring of 2, chmod and truncate, kills while mounted or replaying | `ModeRecovered` | holds |
| `namespace` | 2 names, 5 inodes, ring of 3, 4 calls, 2 kills | `TypeOK`, `CalmIsMap`, `FilesAreDistinct`, `CalmListing`, `CreatedSurvives` | hold |
| `namespace_root` | 2 names, ring of 2, 4 calls, no kill | `RootKept` | violated |
| `btree_map` | nodes of 4 keys, 5 keys | `TypeOK`, `SmallDirectoryIsMap`, `BlocksAreLinked`, `NeverRebalances` | hold |
| `btree_split` | nodes of 4 keys, 6 keys | `TreeIsMap` | violated |

The violated ones are disagreements between the code and what its comments,
headers or README say; `findings` in `PROJECT.json` quotes both sides. Each
property that holds has a mutant: a plausible slip in one definition under
which TLC finds it violated.

Reading the results together: the lists and indexes of the cache are right, and
the single-threaded cache loses nothing but what a crash may lose, provided the
two uses of dead memory turn out benign. Allocation is right on one thread,
crash-safe up to leaked blocks, and unsafe on several. The block maps are right
within one indirect block's agreed range and wrong at its end and in truncating
it, and a wrap of the journal does not harm them before it executes an entry
that later calls have overtaken. The ring itself is a correct queue, and recovers chmods; what breaks
recovery is what is done with it: executing entries again that later operations
overtook, marking them before the data is safe, and writing back stale copies.
Names are right while nothing is executed again: links, renames and removals in
any order keep page, tree and inodes in step, although the reference count is
never lowered and a removal looks at the tree twice. Creations are safe against
any kills and any second execution of creations, since they are written through
and logged afterwards. What breaks names is again the second execution of other
entries, up to the loss of the root directory's inode, and removals on the
directory page that a kill left behind. The tree of a directory is right up to one node (250 entries) and the
extra child; from the first split on entries are lost.

Some properties say where they stop, because the code stops there. `ReadsBack`
holds for page indices below 511, where `inode_get_block` and `inode_set_block`
agree (a page from 511 to 522 is stored and not found again, and index 523 is
stored past the end of the page), and until the disk has run full once (a write
cut short does not update the size). `ReadsBack` and `BlocksOwned` hold through
wraps of the journal up to the first entry executed again that later calls have
overtaken (`FileMap` above): the WRITE entry of a truncated page brings back a
pointer to a block that may belong to another file by then, and a TRUNCATE entry
cuts what was written after it. `ModeRecovered` holds without writes and
unmounts: `nbtrfs_write` writes back the inode it copied before its log entry
executed a chmod again, and `nbtrfs_destroy` marks entries too early. `CallReturns`
holds while a slot can be unpinned: with every slot pinned the victim search of
`get_block` never ends. `CalmIsMap`, `FilesAreDistinct` and `CalmListing` hold up
to the first kill or wrap: a kill between the write of the directory page and
`btree_write` leaves a name that is listed and not found, on which
`nbtrfs_readdir` fails its assertion. `CreatedSurvives` makes no promise once a
removal, a link or a rename is in the ring at the first kill or wrap, or is called
after it; a kill among the marks of an unmount counts what the ring held when the
unmount began. Executed again, such an entry can undo a creation. Called on the pages a
kill left behind, a removal can free the inode of another file: a kill between
the write of the directory page and `btree_write` leaves an entry whose name path
lookup does not find, so that the name can be created again and has two entries.
Removals deactivate entries and reuse their places, until the first entry of the
name is an old one whose inode number has meanwhile been given to another file;
linking the name again and removing it makes `directory_remove_entry`, which takes
the first entry of the name, active or not, free that other file's inode.
(An attempt to prove the property without this
restriction failed there; TLC confirms it with one kill and 13 calls, more than
the run's bound.) `SmallDirectoryIsMap` and
`BlocksAreLinked` hold for one node: in a tree of two levels `btree_delete` frees
a leaf that stays linked. Removing these restrictions makes TLC show the
counterexamples. Other things the models show as they are and that no run asserts:
truncating a page of the indirect range writes over the type word of block 0; a
wrap of the ring undoes a later chmod; a kill inside a rename leaves the file
under two names; the tree root of a new directory is not on the disk before the
unmount, and the replay gives the directory a new, empty one; renaming a directory
gives it an empty tree; `free_blocks` is lowered by both
`alloc_page` and `free_page`, and after `disk_format` it counts every block; the
blocks of a removed file stay marked; and the first use of a journal block
writes it over block 0 until the superblock is written again, so that a kill in
between leaves an image that cannot be mounted.

### Bounds

Three blocks for two slots make every miss choose a victim by LRU order while
another page stays; one bucket puts every block in one chain, so heads and inner
nodes are both deleted. Two inodes are enough for a page loaded by one and
written by the other. `MaxGdl` bounds only how many writes are outstanding; three to five nodes allow
several nodes for one slot and nodes of both slots. `MaxPin = 1` suffices since only
zero and non-zero are told apart. Six blocks with two-bit words and four-bit
pages give word and page boundaries and a last page that is partly used; counter
modulo 8 lets `free_blocks` wrap. One direct pointer and two or three in the
indirect block put pages on both sides of each boundary; a journal ring of two
wraps with the third entry, and five entries let a wrap meet entries of either
file, in force and overtaken; two values, of which TLC uses the symmetry, tell the
pages of two files apart. Two or three ring
entries wrap after as many operations, so every wrap happens with kills around
it. Two names and four calls let a name be created, linked or renamed, removed
and created again; three ring entries let the fourth call wrap the ring, two
kills let the second interrupt the replay after the first, and five inodes are
enough for four creations. Nodes of four keys are the smallest that have two keys
on each side of a split; five keys fill a node and its extra child, the sixth
splits a node that was split before. `FileMap`, `Journal`, `Namespace` and `BTree`
runs do not check deadlock: `FileMap` ends at undefined behaviour, at an
overtaken entry and when its entries are used up, an image
without superblock cannot be mounted, `Namespace` ends when its calls are used up
or the root inode is lost, and `BTree` at the first fault.

### Fairness

`WF_vars(Step)` (`WF_vars(Step(t))` per thread in `Allocator`): the thread of a
mount that is in a call keeps executing it. Nothing is assumed of callers, of
unmounts, mounts or kills. The code's loops run on one thread without waiting
for anybody, so weak fairness of their steps is what the scheduler gives.

## 4. Proofs

All theorems hold for every value of the constants that meets the named
assumptions of the component's module, so for every size of disk, cache, ring,
page or directory and any number of files, blocks and names. `MaxGdl`, `MaxOps`
and the other bounds of the runs are constants too: the theorems hold whatever
they are. The assumptions are what the code's declarations give (numbers are
naturals, there is at least one slot, bucket, word bit, ring block, inode; the
reserved blocks are blocks of the disk; the direct pointers are fewer than the
pointers of an indirect block), that page types and "no value" markers are
distinct from real values, that the counter `free_blocks` can hold the number of
blocks, and, for `Namespace`, that names are not empty and fit one directory page,
the only one that is modelled.

| Module | Theorem | Statement |
|---|---|---|
| `BlockCacheProofs` | `TypeCorrect` | `Spec => []TypeOK` |
| | `SlotsNeverLost` | `Spec => []SlotsAccounted` |
| | `IndexAlwaysConsistent` | `Spec => []IndexConsistent` |
| | `DirtyAlwaysTracked` | `Spec => []DirtyTracked` |
| | `GdlAlwaysNamesPages` | `Spec => []GdlNamesPages` |
| | `FsyncAlwaysCovers` | `Spec => []FsyncCovers` |
| | `FsyncIsDurable` | `Spec => FsyncDurable` |
| | `PinnedPagesStay` | `Spec => PinnedStays` |
| `BlockCacheRefinement` | `CacheImplementsStore` | `Spec => Store!Spec` |
| `AllocatorProofs` | `AllocatorTypes` | `Spec => []TypeOK` |
| | `HandedOutStaysMarked` | `OneThread => (Spec => []HandedOutMarked)` |
| | `OnlyKillsLeakBlocks` | `OneThread => (Spec => []OnlyKillsLeak)` |
| | `NeverAllocatedTwice` | `OneThread => (Spec => NoDoubleAllocation)` |
| | `FailsOnlyOnFullDisk` | `OneThread => (Spec => FailsOnlyWhenFull)` |
| `JournalProofs` | `JournalTypes` | `Spec => []TypeOK` |
| | `JournalIsQueue` | `Spec => []RingIsQueue` |
| | `ReplayIsComplete` | `Spec => ReplayComplete` |
| | `ModesAreRecovered` | `ModeOps => (Spec => ModeRecovered)` |
| `FileMapProofs` | `FileMapTypes` | `Spec => []TypeOK` |
| | `FilesOwnTheirBlocks` | `Spec => []BlocksOwned` |
| | `FilesReadBack` | `Spec => []ReadsBack` |
| `NamespaceProofs` | `NamesAreTheMap` | `Spec => []CalmIsMap` |
| | `InodesAreNotReused` | `Spec => []FilesAreDistinct` |
| | `ListingIsComplete` | `Spec => []CalmListing` |
| `NamespaceTypes` | `NamespaceTyped` | `Spec => []TypeOK` |
| `NamespaceRecovery` | `CreationsSurvive` | `Spec => []CreatedSurvives` |

Five theorems carry a hypothesis on the constants, because the code needs it.
`OneThread` says that `Threads` has at most one member (a mount with `-s`): with
two, `alloc_two_threads` shows a block handed out twice. `ModeOps` says that only
`chmod` and `truncate` are called: with writes or unmounts TLC finds a lost mode
(see "Some properties say where they stop" above). Both are met by the instances
of the runs `alloc_one_thread` and `journal_modes`. The inductive invariants below
were checked with TLC on the instances of the runs before they were proved, except
`NInv` of the names, which quantifies over sets TLC cannot enumerate. (`SInv` of
`NamespaceRecovery` quantifies over `sub`, a block of a subtree root; TLC took it
from 0 .. 30.)

### Block cache

The invariants are not inductive by themselves: that an eviction
keeps the index consistent needs that the victim is in use, has a page and is in
its bucket's chain; that no dirty page loses its last GDL node needs that
`gdl_pos` says "node" only while the list has a node of that slot; that every
GDL node names a slot in use fails in the middle of a miss, when the evicted slot
is on the free list and still has nodes - but then it is the head of the free
list and the next step loads it. `IInv` is the conjunction of the stated
invariants with these facts (`PagesLoaded`, `ChainsComplete`, `GdlPosValid`,
`GdlSlots`, `UnmountIdle`). `InitInv` and one lemma per action show that it is
inductive; each lemma has one step per conjunct that the action can disturb.
The lemmas on lists give what pushing on and removing from one does to its range
and to its being injective. The refinement maps the contents of a block to its
page if it is cached and to the disk otherwise, and the mark to the dirty bit:
loads, hits, pins and clean evictions of unmodified pages stutter, dirty
evictions, fsync and sync steps are `Flush`, the drop of a page only modified in
place is `Forget`, and the end of `cache_sync` is `Stop`, where `GdlPosValid`
shows that an empty GDL leaves no dirty page.

### Block allocation

`HandedOutMarked` is about the bitmap on the disk, and a call changes the cached
one first. `IInv` says how far the two can be apart: outside the blocks under
change they are equal (`CacheMatchesDisk`); a block marked on the disk is held, in
the hands of a call, or was caught by a kill (`MarkedExplained`); the block of a
call is held by nobody (`ChosenNotHeld`); the 64-bit word a call has read is still
what the page holds (`WordCurrent`, which is what a second thread breaks); and the
search has passed marked blocks only (`PassedMarked`, for `FailsOnlyWhenFull`).
That the bit the search tests is the bit of block `ii` needs that the page it has
counted up to is the one `free_page` finds by division (`SearchPage`, and
`ChosenInRange` for the block chosen): `NextPage` shows from the uniqueness of
quotients that the quotient grows by one exactly where `ii` is a multiple of the
page size, and `PlaceInjective` that no two blocks have one bit.
`TypeOK` needs none of this and is proved for any number of threads.

### Journal

`RingIsQueue` is inductive only together with where the step under way stands
(`HeadStep`: an operation that is executed again is the pending entry at the head,
and a head that moves on leaves no pending entry behind) and with what the loop
over the ring has done (`RoundsDone`: the blocks of the finished rounds have
nothing to execute). The proof gives the queue an increasing enumeration of ring
positions from the head on and shows what marking the head, moving it by one and
overwriting the block behind it do to that enumeration. When the loop has gone
round once, `RoundsDone` says that the ring has no pending entry, hence the queue
is empty. For the modes, `ModesKept` says that the last `CHMOD` entry of a file in
the queue has the mode last logged, and that a file without one has that mode in
the cache and on the disk; executing entries in the order of the queue keeps it.

### Block maps

`BlocksOwned` counts references; the invariant states it pointer by pointer
(`PagesDistinct`, `TablesDistinct`, `PointersMarked`) and adds the page that
`nbtrfs_write` has allocated and not yet filled (`PageInHand`). A block that
`alloc_page` finds is unmarked, hence no pointer leads to it, hence linking it
keeps the pointers distinct; that storing in an indirect block changes no other
pointer needs that the indirect blocks are distinct from each other and from the
pages. `ReadsBack` adds `WrittenKept` (a page written is in its block, below the
size the file has or is going to have), `HandLinked` (the page in hand is where
the file's pointer leads) and `TruncateBehind` (a truncation only frees pages
behind the new size).

The entries of the journal are arbitrary but for their types (`LogShape`), so the
number of wraps does not matter. What makes a second execution harmless is
`Linked`: a block that was placed at a page which was neither truncated nor
removed since is still where `inode_set_block` would put it, in the direct or the
indirect pointers, and its file exists. Hence executing a WRITE entry that was not
overtaken stores the pointer that is there, and the inode that `nbtrfs_write`
copied before stays the one of the table. Where a TRUNCATE entry cuts a file
(`Cutting`) the pointers stay distinct, and only the contents are no longer
promised.

### Names

`CalmInv` says, while nothing was executed again, for each point of each call what
tree, directory page, `entry_count`, bitmap and inodes are relative to the names
before and after the call (`Creating`, `Linking`, `Unlinking`, with `Adding` for
`directory_add_entry`). Between calls they agree with the names (`Agree`). Two
facts of it carry the proof. The first entry of a name in the directory page is
its active one, so that `directory_remove_entry`, which takes the first, takes the
right one; deactivated entries keep their name and come later or are overwritten.
And an inode with two names has a `reference_count` other than 1, so that removing
one name does not free it; since the count is never lowered this is what keeps an
inode from being handed out while it has a name. The proof has one lemma for each
phase of a call and one for each call's start.

`TypeOK` of `Namespace` has to hold after kills as well, where page, tree and
`entry_count` no longer agree. Its substance is `entry_count`, which is unsigned
in the code and lowered by every removal: the invariant `NInv` describes what may
stand in the list of steps (`TodoOK`), above all that `directory_remove_entry`
comes directly after `directory_exists_entry` saw a count other than zero, that
`_mknod` comes directly after a look at the free inodes, and that an entry executed
again is still in the ring when it is marked.

`CreatedSurvives` has to hold for any kills and wraps. Its invariant `SInv` says,
while `torn` is false, where the three records of a promised file are: its leaf,
its bit and its inode are in the cache and on the disk (`PromisesKept`), so that a
kill takes none of them. An entry in the ring has an inode that is marked, names
itself, and belongs to no promised file but the entry's own (`EntryKept`), so that
executing it again (`Redoing`) writes only what is there already: a step that
loses no marked inode and no leaf, and writes the disk from the cache, keeps all
this whatever pages it writes (`Gentle`). For the creation in progress the
invariant lists its steps and which of its records have reached the disk (`Made`,
`Logged`), and that no entry in the ring has its name or its inode until its own
is added (`Fresh`): the inode is the first free one, and those of the entries are
marked. A removal, link or rename runs only while the mount is calm (`Changing`);
there the pages agree with the names by `CalmInv`, and `CallKeeps` shows that in
every phase of the call a file it does not name keeps its leaf, bit and inode.

### Model-checked only

- Liveness (`CallReturns`, `UnmountEnds`, `CallsReturn`, `LoopsEnd`): fairness is
  out of the prover's reach.
- `BTree`: built from recursive operators, about which the prover cannot reason.

## 5. Not modelled, and the plan

Not modelled:

- the double-indirect branches of the block maps (the repository lists double
  indirect blocks as missing);
- in directories: pages after the first, the allocation of the first page with
  its WRITE entry, the entries of directories below the root;
- in the B-tree: `btree_borrow_left`, `btree_borrow_right`,
  `btree_merge_children`, `btree_promote_root` and the split of a full parent
  (`NeverRebalances`: a tree in order does not get there), and helpers without a
  caller;
- in names: splitting of paths, the hash and its collisions; a creation that
  finds no free inode (`FileMap` has that allocation; its journal entry, with
  inode number 0, is left out); evictions between two writes of a call; a kill
  among the node writes of one `btree_write`; what a freed and reused block still
  holds of an older node; anything after the root inode is lost;
- handlers that only read (`access`, `open`), time stamps, owners, `bitmap_print`
  and `btree_print`, opening and mapping the image, and contents of pages at byte
  granularity (writes and truncations within a page);
- the multi-threaded cache: `get_block`, `write_block` and the lists without
  locks, with slot mutexes that are never initialised. Nearly every step is a
  data race there, and `alloc_two_threads` shows the shortest consequence.

Hard to test as well, outside the list of hazards because no property of these
models is about them: the global dirty list grows with every write until the
unmount; `disk_format` and `initialize_journal_entry` write back superblock
copies older than `free_blocks`, which only messages read; a removed file gives
no block back; `inode_allocate` marks a number the table has no room for and
leaves the mark (`Create` of `FileMap`); `_truncate` frees a page before it clears the pointer; `btree_insert` uses NULL on a full disk; a LINK
entry executed when its source is gone links the name to the root directory.

Plan: `CacheThreads`: the global lock and the slot mutexes under two threads, and
the lock that `btree_write` holds when it calls the cache.
