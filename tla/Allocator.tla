----------------------------- MODULE Allocator ------------------------------
(***************************************************************************)
(* Block allocation: alloc_page, free_page and disk_format (disk.c) over   *)
(* the block bitmap (bitmap.c) and the free_blocks field of the superblock *)
(* (superblock.c).  Bitmap and superblock are pages of the block cache:    *)
(* the calls update the cached page in place, and a kill leaves only what  *)
(* was written to the disk image.                                          *)
(*                                                                         *)
(* Nothing locks a call: the threads of a multi-threaded mount interleave  *)
(* between any two accesses to a shared page, the read and the write of    *)
(* the 64-bit word in bitmap_put included.                                 *)
(***************************************************************************)
EXTENDS Integers, FiniteSets

CONSTANTS
    Threads,        \* the FUSE threads; one for fuse -s
    NBlocks,        \* disk->total_blocks
    Reserved,       \* blocks disk_format allocates: 0 .. Reserved - 1
    WordBits,       \* bits of a bitmap word, 64
    PageBits,       \* bits of a bitmap page, USABLE_BLOCK_SIZE
    Modulus         \* of the unsigned arithmetic on free_blocks, 2^64

ASSUME DiskAssumption == NBlocks \in Nat /\ Reserved \in 1 .. NBlocks
ASSUME BitmapAssumption == WordBits \in Nat \ {0} /\ PageBits \in Nat \ {0}
ASSUME ModulusAssumption == Modulus \in Nat /\ Modulus > NBlocks

VARIABLES
    proc,           \* "raw" (no file system), "down", "mounted"
    bitmap,         \* bits set in the cached bitmap pages
    free_blocks,    \* of the cached superblock
    dirty,          \* bitmap pages marked dirty by write_block
    disk_bitmap,    \* bits set in the bitmap pages of the disk image
    disk_free,      \* free_blocks of the disk image
    fn, pc,         \* per thread: the call it is in, and its next step
    ii,             \* per thread: the block under consideration
    pbmn,           \* per thread: the bitmap page it has got from the cache
    sb,             \* per thread: free_blocks of its copy of the superblock
    word,           \* per thread: the bitmap word bitmap_put has read
    held,           \* history: blocks handed out and not freed
    lost            \* history: blocks a kill caught in the middle of a call

pageVars == <<bitmap, free_blocks, dirty>>
diskVars == <<disk_bitmap, disk_free>>
callVars == <<fn, pc, ii, pbmn, sb, word>>
vars == <<proc, pageVars, diskVars, callVars, held, lost>>

-----------------------------------------------------------------------------
Blocks == 0 .. NBlocks - 1

\* The bitmap page of a block as free_page computes it (pages follow the
\* superblock), and the bit of block b in page p as both calls compute it.
Page(b) == 1 + b \div PageBits
Bit(p, b) == b - (p - 1) * PageBits
Pages == {Page(b) : b \in Blocks}

\* A bit of the bitmap is a page and a position in it.  A page has room for
\* more bits than the PageBits in use.
Places == Pages \X Blocks
Place(b) == <<Page(b), Bit(Page(b), b)>>
Marked(bits) == {b \in Blocks : Place(b) \in bits}

\* The bits of the word that l is in, and those of page p.
InWord(l) == {m \in Places : m[1] = l[1] /\ m[2] \div WordBits = l[2] \div WordBits}
InPage(p) == {m \in Places : m[1] = p}

\* The contents of a set of bits with those of region replaced by new.
Overwrite(bits, region, new) == (bits \ region) \cup (new \cap region)

\* The bit thread t works on.
At(t) == <<pbmn[t], Bit(pbmn[t], ii[t])>>

AllIdle == \A t \in Threads : pc[t] = "idle"

Init ==
    /\ proc = "raw"
    /\ bitmap = {} /\ free_blocks = 0 /\ dirty = {}
    /\ disk_bitmap = {} /\ disk_free = 0
    /\ fn = [t \in Threads |-> "none"]
    /\ pc = [t \in Threads |-> "idle"]
    /\ ii = [t \in Threads |-> 0]
    /\ pbmn = [t \in Threads |-> 1]
    /\ sb = [t \in Threads |-> 0]
    /\ word = [t \in Threads |-> {}]
    /\ held = {} /\ lost = {}

\* disk_format (mkfs, which has no cache): the metadata blocks and the root
\* node are allocated one by one, then the superblock is overwritten with the
\* copy read before, whose free_blocks is still total_blocks.
Format ==
    /\ proc = "raw"
    /\ proc' = "down"
    /\ disk_bitmap' = {Place(b) : b \in 0 .. Reserved - 1}
    /\ disk_free' = NBlocks
    /\ held' = 0 .. Reserved - 1
    /\ UNCHANGED <<pageVars, callVars, lost>>

\* disk_open and alloc_cache: the pages are read from the disk on first use.
Mount ==
    /\ proc = "down"
    /\ proc' = "mounted"
    /\ bitmap' = disk_bitmap
    /\ free_blocks' = disk_free
    /\ dirty' = {}
    /\ UNCHANGED <<diskVars, callVars, held, lost>>

-----------------------------------------------------------------------------
\* alloc_page up to its loop: the first bitmap page is got, the superblock copied.
AllocStart(t) ==
    /\ proc = "mounted"
    /\ pc[t] = "idle"
    /\ fn' = [fn EXCEPT ![t] = "alloc"]
    /\ pc' = [pc EXCEPT ![t] = "scan"]
    /\ ii' = [ii EXCEPT ![t] = 0]
    /\ pbmn' = [pbmn EXCEPT ![t] = 1]
    /\ sb' = [sb EXCEPT ![t] = free_blocks]
    /\ UNCHANGED <<proc, pageVars, diskVars, word, held, lost>>

\* The call of thread t returns and its locals die.
Return(t) ==
    /\ fn' = [fn EXCEPT ![t] = "none"]
    /\ pc' = [pc EXCEPT ![t] = "idle"]
    /\ ii' = [ii EXCEPT ![t] = 0]
    /\ pbmn' = [pbmn EXCEPT ![t] = 1]
    /\ sb' = [sb EXCEPT ![t] = 0]
    /\ word' = [word EXCEPT ![t] = {}]

\* The bitmap page of the next round: the loop goes on to the next one when ii
\* is a multiple of PageBits other than 0.
PageOfRound(t) == IF ii[t] % PageBits = 0 /\ ii[t] # 0 THEN pbmn[t] + 1 ELSE pbmn[t]

\* Mutants of Scan: a marked block that starts a bitmap page is not passed; the
\* loop stays in the first page.
ScanStuck(t) ==
    /\ pc[t] = "scan"
    /\ ii[t] < NBlocks
    /\ LET p == Page(ii[t]) IN
        /\ pbmn' = [pbmn EXCEPT ![t] = p]
        /\ IF <<p, Bit(p, ii[t])>> \in bitmap
           THEN ii' = [ii EXCEPT ![t] = IF @ # 0 /\ Bit(p, @) = 0 THEN @ ELSE @ + 1] /\ UNCHANGED pc
           ELSE pc' = [pc EXCEPT ![t] = "load"] /\ UNCHANGED ii
    /\ UNCHANGED <<proc, pageVars, diskVars, fn, sb, word, held, lost>>
ScanFirstPage(t) ==
    /\ pc[t] = "scan"
    /\ ii[t] < NBlocks
    /\ IF At(t) \in bitmap
       THEN ii' = [ii EXCEPT ![t] = @ + 1] /\ UNCHANGED pc
       ELSE pc' = [pc EXCEPT ![t] = "load"] /\ UNCHANGED ii
    /\ UNCHANGED <<proc, pageVars, diskVars, fn, pbmn, sb, word, held, lost>>

\* One round of the loop: the next bitmap page is got where one begins, and
\* bitmap_get tests the bit of block ii.
Scan(t) ==
    /\ pc[t] = "scan"
    /\ ii[t] < NBlocks
    /\ LET p == PageOfRound(t) IN
        /\ pbmn' = [pbmn EXCEPT ![t] = p]
        /\ IF <<p, Bit(p, ii[t])>> \in bitmap
           THEN ii' = [ii EXCEPT ![t] = @ + 1] /\ UNCHANGED pc
           ELSE pc' = [pc EXCEPT ![t] = "load"] /\ UNCHANGED ii
    /\ UNCHANGED <<proc, pageVars, diskVars, fn, sb, word, held, lost>>

\* The loop ends: alloc_page returns 0.
AllocFail(t) ==
    /\ pc[t] = "scan"
    /\ ii[t] = NBlocks
    /\ Return(t)
    /\ UNCHANGED <<proc, pageVars, diskVars, held, lost>>

\* free_page of a block the caller holds, up to bitmap_put.
FreeStart(t, b) ==
    /\ proc = "mounted"
    /\ pc[t] = "idle"
    /\ fn' = [fn EXCEPT ![t] = "free"]
    /\ pc' = [pc EXCEPT ![t] = "load"]
    /\ ii' = [ii EXCEPT ![t] = b]
    /\ pbmn' = [pbmn EXCEPT ![t] = Page(b)]
    /\ sb' = [sb EXCEPT ![t] = free_blocks]
    /\ held' = held \ {b}
    /\ UNCHANGED <<proc, pageVars, diskVars, word, lost>>

\* Mutant of StoreWord: bitmap_put sets the bit whatever its argument.
StoreAlwaysSets(t) ==
    /\ pc[t] = "store"
    /\ bitmap' = Overwrite(bitmap, InWord(At(t)), word[t] \cup {At(t)})
    /\ pc' = [pc EXCEPT ![t] = "super"]
    /\ UNCHANGED <<proc, free_blocks, dirty, diskVars, fn, ii, pbmn, sb, word, held, lost>>

\* bitmap_put reads the word and writes it with one bit changed.
LoadWord(t) ==
    /\ pc[t] = "load"
    /\ word' = [word EXCEPT ![t] = bitmap \cap InWord(At(t))]
    /\ pc' = [pc EXCEPT ![t] = "store"]
    /\ UNCHANGED <<proc, pageVars, diskVars, fn, ii, pbmn, sb, held, lost>>
StoreWord(t) ==
    /\ pc[t] = "store"
    /\ bitmap' = Overwrite(bitmap, InWord(At(t)),
                    IF fn[t] = "alloc" THEN word[t] \cup {At(t)} ELSE word[t] \ {At(t)})
    /\ pc' = [pc EXCEPT ![t] = "super"]
    /\ UNCHANGED <<proc, free_blocks, dirty, diskVars, fn, ii, pbmn, sb, word, held, lost>>

\* Mutant of WriteSuper: a signed counter.
WriteSuperSigned(t) ==
    /\ pc[t] = "super"
    /\ free_blocks' = sb[t] - 1
    /\ pc' = [pc EXCEPT ![t] = "mark"]
    /\ UNCHANGED <<proc, bitmap, dirty, diskVars, fn, ii, pbmn, sb, word, held, lost>>

\* sb.free_blocks--, in both calls, and superblock_write of the copy.
WriteSuper(t) ==
    /\ pc[t] = "super"
    /\ free_blocks' = (sb[t] + Modulus - 1) % Modulus
    /\ pc' = [pc EXCEPT ![t] = "mark"]
    /\ UNCHANGED <<proc, bitmap, dirty, diskVars, fn, ii, pbmn, sb, word, held, lost>>

\* write_block of the bitmap page.
MarkBitmap(t) ==
    /\ pc[t] = "mark"
    /\ dirty' = dirty \cup {pbmn[t]}
    /\ pc' = [pc EXCEPT ![t] = "through"]
    /\ UNCHANGED <<proc, bitmap, free_blocks, diskVars, fn, ii, pbmn, sb, word, held, lost>>

\* Mutants of Through: the first bitmap page is written whichever page was
\* changed; no page is written.
ThroughFirstPage(t) ==
    /\ pc[t] = "through"
    /\ disk_bitmap' = Overwrite(disk_bitmap, InPage(1), bitmap)
    /\ Return(t)
    /\ IF fn[t] = "alloc"
       THEN held' = held \cup {ii[t]} /\ lost' = lost \ {ii[t]}
       ELSE UNCHANGED <<held, lost>>
    /\ UNCHANGED <<proc, pageVars, disk_free>>
NotThrough(t) ==
    /\ pc[t] = "through"
    /\ Return(t)
    /\ IF fn[t] = "alloc"
       THEN held' = held \cup {ii[t]} /\ lost' = lost \ {ii[t]}
       ELSE UNCHANGED <<held, lost>>
    /\ UNCHANGED <<proc, pageVars, diskVars>>

\* disk_write_block of the bitmap page; the call returns.
Through(t) ==
    /\ pc[t] = "through"
    /\ disk_bitmap' = Overwrite(disk_bitmap, InPage(pbmn[t]), bitmap)
    /\ Return(t)
    /\ IF fn[t] = "alloc"
       THEN held' = held \cup {ii[t]} /\ lost' = lost \ {ii[t]}
       ELSE UNCHANGED <<held, lost>>
    /\ UNCHANGED <<proc, pageVars, disk_free>>

-----------------------------------------------------------------------------
\* A cache call of some thread evicts a dirty bitmap page.
Evict(t, p) ==
    /\ proc = "mounted"
    /\ pc[t] = "idle"
    /\ p \in dirty
    /\ disk_bitmap' = Overwrite(disk_bitmap, InPage(p), bitmap)
    /\ dirty' = dirty \ {p}
    /\ UNCHANGED <<proc, bitmap, free_blocks, disk_free, callVars, held, lost>>

\* The journal writes the superblock through (superblock_write).
SuperThrough(t) ==
    /\ proc = "mounted"
    /\ pc[t] = "idle"
    /\ disk_free' = free_blocks
    /\ UNCHANGED <<proc, pageVars, disk_bitmap, callVars, held, lost>>

\* The process is gone with its pages and its calls.
CacheGone ==
    /\ bitmap' = {} /\ free_blocks' = 0 /\ dirty' = {}
    /\ fn' = [t \in Threads |-> "none"]
    /\ pc' = [t \in Threads |-> "idle"]
    /\ ii' = [t \in Threads |-> 0]
    /\ pbmn' = [t \in Threads |-> 1]
    /\ sb' = [t \in Threads |-> 0]
    /\ word' = [t \in Threads |-> {}]

\* nbtrfs_destroy: cache_sync writes the dirty pages.
Unmount ==
    /\ proc = "mounted"
    /\ AllIdle
    /\ proc' = "down"
    /\ disk_bitmap' = Overwrite(disk_bitmap, UNION {InPage(p) : p \in dirty}, bitmap)
    /\ disk_free' = free_blocks
    /\ CacheGone
    /\ UNCHANGED <<held, lost>>

\* The process is killed between two steps.
Kill ==
    /\ proc = "mounted"
    /\ proc' = "down"
    /\ CacheGone
    /\ lost' = lost \cup {ii[t] : t \in {u \in Threads : pc[u] \notin {"idle", "scan"}}}
    /\ UNCHANGED <<diskVars, held>>

-----------------------------------------------------------------------------
Step(t) ==
    \/ Scan(t) \/ AllocFail(t)
    \/ LoadWord(t) \/ StoreWord(t) \/ WriteSuper(t) \/ MarkBitmap(t) \/ Through(t)

Next ==
    \/ Format \/ Mount \/ Unmount \/ Kill
    \/ \E t \in Threads :
        \/ Step(t)
        \/ AllocStart(t)
        \/ \E b \in held \ (0 .. Reserved - 1) : FreeStart(t, b)
        \/ \E p \in dirty : Evict(t, p)
        \/ SuperThrough(t)

Spec == Init /\ [][Next]_vars

\* A thread keeps executing the call it is in.
FairSpec == Spec /\ \A t \in Threads : WF_vars(Step(t))

-----------------------------------------------------------------------------
\* Every variable has its type; free_blocks is an unsigned word.
TypeOK ==
    /\ proc \in {"raw", "down", "mounted"}
    /\ bitmap \subseteq Places /\ disk_bitmap \subseteq Places
    /\ free_blocks \in 0 .. Modulus - 1 /\ disk_free \in 0 .. Modulus - 1
    /\ dirty \subseteq Pages
    /\ fn \in [Threads -> {"none", "alloc", "free"}]
    /\ pc \in [Threads -> {"idle", "scan", "load", "store", "super", "mark", "through"}]
    /\ ii \in [Threads -> 0 .. NBlocks]
    /\ pbmn \in [Threads -> Pages]
    /\ sb \in [Threads -> 0 .. Modulus - 1]
    /\ word \in [Threads -> SUBSET Places]
    /\ held \subseteq Blocks /\ lost \subseteq Blocks

\* A block alloc_page has handed out is marked in the bitmap of the disk image
\* until free_page is called: a kill at any point, and the next mount, find it
\* allocated.
HandedOutMarked == held \subseteq Marked(disk_bitmap)

\* alloc_page ("Allocate a free block from the filesystem") never returns a
\* block that somebody holds, whatever kills and remounts came before.
NoDoubleAllocation ==
    [][\A t \in Threads :
        pc[t] = "through" /\ fn[t] = "alloc" /\ pc'[t] = "idle" /\ proc' = "mounted"
            => ii[t] \notin held]_vars

\* alloc_page gives up only when every block is marked where free_page would
\* clear its mark: counting pages up at each multiple of PageBits, the loop
\* tests the bit of every block and never one of another block or of the unused
\* end of a page.
FailsOnlyWhenFull ==
    [][\A t \in Threads : pc[t] = "scan" /\ pc'[t] = "idle" /\ proc' = "mounted"
            => Marked(bitmap) = Blocks]_vars

\* Between calls the bitmap is exact: the bits set are those of the blocks held
\* and of blocks a kill caught in the middle of alloc_page or free_page, and
\* none is set outside the part of a page that is in use.
OnlyKillsLeak ==
    proc = "mounted" /\ AllIdle =>
        held \subseteq Marked(bitmap) /\ bitmap \subseteq {Place(b) : b \in held \cup lost}

\* The searches of alloc_page end: every call returns.
CallsReturn == \A t \in Threads : (pc[t] # "idle") ~> (pc[t] = "idle")
=============================================================================
