------------------------------ MODULE FileMap -------------------------------
(***************************************************************************)
(* Where the pages of a file are: the inode table and the block maps of    *)
(* inode.c, as nbtrfs_write and nbtrfs_read (fuse.c) and _truncate         *)
(* (metadata-api.c) use them, on the single-threaded mount.  How blocks    *)
(* are allocated is in Allocator, whose alloc_page is here the choice of   *)
(* the lowest free block.                                                  *)
(*                                                                         *)
(* Every handler logs an entry, and initialize_journal_entry (journal.c)   *)
(* executes the entry it overwrites a second time, in the middle of the    *)
(* handler.  Journal has how the ring is kept on disk; here an entry has   *)
(* what its second execution does to block maps.  One that later calls     *)
(* have overtaken undoes them: the model takes that step, and ends there.  *)
(*                                                                         *)
(* A page of file data is abstracted to one value.  Double indirect blocks *)
(* are left out: the repository lists them as missing.                     *)
(***************************************************************************)
EXTENDS Integers, FiniteSets, FiniteSetsExt

CONSTANTS
    NInodes,        \* inodes the inode table has room for; inode 0 is the root
    NInodeBits,     \* bits of the inode bitmap
    NBlocks,        \* blocks of the disk
    Reserved,       \* blocks disk_format allocates: 0 .. Reserved - 1
    Direct,         \* direct block pointers of an inode, 12
    Ptrs,           \* pointers in a block, USABLE_BLOCK_SIZE / 8 = 511
    Values,         \* contents of a page of file data
    Zero,           \* the contents of a fresh page
    RingSize,       \* entries of the journal ring
    MaxIndex,       \* bound: the largest page index written
    MaxPages,       \* bound: the number of pages of one write
    MaxEntries      \* bound: no handler starts with more entries logged

ASSUME InodeAssumption == NInodes \in Nat \ {0} /\ NInodeBits \in Nat /\ NInodes =< NInodeBits
ASSUME BlockAssumption == NBlocks \in Nat /\ Reserved \in 1 .. NBlocks
ASSUME MapAssumption == Direct \in Nat \ {0} /\ Ptrs \in Nat /\ Direct < Ptrs
ASSUME ValueAssumption == Zero \notin Values
ASSUME BoundAssumption == MaxIndex \in 0 .. Ptrs + Direct /\ MaxPages \in Nat \ {0} /\ MaxEntries \in Nat
ASSUME RingAssumption == RingSize \in Nat \ {0}

VARIABLES
    proc,           \* "mounted", or what ended the model
    op,             \* the handler being executed
    log,            \* the journal ring
    head,           \* entries logged: journal_head before it is cut to the ring
    logging,        \* the entry the handler is about to log, or NoEntry
    ibitmap,        \* inode numbers marked in the inode bitmap
    inode,          \* the inode table
    bitmap,         \* blocks marked in the block bitmap
    contents,       \* what each block holds
    placed,         \* history: the block last placed at a page, not truncated or removed since
    shadow,         \* history: the pages written and not truncated since
    ran_out         \* history: alloc_page has failed

logVars == <<log, head, logging>>
vars == <<proc, op, logVars, ibitmap, inode, bitmap, contents, placed, shadow, ran_out>>

-----------------------------------------------------------------------------
Blocks == 0 .. NBlocks - 1
Inodes == 0 .. NInodes - 1
Indices == 0 .. MaxIndex
Slots == 0 .. RingSize - 1
Null == 0       \* a block pointer that is not set
None == "none"

Idle == [fn |-> "none"]
EmptyInode == [size |-> 0, direct |-> [i \in 0 .. Direct - 1 |-> Null], indirect |-> Null]
DataPage(v) == [kind |-> "data", val |-> v]
TablePage(ptr) == [kind |-> "table", ptr |-> ptr]
SuperPage == [kind |-> "super"]
EmptyTable == [k \in 0 .. Ptrs - 1 |-> Null]

NoEntry == [type |-> "none"]
\* An unused slot, or an entry marked synced: it is not executed again.
SyncedEntry == [type |-> "synced"]
WriteEntry(f, i, b) == [type |-> "WRITE", f |-> f, index |-> i, block |-> b]
TruncateEntry(n) == [type |-> "TRUNCATE", size |-> n]
OtherEntry == [type |-> "OTHER"]

\* The files: the inodes in use, other than the root directory.
Files == ibitmap \cap (1 .. NInodes - 1)

Init ==
    /\ proc = "mounted"
    /\ op = Idle
    /\ log = [k \in Slots |-> SyncedEntry] /\ head = 0 /\ logging = NoEntry
    /\ ibitmap = {0}
    /\ inode = [f \in Inodes |-> EmptyInode]
    /\ bitmap = 0 .. Reserved - 1
    /\ contents = [b \in Blocks |-> IF b = 0 THEN SuperPage ELSE DataPage(Zero)]
    /\ placed = [f \in Inodes |-> [i \in Indices |-> Null]]
    /\ shadow = [f \in Inodes |-> [i \in Indices |-> None]]
    /\ ran_out = FALSE

-----------------------------------------------------------------------------
\* inode_get_block: the block of page i of file f, or Null.
inode_get_block(f, i) ==
    IF i < Direct THEN inode[f].direct[i]
    ELSE IF i < Ptrs /\ inode[f].indirect # Null
         THEN contents[inode[f].indirect].ptr[i - Direct]
         ELSE Null

\* alloc_page: the lowest block that is not marked.
Free == Blocks \ bitmap

\* A handler goes on when it has no entry to log.
Ready == proc = "mounted" /\ logging = NoEntry
Starts == Ready /\ op = Idle /\ head < MaxEntries

-----------------------------------------------------------------------------
\* initialize_journal_entry: the entry takes the slot at the head, whose entry
\* is executed again unless it is marked synced.
Slot == head % RingSize
Logging == proc = "mounted" /\ logging # NoEntry
Logged ==
    /\ log' = [log EXCEPT ![Slot] = logging]
    /\ head' = head + 1
    /\ logging' = NoEntry
LogEntry ==
    /\ Logging
    /\ log[Slot] = SyncedEntry
    /\ Logged
    /\ UNCHANGED <<proc, op, ibitmap, inode, bitmap, contents, placed, shadow, ran_out>>

\* sync_entry, on an entry of the given type.
Redoing(type) == Logging /\ log[Slot].type = type

\* inode_set_block and inode_write: inode g of the table becomes node with block
\* b at page i.  The last case has no block for a table, or the index of
\* PageOverflow.
inode_set_block(g, node, i, b) ==
    \/ /\ i < Direct
       /\ inode' = [inode EXCEPT ![g] = [node EXCEPT !.direct[i] = b]]
       /\ UNCHANGED <<bitmap, contents>>
    \/ /\ i \in Direct .. Ptrs + Direct - 1
       /\ node.indirect # Null
       /\ contents' = [contents EXCEPT ![node.indirect].ptr[i - Direct] = b]
       /\ UNCHANGED <<inode, bitmap>>
    \/ /\ i \in Direct .. Ptrs + Direct - 1
       /\ node.indirect = Null
       /\ Free # {}
       /\ bitmap' = bitmap \cup {Min(Free)}
       /\ inode' = [inode EXCEPT ![g] = [node EXCEPT !.indirect = Min(Free)]]
       /\ contents' = [contents EXCEPT ![Min(Free)] = TablePage([EmptyTable EXCEPT ![i - Direct] = b])]
    \/ /\ i >= Direct
       /\ (node.indirect = Null /\ Free = {}) \/ i = Ptrs + Direct
       /\ inode' = [inode EXCEPT ![g] = node]
       /\ UNCHANGED <<bitmap, contents>>

\* Mutant of RedoWrite: the entry is executed on the page before its own.
RedoWriteOffByOne ==
    /\ Redoing("WRITE")
    /\ LET e == log[Slot] IN
        /\ inode_set_block(e.f, inode[e.f], IF e.index = 0 THEN 0 ELSE e.index - 1, e.block)
        /\ proc' = IF placed[e.f][e.index] = e.block THEN "mounted" ELSE "overtaken"
    /\ Logged
    /\ UNCHANGED <<op, ibitmap, placed, shadow, ran_out>>

\* inode_read, inode_set_block and inode_write with the number and the block of
\* the entry.  The inode of a removed file is zeroed, its number included, and
\* is written to inode 0.  The entry has been overtaken when its page was
\* truncated or got another block since, when its file was removed, or when its
\* block was never linked.
RedoWrite ==
    /\ Redoing("WRITE")
    /\ LET e == log[Slot] IN
        /\ inode_set_block(IF e.f \in Files THEN e.f ELSE 0, inode[e.f], e.index, e.block)
        /\ proc' = IF placed[e.f][e.index] = e.block THEN "mounted" ELSE "overtaken"
    /\ Logged
    /\ UNCHANGED <<op, ibitmap, placed, shadow, ran_out>>

\* _truncate of the file the path of the entry leads to by now, g, or of inode 0
\* when it leads to none.  Where the size is still the one logged nothing
\* changes; where it is not, the loop runs and the model ends behind it.
RedoTruncate(g) ==
    /\ Redoing("TRUNCATE")
    /\ LET n == log[Slot].size IN
        op' = IF inode[g].size = n THEN op
              ELSE [fn |-> "truncate", f |-> g, size |-> n, next |-> n, last |-> inode[g].size,
                    redo |-> TRUE]
    /\ Logged
    /\ UNCHANGED <<proc, ibitmap, inode, bitmap, contents, placed, shadow, ran_out>>

\* An entry about names and modes.  No block map changes when the names are
\* still as it left them; when they are not the model ends, and Namespace has
\* what the entry does.
RedoOther ==
    /\ Redoing("OTHER")
    /\ proc' \in {"mounted", "overtaken"}
    /\ Logged
    /\ UNCHANGED <<op, ibitmap, inode, bitmap, contents, placed, shadow, ran_out>>

-----------------------------------------------------------------------------
\* inode_allocate in nbtrfs_mknod: the first free number is marked; when the
\* table has no room for it inode_read fails, and the mark stays.  The entry is
\* logged afterwards.
Create ==
    /\ Starts
    /\ (0 .. NInodeBits - 1) \ ibitmap # {}
    /\ ibitmap' = ibitmap \cup {Min((0 .. NInodeBits - 1) \ ibitmap)}
    /\ logging' = OtherEntry
    /\ UNCHANGED <<proc, op, log, head, inode, bitmap, contents, placed, shadow, ran_out>>

\* A handler that logs and changes no block map: chmod, link and rename, an
\* unlink that is not of a last link, a mknod that fails, the WRITE entry of a
\* directory that gets a page in the course of a mknod or link.
LogOther ==
    /\ Starts
    /\ logging' = OtherEntry
    /\ UNCHANGED <<proc, op, log, head, ibitmap, inode, bitmap, contents, placed, shadow, ran_out>>

\* nbtrfs_unlink logs, then removes the last link of file f.
Unlink(f) ==
    /\ Starts
    /\ op' = [fn |-> "unlink", f |-> f]
    /\ logging' = OtherEntry
    /\ UNCHANGED <<proc, log, head, ibitmap, inode, bitmap, contents, placed, shadow, ran_out>>

\* inode_free, for the last link of a file: the inode is zeroed.
Remove ==
    /\ Ready
    /\ op.fn = "unlink"
    /\ ibitmap' = ibitmap \ {op.f}
    /\ inode' = [inode EXCEPT ![op.f] = EmptyInode]
    /\ placed' = [placed EXCEPT ![op.f] = [i \in Indices |-> Null]]
    /\ shadow' = [shadow EXCEPT ![op.f] = [i \in Indices |-> None]]
    /\ op' = Idle
    /\ UNCHANGED <<proc, logVars, bitmap, contents, ran_out>>

-----------------------------------------------------------------------------
\* nbtrfs_write enters: pages first .. last - 1 of file f get the value v.
Write(f, first, last, v) ==
    /\ Starts
    /\ op' = [fn |-> "write", f |-> f, next |-> first, last |-> last, val |-> v, pnum |-> Null]
    /\ UNCHANGED <<proc, logVars, ibitmap, inode, bitmap, contents, placed, shadow, ran_out>>

Writing ==
    /\ Ready
    /\ op.fn = "write"
    /\ op.next < op.last
NeedsPage ==
    /\ Writing
    /\ op.pnum = Null
    /\ inode_get_block(op.f, op.next) = Null

\* The page exists.
FindPage ==
    /\ Writing
    /\ op.pnum = Null
    /\ inode_get_block(op.f, op.next) # Null
    /\ op' = [op EXCEPT !.pnum = inode_get_block(op.f, op.next)]
    /\ UNCHANGED <<proc, logVars, ibitmap, inode, bitmap, contents, placed, shadow, ran_out>>

\* The WRITE entry of page b.  nbtrfs_write leaves its synced field as the stack
\* has it.
LogWrite(b) ==
    /\ logging' \in {WriteEntry(op.f, op.next, b), SyncedEntry}
    /\ UNCHANGED <<log, head>>

\* A new page, inode_set_block with a direct pointer, and the entry to log.
NewDirect ==
    /\ NeedsPage
    /\ op.next < Direct
    /\ Free # {}
    /\ LET b == Min(Free) IN
        /\ bitmap' = bitmap \cup {b}
        /\ contents' = [contents EXCEPT ![b] = DataPage(Zero)]
        /\ inode' = [inode EXCEPT ![op.f].direct[op.next] = b]
        /\ op' = [op EXCEPT !.pnum = b]
        /\ LogWrite(b)
        /\ placed' = [placed EXCEPT ![op.f][op.next] = b]
    /\ UNCHANGED <<proc, ibitmap, shadow, ran_out>>

\* The same with a pointer in the indirect block.
NewIndirect ==
    /\ NeedsPage
    /\ op.next \in Direct .. Ptrs + Direct - 1
    /\ inode[op.f].indirect # Null
    /\ Free # {}
    /\ LET b == Min(Free) t == inode[op.f].indirect IN
        /\ bitmap' = bitmap \cup {b}
        /\ contents' = [contents EXCEPT ![b] = DataPage(Zero), ![t].ptr[op.next - Direct] = b]
        /\ op' = [op EXCEPT !.pnum = b]
        /\ LogWrite(b)
        /\ placed' = [placed EXCEPT ![op.f][op.next] = b]
    /\ UNCHANGED <<proc, ibitmap, inode, shadow, ran_out>>

\* The same when the indirect block has to be allocated first.  Without a
\* block for it inode_set_block fails, which the caller ignores.
NewTable ==
    /\ NeedsPage
    /\ op.next \in Direct .. Ptrs + Direct
    /\ inode[op.f].indirect = Null
    /\ Free # {}
    /\ LET b == Min(Free) IN
        /\ op' = [op EXCEPT !.pnum = b]
        /\ LogWrite(b)
        /\ \/ /\ Free \ {b} # {}
              /\ op.next < Ptrs + Direct
              /\ placed' = [placed EXCEPT ![op.f][op.next] = b]
              /\ LET t == Min(Free \ {b}) IN
                    /\ bitmap' = bitmap \cup {b, t}
                    /\ inode' = [inode EXCEPT ![op.f].indirect = t]
                    /\ contents' = [contents EXCEPT
                            ![b] = DataPage(Zero),
                            ![t] = TablePage([EmptyTable EXCEPT ![op.next - Direct] = b])]
           \/ /\ Free = {b}
              /\ bitmap' = bitmap \cup {b}
              /\ contents' = [contents EXCEPT ![b] = DataPage(Zero)]
              /\ UNCHANGED <<inode, placed>>
    /\ ran_out' = (ran_out \/ Cardinality(Free) = 1)
    /\ UNCHANGED <<proc, ibitmap, shadow>>

\* inode_set_block takes index Ptrs + Direct for an indirect one: the pointer
\* is written past the end of the page of the indirect block, which exists or
\* has just been allocated.
PageOverflow ==
    /\ NeedsPage
    /\ op.next = Ptrs + Direct
    /\ Cardinality(Free) >= IF inode[op.f].indirect = Null THEN 2 ELSE 1
    /\ proc' = "page_overflow"
    /\ bitmap' = bitmap \cup {Min(Free)}
    /\ UNCHANGED <<op, logVars, ibitmap, inode, contents, placed, shadow, ran_out>>

\* alloc_page fails: nbtrfs_write returns what it has written so far, and
\* leaves the size of the file.
NoSpace ==
    /\ NeedsPage
    /\ Free = {}
    /\ op' = Idle
    /\ ran_out' = TRUE
    /\ UNCHANGED <<proc, logVars, ibitmap, inode, bitmap, contents, placed, shadow>>

\* The data is copied into the page.
StorePage ==
    /\ Writing
    /\ op.pnum # Null
    /\ contents' = [contents EXCEPT ![op.pnum] = DataPage(op.val)]
    /\ shadow' = [shadow EXCEPT ![op.f][op.next] = op.val]
    /\ op' = [op EXCEPT !.next = @ + 1, !.pnum = Null]
    /\ UNCHANGED <<proc, logVars, ibitmap, inode, bitmap, placed, ran_out>>

\* Mutant of WriteDone: the size of a file that has grown is not updated.
WriteDoneKeepsSize ==
    /\ Ready
    /\ op.fn = "write"
    /\ op.next = op.last
    /\ op' = Idle
    /\ UNCHANGED <<proc, logVars, ibitmap, inode, bitmap, contents, placed, shadow, ran_out>>

\* nbtrfs_write returns; the file has grown if it wrote past the end.
WriteDone ==
    /\ Ready
    /\ op.fn = "write"
    /\ op.next = op.last
    /\ inode' = [inode EXCEPT ![op.f].size = IF op.last > @ THEN op.last ELSE @]
    /\ op' = Idle
    /\ UNCHANGED <<proc, logVars, ibitmap, bitmap, contents, placed, shadow, ran_out>>

-----------------------------------------------------------------------------
\* nbtrfs_truncate logs, then enters _truncate with a new size of n pages.
Truncate(f, n) ==
    /\ Starts
    /\ op' = [fn |-> "truncate", f |-> f, size |-> n, next |-> n, last |-> inode[f].size,
              redo |-> FALSE]
    /\ logging' = TruncateEntry(n)
    /\ shadow' = [shadow EXCEPT ![f] = [i \in Indices |-> IF i < n THEN @[i] ELSE None]]
    /\ UNCHANGED <<proc, log, head, ibitmap, inode, bitmap, contents, placed, ran_out>>

Truncating(p) ==
    /\ Ready
    /\ op.fn = "truncate"
    /\ op.next < op.last
    /\ inode_get_block(op.f, op.next) = p

\* A hole, and a page with a direct pointer.
TruncHole ==
    /\ Truncating(Null)
    /\ op' = [op EXCEPT !.next = @ + 1]
    /\ UNCHANGED <<proc, logVars, ibitmap, inode, bitmap, contents, placed, shadow, ran_out>>
TruncDirect(p) ==
    /\ p # Null
    /\ Truncating(p)
    /\ op.next < Direct
    /\ bitmap' = bitmap \ {p}
    /\ inode' = [inode EXCEPT ![op.f].direct[op.next] = Null]
    /\ placed' = [placed EXCEPT ![op.f][op.next] = Null]
    /\ op' = [op EXCEPT !.next = @ + 1]
    /\ UNCHANGED <<proc, logVars, ibitmap, contents, shadow, ran_out>>

\* A page with an indirect pointer: inode_set_block with block 0 frees the
\* indirect block of the first of them and keeps the pointer to it, and writes
\* a data type word to "its" block, which is block 0, the superblock.
TruncIndirect(p) ==
    /\ p # Null
    /\ Truncating(p)
    /\ op.next >= Direct
    /\ LET t == inode[op.f].indirect IN
        /\ bitmap' = bitmap \ (IF op.next = Direct THEN {p, t} ELSE {p})
        /\ contents' = [contents EXCEPT ![t].ptr[op.next - Direct] = Null, ![0] = DataPage(Zero)]
    /\ proc' = "superblock_lost"
    /\ UNCHANGED <<op, logVars, ibitmap, inode, placed, shadow, ran_out>>

\* Mutant of TruncDone: the size becomes the index of the last page.
TruncDoneOffByOne ==
    /\ Ready
    /\ op.fn = "truncate"
    /\ op.next >= op.last
    /\ inode' = [inode EXCEPT ![op.f].size = op.size - 1]
    /\ op' = Idle
    /\ UNCHANGED <<proc, logVars, ibitmap, bitmap, contents, placed, shadow, ran_out>>

\* _truncate sets the size and writes the inode.
TruncDone ==
    /\ Ready
    /\ op.fn = "truncate"
    /\ op.next >= op.last
    /\ inode' = [inode EXCEPT ![op.f].size = op.size]
    /\ op' = Idle
    /\ proc' = IF op.redo THEN "overtaken" ELSE "mounted"
    /\ UNCHANGED <<logVars, ibitmap, bitmap, contents, placed, shadow, ran_out>>

-----------------------------------------------------------------------------
Next ==
    \/ LogEntry \/ RedoWrite \/ RedoOther
    \/ \E g \in Files \cup {0} : RedoTruncate(g)
    \/ Create \/ LogOther \/ Remove
    \/ \E f \in Files : Unlink(f)
    \/ \E f \in Files, first \in Indices, n \in 1 .. MaxPages, v \in Values :
            first + n - 1 =< MaxIndex /\ Write(f, first, first + n, v)
    \/ FindPage \/ NewDirect \/ NewIndirect \/ NewTable \/ PageOverflow \/ NoSpace
    \/ StorePage \/ WriteDone
    \/ \E f \in Files, n \in 0 .. MaxIndex + 1 : Truncate(f, n)
    \/ TruncHole \/ TruncDone
    \/ \E p \in Blocks : TruncDirect(p) \/ TruncIndirect(p)

Spec == Init /\ [][Next]_vars

-----------------------------------------------------------------------------
\* nbtrfs_read of page i: its value, or None past the end and in a hole.
nbtrfs_read(f, i) ==
    LET p == inode_get_block(f, i)
    IN  IF i < inode[f].size /\ p # Null THEN contents[p].val ELSE None

Tables == {inode[f].indirect : f \in Inodes} \ {Null}
\* The pointers of all files: (file, page index), and (file, -1) for tables.
References ==
    {r \in Inodes \X Indices : inode_get_block(r[1], r[2]) # Null}
        \cup {<<f, -1>> : f \in {g \in Inodes : inode[g].indirect # Null}}
Target(r) == IF r[2] = -1 THEN inode[r[1]].indirect ELSE inode_get_block(r[1], r[2])

\* Every variable has its type.
TypeOK ==
    /\ proc \in {"mounted", "superblock_lost", "page_overflow", "overtaken"}
    /\ op.fn \in {"none", "write", "unlink", "truncate"}
    /\ \A k \in Slots : log[k].type \in {"synced", "WRITE", "TRUNCATE", "OTHER"}
    /\ head \in Nat /\ logging.type \in {"none", "synced", "WRITE", "TRUNCATE", "OTHER"}
    /\ ibitmap \subseteq 0 .. NInodeBits - 1
    /\ inode \in [Inodes -> [size : Nat, direct : [0 .. Direct - 1 -> Blocks], indirect : Blocks]]
    /\ bitmap \subseteq Blocks
    /\ \A b \in Blocks : contents[b].kind \in {"data", "table", "super"}
    /\ placed \in [Inodes -> [Indices -> Blocks]]
    /\ shadow \in [Inodes -> [Indices -> Values \cup {None}]]
    /\ ran_out \in BOOLEAN

\* No two pointers of any two files lead to the same block, whether as data or
\* as indirect block, and each leads to a block marked in the bitmap, outside
\* the reserved ones: files that grow, shrink, are removed and fill the disk do
\* not come to share a page, also when the journal wraps in the middle of a
\* write and executes old entries again.  That ends with the first entry
\* executed again that later calls have overtaken: the WRITE entry of a page
\* truncated since restores the pointer to a freed block.
BlocksOwned ==
    proc = "mounted" =>
        /\ \A r, q \in References : r # q => Target(r) # Target(q)
        /\ \A r \in References : Target(r) \in bitmap \ (0 .. Reserved - 1)
        /\ \A t \in Tables : contents[t].kind = "table"

\* A file reads back what was written to it last, at every page a write
\* reported as written, for the indices inode_get_block and inode_set_block
\* agree on, until the disk has run full once or the journal executes again an
\* entry that later calls have overtaken: whatever other files did, and whatever
\* else was executed again in the middle of a write, no page is lost, shared, or
\* left over from a removed file.
ReadsBack ==
    proc = "mounted" /\ op = Idle /\ ~ran_out =>
        \A f \in Inodes, i \in Indices :
            i < Ptrs /\ shadow[f][i] # None => nbtrfs_read(f, i) = shadow[f][i]
=============================================================================
