------------------------------ MODULE Namespace -----------------------------
(***************************************************************************)
(* The names of the root directory: creation, links, renames and removals  *)
(* (metadata-api.c, directory.c, hash.c) under their handlers (fuse.c),    *)
(* with their journal entries and the replay (journal.c), on the           *)
(* single-threaded mount, with a kill between any two writes to the disk.  *)
(*                                                                         *)
(* A name is recorded twice: in an entry of the directory page, which      *)
(* readdir lists, and in a leaf of the directory's B-tree, which path      *)
(* lookup searches.  Entries are files or directories; a directory has a   *)
(* B-tree of its own, of which the model keeps the root node.  What the    *)
(* directories below the root hold is not modelled.                        *)
(*                                                                         *)
(* mem is what the cache holds, disk what the image holds.  A page changes *)
(* in the cache; it reaches the disk when the code writes it through, or   *)
(* at unmount (the cache is large enough not to evict in between).  todo   *)
(* holds what the calls in progress have still to do; a step of it writes  *)
(* the disk at most once, and the process may be killed between any two.   *)
(*                                                                         *)
(* Journal shows that the ring of journal blocks is a queue (RingIsQueue), *)
(* and BTree that the tree of a small directory is a map                   *)
(* (SmallDirectoryIsMap); they are a queue and a map here.                 *)
(***************************************************************************)
EXTENDS Integers, Sequences, FiniteSets, FiniteSetsExt, SequencesExt

CONSTANTS
    Names,      \* names in the root directory
    NInodes,    \* inodes 0 .. NInodes - 1; 0 is the root directory's
    NSlots,     \* entries of the directory page, enough never to run out
    RingSize,   \* journal entries that fit the ring
    MaxOps,     \* bound: calls of the users
    MaxKills    \* bound: kills of the process

ASSUME NamespaceAssumption ==
    /\ NInodes \in Nat \ {0}
    /\ NSlots \in Nat \ {0} /\ RingSize \in Nat \ {0}
    /\ MaxOps \in Nat /\ MaxKills \in Nat

\* Names are not empty, and fit one directory page.
ASSUME NamesAssumption ==
    "none" \notin Names /\ IsFiniteSet(Names) /\ Cardinality(Names) =< NSlots

Inodes == 0 .. NInodes - 1
Slots == 1 .. NSlots
NoNode == -1                        \* in place of the inode a subtree root holds

\* inode_number, mode, reference_count and the first block pointer of an inode.
Zeroed == [ino |-> 0, mode |-> "none", refs |-> 0, ptr |-> 0]
RootInode == [ino |-> 0, mode |-> "dir", refs |-> 1, ptr |-> 1]
NoEntry == [name |-> "none", ino |-> 0, active |-> FALSE]

(***************************************************************************)
(* The pages: the inode table, the inode bitmap, the directory page with   *)
(* its entry_count, the tree, and the root nodes of the subtrees (the      *)
(* inode each holds, NoNode when the block is not a node).  A name has a   *)
(* stack of leaves in the tree: an insertion does not look for the key it  *)
(* inserts, a search finds the leaf inserted last.  Initially the root     *)
(* directory is empty and has its page, as after the first creation and    *)
(* removal on a new disk.                                                  *)
(***************************************************************************)
EmptyPages ==
    [inodes |-> [i \in Inodes |-> IF i = 0 THEN RootInode ELSE Zeroed],
     bits   |-> {0},
     page   |-> [j \in Slots |-> NoEntry],
     count  |-> 0,
     tree   |-> [n \in Names |-> <<>>],
     subs   |-> <<>>]

\* The root directory's inode is that of a directory, and has its page.
RootIntact(p) == p.inodes[0].mode = "dir" /\ p.inodes[0].ptr = 1

-----------------------------------------------------------------------------
(* What the code reads from the pages p. *)

HasLeaf(p, n) == p.tree[n] # <<>>
Leaf(p, n) == Head(p.tree[n])
SubRoot(p, k) == IF k \in DOMAIN p.subs THEN p.subs[k] ELSE NoNode

\* item_search: the inode a path leads to, 0 when it leads nowhere, and whether
\* it leads somewhere (nbtrfs_getattr).
item_search(p, n) ==
    IF ~ HasLeaf(p, n) THEN 0
    ELSE IF Leaf(p, n).type # "dir" THEN Leaf(p, n).value
    ELSE Max({0, SubRoot(p, Leaf(p, n).value)})

Resolves(p, n) ==
    /\ HasLeaf(p, n)
    /\ IF Leaf(p, n).type # "dir" THEN Leaf(p, n).value # 0
       ELSE SubRoot(p, Leaf(p, n).value) # NoNode

FreeInodes(p) == Inodes \ p.bits

Active(p) == {j \in Slots : p.page[j].active}
ActiveBefore(p, j) == Cardinality({k \in Active(p) : k < j})

directory_exists_entry(p, n) == p.count # 0 /\ \E j \in Active(p) : p.page[j].name = n

\* directory_list stops after entry_count entries.
Listed(p) == {p.page[j].name : j \in {k \in Active(p) : ActiveBefore(p, k) < p.count}}

\* Changes of the tree.
PushLeaf(p, n, leaf) == [p EXCEPT !.tree[n] = <<leaf>> \o @]
SetLeaf(p, n, leaf) == [p EXCEPT !.tree[n] = <<leaf>> \o Tail(@)]
PopLeaf(p, n) == [p EXCEPT !.tree[n] = Tail(@)]

-----------------------------------------------------------------------------
VARIABLES
    proc,       \* "down", "replaying", "mounted"
    mem, disk,  \* the pages in the cache and on the disk
    log,        \* the entries of the journal that are not marked, oldest first
    todo,       \* the steps the calls in progress have still to take
    call,       \* the handler in progress and what it is to achieve
    ops,        \* calls so far
    kills,      \* kills so far
    calm,       \* history: no kill so far, and no entry was executed again
    torn,       \* history: not only creations were logged or called at or after the
                \* first kill or wrap
    dict,       \* history: the names and the files they were given
    promised    \* history: files created and neither removed nor renamed since

history == <<calm, torn, dict, promised>>
vars == <<proc, mem, disk, log, todo, call, ops, kills, history>>

NoCall == [op |-> "none"]

Init ==
    /\ proc = "mounted"
    /\ mem = EmptyPages /\ disk = EmptyPages
    /\ log = <<>>
    /\ todo = <<>> /\ call = NoCall
    /\ ops = 0 /\ kills = 0
    /\ calm = TRUE /\ torn = FALSE
    /\ dict = <<>>
    /\ promised = {}

-----------------------------------------------------------------------------
(* The steps.  What the code does once the root inode is lost is not       *)
(* modelled.                                                               *)

Doing(step) == todo # <<>> /\ Head(todo).do = step /\ RootIntact(mem)
Arg == Head(todo)

\* The step leaves the pages p in the cache and the parts of them on the disk,
\* and next is to be done before the rest.  The block of a new subtree root is
\* marked as allocated on the disk, but nothing writes the node there.
Step(p, parts, next) ==
    /\ mem' = p
    /\ disk' = [f \in DOMAIN disk |->
                    IF f \in parts THEN p[f]
                    ELSE IF f = "subs"
                    THEN [k \in DOMAIN p.subs |->
                            IF k \in DOMAIN disk.subs THEN disk.subs[k] ELSE NoNode]
                    ELSE disk[f]]
    /\ todo' = next \o Tail(todo)
    /\ UNCHANGED <<proc, log, call, ops, kills, history>>

Through(parts, write_through) == IF write_through THEN parts ELSE {}

\* A step that only writes parts of the pages (disk_write_block).
Write(parts) == [do |-> "write", parts |-> parts]
WriteBlock == Doing("write") /\ Step(mem, Arg.parts, <<>>)

\* btree_write writes the nodes of the tree through, node by node; a kill among
\* them is not modelled.
NotWritten == Write({})         \* mutant: the nodes stay in the cache
btree_write == Write({"tree"})

-----------------------------------------------------------------------------
(* Inodes. *)

\* The place written is the one the inode's own number says.
ToWriteInode(node, write_through) ==
    [do |-> "inode_write", node |-> node, write_through |-> write_through]
inode_write ==
    /\ Doing("inode_write")
    /\ Step([mem EXCEPT !.inodes[Arg.node.ino] = Arg.node],
            Through({"inodes"}, Arg.write_through), <<>>)

\* inode_free clears the bit and the inode, then writes the inode and the bitmap.
Freed(p, i) == [p EXCEPT !.bits = @ \ {i}, !.inodes[i] = Zeroed]

-----------------------------------------------------------------------------
(* The directory page. *)

SetCount(count, parts) == [do |-> "count", count |-> count, parts |-> parts]
WriteCount == Doing("count") /\ Step([mem EXCEPT !.count = Arg.count], Arg.parts, <<>>)

\* The first inactive entry, or the one after entry_count active ones, is used.
ToAddEntry(n, i, type) == [do |-> "directory_add_entry", name |-> n, ino |-> i, type |-> type]
FreeSlot(p) == Min({k \in Slots : ~ p.page[k].active \/ ActiveBefore(p, k) = p.count})
WithEntry(p, n, i) == [p EXCEPT !.page[FreeSlot(p)] = [name |-> n, ino |-> i, active |-> TRUE]]
WithSubtree(p, i) == [p EXCEPT !.subs = Append(@, i)]

directory_add_entry ==
    /\ Doing("directory_add_entry")
    /\ LET p == IF Arg.type = "dir" THEN WithSubtree(mem, Arg.ino) ELSE mem
           leaf == [type |-> Arg.type,
                    value |-> IF Arg.type = "dir" THEN Len(p.subs) ELSE Arg.ino]
       IN Step(WithEntry(PushLeaf(p, Arg.name, leaf), Arg.name, Arg.ino), {"page", "count"},
               <<SetCount(mem.count + 1, {"page", "count"}), btree_write>>)

\* The first entry with the name is made inactive, active or not.  A file with
\* one link goes, with its leaf.
ToRemoveEntry(n, write_through) ==
    [do |-> "directory_remove_entry", name |-> n, write_through |-> write_through]
ToDeleteLeaf(n, parts) == [do |-> "btree_delete", name |-> n, parts |-> parts]
Removed(p, j) == [p EXCEPT !.page[j].active = FALSE]
CountTwoLess(p) == p.count - 2      \* mutant: counted twice
CountAsBefore(p) == p.count         \* mutant: not counted
CountLess(p) == p.count - 1

directory_remove_entry ==
    /\ Doing("directory_remove_entry")
    /\ LET j == Min({k \in Slots : mem.page[k].name = Arg.name})
           i == mem.page[j].ino
           through == Through({"page", "count"}, Arg.write_through)
           rest == <<Write({"page", "count"}), SetCount(CountLess(mem), through)>>
       IN IF mem.inodes[i].refs = 1
          THEN Step(Freed(Removed(mem, j), i), Through({"inodes"}, Arg.write_through),
                    <<Write(Through({"bits"}, Arg.write_through)),
                      ToDeleteLeaf(Arg.name, {"tree"}),
                      Write(Through({"tree"}, Arg.write_through))>> \o rest)
          ELSE Step(Removed(mem, j), {}, rest)

\* btree_delete of a leaf that btree_search finds.
btree_delete ==
    /\ Doing("btree_delete")
    /\ IF HasLeaf(mem, Arg.name) THEN Step(PopLeaf(mem, Arg.name), Arg.parts, <<>>)
       ELSE Step(mem, {}, <<>>)

\* btree_insert of a leaf that btree_search does not find; btree_write.
ToInsertLeaf(n, leaf) == [do |-> "btree_insert", name |-> n, leaf |-> leaf]
btree_insert ==
    /\ Doing("btree_insert")
    /\ Step(IF HasLeaf(mem, Arg.name) THEN mem ELSE PushLeaf(mem, Arg.name, Arg.leaf),
            {"tree"}, <<>>)

-----------------------------------------------------------------------------
(* Metadata operations. *)

\* inode_allocate, of which _mknod takes the first free inode.
_mknod ==
    /\ Doing("_mknod")
    /\ LET i == Min(FreeInodes(mem))
           node == [mem.inodes[i] EXCEPT !.ino = i, !.mode = Arg.mode, !.refs = 1]
       IN Step([mem EXCEPT !.bits = @ \cup {i}, !.inodes[i] = node], {"inodes"},
               <<Write({"bits"}), ToWriteInode(node, FALSE), ToAddEntry(Arg.name, i, Arg.mode)>>)

\* The second look at the tree takes the leaf of a file that keeps other links;
\* it is not written.
ToUnlink(n, write_through) == [do |-> "_unlink", name |-> n, write_through |-> write_through]
\* Mutant: no second look at the tree.
UnlinkOneLook ==
    /\ Doing("_unlink")
    /\ Step(mem, {}, IF directory_exists_entry(mem, Arg.name)
                     THEN <<ToRemoveEntry(Arg.name, Arg.write_through)>> ELSE <<>>)

_unlink ==
    /\ Doing("_unlink")
    /\ Step(mem, {},
            (IF directory_exists_entry(mem, Arg.name)
             THEN <<ToRemoveEntry(Arg.name, Arg.write_through)>> ELSE <<>>)
            \o <<ToDeleteLeaf(Arg.name, {})>>)

ToLink(from, to, write_through) ==
    [do |-> "_link", name |-> from, to |-> to, write_through |-> write_through]
LinkUncounted(inode) == inode       \* mutant: reference_count stays
LinkCounted(inode) == [inode EXCEPT !.refs = @ + 1]
_link ==
    /\ Doing("_link")
    /\ LET i == item_search(mem, Arg.name)
           inode == LinkCounted(mem.inodes[i])
           entry == mem.page[Min({j \in Active(mem) : mem.page[j].name = Arg.to})]
           \* An inode number is no block of a node.
           leaf == [type |-> inode.mode, value |-> IF inode.mode = "dir" THEN 0 ELSE entry.ino]
       IN IF directory_exists_entry(mem, Arg.to)
          THEN Step(mem, {}, <<ToWriteInode(inode, TRUE), ToInsertLeaf(Arg.to, leaf)>>)
          ELSE Step(mem, {}, <<ToAddEntry(Arg.to, i, inode.mode),
                               ToWriteInode(inode, Arg.write_through)>>)

\* A rename to a name that is taken fails.
ToRename(from, to, write_through) ==
    [do |-> "_rename", name |-> from, to |-> to, write_through |-> write_through]
_rename ==
    /\ Doing("_rename")
    /\ Step(mem, {},
            IF HasLeaf(mem, Arg.to) THEN <<>>
            ELSE <<ToLink(Arg.name, Arg.to, Arg.write_through),
                   ToUnlink(Arg.name, Arg.write_through)>>)

-----------------------------------------------------------------------------
(* The journal. *)

\* sync_entry: the entry is executed with write_through, and marked.
Mark == [do |-> "mark"]
ToSyncMknod(e) ==
    [do |-> "SyncMknod", name |-> e.name, mode |-> e.mode, ino |-> e.ino, sub |-> e.sub]
sync_entry(e) ==
    <<CASE e.type = "MKNOD" -> ToSyncMknod(e)
        [] e.type = "UNLINK" -> ToUnlink(e.name, TRUE)
        [] e.type = "LINK" -> ToLink(e.name, e.to, TRUE)
        [] e.type = "RENAME" -> ToRename(e.name, e.to, TRUE), Mark>>

\* The inode is read and written again, and the leaf of the name is made to lead
\* to it.
SyncMknod ==
    /\ Doing("SyncMknod")
    /\ Step(mem, {}, <<ToWriteInode([mem.inodes[Arg.ino] EXCEPT !.mode = Arg.mode], TRUE),
                       [Arg EXCEPT !.do = "SyncLeaf"]>>)

\* A directory whose subtree root is not on the disk gets a new one.
Synced(p, e) ==
    LET new == [type |-> e.mode, value |-> IF e.mode = "dir" THEN Len(p.subs) + 1 ELSE e.ino]
    IN IF ~ HasLeaf(p, e.name)
       THEN PushLeaf(IF e.mode = "dir" THEN WithSubtree(p, e.ino) ELSE p, e.name, new)
       ELSE IF Leaf(p, e.name).type # "dir"
       THEN SetLeaf(p, e.name, [Leaf(p, e.name) EXCEPT !.value = e.ino])
       ELSE IF SubRoot(p, e.sub) # NoNode
       THEN [SetLeaf(p, e.name, [type |-> "dir", value |-> e.sub]) EXCEPT !.subs[e.sub] = e.ino]
       ELSE SetLeaf(WithSubtree(p, e.ino), e.name, [type |-> "dir", value |-> Len(p.subs) + 1])
SyncLeaf == Doing("SyncLeaf") /\ Step(Synced(mem, Arg), {"tree"}, <<>>)

\* The ring holds another entry than a creation, or held one when the unmount
\* in progress began to mark its entries.
Mixed ==
    \/ \E e \in Range(log) : e.type # "MKNOD"
    \/ call.op = "destroy" /\ call.mixed /\ log # <<>>

MarkEntry ==
    /\ Doing("mark")
    /\ log' = Tail(log)
    /\ todo' = Tail(todo)
    /\ UNCHANGED <<proc, mem, disk, call, ops, kills, history>>

\* When the ring is full its oldest entry is executed again to make room.
ToLog(e) == [do |-> "journal", entry |-> e]
initialize_journal_entry ==
    /\ Doing("journal")
    /\ IF Len(log) = RingSize
       THEN /\ todo' = sync_entry(Head(log)) \o todo
            /\ calm' = FALSE
            /\ torn' = (torn \/ Mixed \/ Arg.entry.type # "MKNOD")
            /\ UNCHANGED <<proc, mem, disk, log, call, ops, kills, dict, promised>>
       ELSE /\ log' = Append(log, Arg.entry)
            /\ todo' = Tail(todo)
            /\ UNCHANGED <<proc, mem, disk, call, ops, kills, history>>

\* An entry for a creation is completed from a lookup when it is a directory, and
\* _truncate writes its inode through.
LogMknod ==
    /\ Doing("LogMknod")
    /\ LET i == item_search(mem, Arg.name)
           dir == Arg.mode = "dir"
       IN Step(mem, {},
               (IF dir THEN <<ToWriteInode(mem.inodes[i], TRUE)>> ELSE <<>>)
               \o <<ToLog([type |-> "MKNOD", name |-> Arg.name, mode |-> Arg.mode,
                           ino |-> IF dir THEN i ELSE call.ino,
                           sub |-> IF dir THEN Leaf(mem, Arg.name).value ELSE 0])>>)

-----------------------------------------------------------------------------
(* The handlers. *)

Without(f, S) == [n \in DOMAIN f \ S |-> f[n]]
With(f, n, v) == [m \in DOMAIN f \cup {n} |-> IF m = n THEN v ELSE f[m]]

\* A handler starts with the steps, and when it returns the names are those
\* of c.dict.
Idle == todo = <<>> /\ call = NoCall
Call(steps, c) ==
    /\ proc = "mounted" /\ Idle /\ RootIntact(mem)
    /\ ops < MaxOps /\ ops' = ops + 1
    /\ todo' = steps
    /\ call' = c
    /\ UNCHANGED <<proc, mem, disk, log, kills, calm, dict>>

Return ==
    /\ proc = "mounted" /\ todo = <<>> /\ call.op = "call"
    /\ call' = NoCall
    /\ dict' = call.dict
    /\ promised' = promised \cup call.promise
    /\ UNCHANGED <<proc, mem, disk, log, todo, ops, kills, calm, torn>>

\* nbtrfs_mknod executes first.  The kernel looks a path up before it calls a
\* handler.
nbtrfs_mknod(n, mode) ==
    LET i == Min(FreeInodes(mem)) IN
    /\ ~ Resolves(mem, n) /\ FreeInodes(mem) # {}
    /\ Call(<<[do |-> "_mknod", name |-> n, mode |-> mode],
              [do |-> "LogMknod", name |-> n, mode |-> mode]>>,
            [op |-> "call", ino |-> i,
             dict |-> With(dict, n, [ino |-> i, mode |-> mode, id |-> ops]),
             promise |-> IF mode = "file" THEN {n} ELSE {}])
    /\ promised' = promised \ {n}
    /\ UNCHANGED torn

\* The other handlers log first.
nbtrfs_unlink(n) ==
    /\ Resolves(mem, n)
    /\ Call(<<ToLog([type |-> "UNLINK", name |-> n]), ToUnlink(n, FALSE)>>,
            [op |-> "call", dict |-> Without(dict, {n}), promise |-> {}])
    /\ promised' = promised \ {n}
    /\ torn' = (torn \/ ~ calm)

nbtrfs_link(from, to) ==
    /\ Resolves(mem, from) /\ Leaf(mem, from).type # "dir"
    /\ ~ Resolves(mem, to)
    /\ Call(<<ToLog([type |-> "LINK", name |-> from, to |-> to]), ToLink(from, to, FALSE)>>,
            [op |-> "call", promise |-> {},
             dict |-> IF from \in DOMAIN dict THEN With(dict, to, dict[from]) ELSE dict])
    /\ promised' = promised \ {to}
    /\ torn' = (torn \/ ~ calm)

nbtrfs_rename(from, to) ==
    /\ from # to /\ Resolves(mem, from)
    /\ Call(<<ToLog([type |-> "RENAME", name |-> from, to |-> to]), ToRename(from, to, FALSE)>>,
            [op |-> "call", promise |-> {},
             dict |-> IF from \in DOMAIN dict /\ ~ HasLeaf(mem, to)
                      THEN Without(With(dict, to, dict[from]), {from}) ELSE dict])
    /\ promised' = promised \ {from, to}
    /\ torn' = (torn \/ ~ calm)

\* nbtrfs_destroy: mark_journal_synced marks the entries one by one, from the
\* oldest on; then cache_sync writes the pages.
nbtrfs_destroy ==
    /\ proc = "mounted" /\ Idle /\ RootIntact(mem)
    /\ ops < MaxOps /\ ops' = ops + 1
    /\ call' = [op |-> "destroy", mixed |-> Mixed]
    /\ UNCHANGED <<proc, mem, disk, log, todo, kills, history>>
mark_journal_synced ==
    /\ call.op = "destroy"
    /\ log # <<>>
    /\ log' = Tail(log)
    /\ UNCHANGED <<proc, mem, disk, todo, call, ops, kills, history>>
cache_sync ==
    /\ call.op = "destroy"
    /\ log = <<>>
    /\ disk' = mem
    /\ proc' = "down" /\ call' = NoCall
    /\ UNCHANGED <<mem, log, todo, ops, kills, history>>

\* main: sync_journal executes the entries; then the mount serves calls.
Mount ==
    /\ proc = "down"
    /\ proc' = "replaying"
    /\ UNCHANGED <<mem, disk, log, todo, call, ops, kills, history>>
sync_journal ==
    /\ proc = "replaying" /\ todo = <<>>
    /\ IF log # <<>> THEN todo' = sync_entry(Head(log)) /\ UNCHANGED proc
       ELSE proc' = "mounted" /\ UNCHANGED todo
    /\ UNCHANGED <<mem, disk, log, call, ops, kills, history>>

\* The process is killed: what the cache holds is gone.
Kill ==
    /\ proc # "down" /\ kills < MaxKills /\ RootIntact(mem)
    /\ kills' = kills + 1
    /\ proc' = "down" /\ todo' = <<>> /\ call' = NoCall
    /\ mem' = disk
    /\ calm' = FALSE
    /\ torn' = (torn \/ Mixed)
    /\ UNCHANGED <<disk, log, ops, dict, promised>>

Next ==
    \/ \E n \in Names, mode \in {"file", "dir"} : nbtrfs_mknod(n, mode)
    \/ \E n \in Names : nbtrfs_unlink(n)
    \/ \E from, to \in Names : nbtrfs_link(from, to)
    \/ \E from, to \in Names : nbtrfs_rename(from, to)
    \/ Return \/ nbtrfs_destroy \/ mark_journal_synced \/ cache_sync \/ Mount \/ sync_journal \/ Kill
    \/ WriteBlock \/ inode_write \/ WriteCount \/ btree_delete \/ btree_insert
    \/ directory_add_entry \/ directory_remove_entry
    \/ _mknod \/ _unlink \/ _link \/ _rename
    \/ SyncMknod \/ SyncLeaf \/ MarkEntry \/ initialize_journal_entry \/ LogMknod

Spec == Init /\ [][Next]_vars

-----------------------------------------------------------------------------
(* Properties. *)

Modes == {"none", "file", "dir"}
PagesOK(p) ==
    /\ p.inodes \in [Inodes -> [ino : Inodes, mode : Modes, refs : Nat, ptr : {0, 1}]]
    /\ p.bits \subseteq Inodes
    /\ p.page \in [Slots -> [name : Names \cup {"none"}, ino : Inodes, active : BOOLEAN]]
    /\ p.count \in Nat
    /\ \A n \in Names : p.tree[n] \in Seq([type : Modes, value : Nat])
    /\ p.subs \in Seq(Inodes \cup {NoNode})

\* The pages are what their C types say: above all entry_count, decreased for
\* every entry that directory_remove_entry matches, never goes below zero.
TypeOK ==
    /\ proc \in {"down", "replaying", "mounted"}
    /\ PagesOK(mem) /\ PagesOK(disk)
    /\ Len(log) <= RingSize
    /\ ops \in 0 .. MaxOps /\ kills \in 0 .. MaxKills
    /\ calm \in BOOLEAN /\ torn \in BOOLEAN
    /\ promised \subseteq DOMAIN dict /\ DOMAIN dict \subseteq Names

\* On a mount that was never killed and whose ring did not wrap, item_search is
\* the map the calls made: after any creations, links, renames and removals, and
\* over unmounts, a name leads to its file, marked and with its mode, and a name
\* that was removed leads nowhere (_unlink has to look at the tree twice).
CalmIsMap ==
    calm /\ proc = "mounted" /\ Idle =>
        \A n \in Names :
            /\ Resolves(mem, n) <=> n \in DOMAIN dict
            /\ n \in DOMAIN dict =>
                /\ item_search(mem, n) = dict[n].ino
                /\ dict[n].ino \in mem.bits
                /\ mem.inodes[dict[n].ino].mode = dict[n].mode

\* On such a mount two names share an inode only if one was linked to the other:
\* reference_count keeps inode_allocate from handing out the inode of a file that
\* still has a name, whichever of its names were removed or renamed.
FilesAreDistinct ==
    calm => \A n, m \in DOMAIN dict : dict[n].ino = dict[m].ino => dict[n].id = dict[m].id

\* On such a mount directory_list, which stops at entry_count, lists exactly the
\* names that item_search finds: the two records of a name agree, and
\* nbtrfs_readdir's assertion that getattr finds each listed name holds.
CalmListing ==
    calm /\ proc = "mounted" /\ Idle =>
        /\ Listed(mem) = {n \in Names : Resolves(mem, n)}
        /\ mem.count = Cardinality(Active(mem))

\* A file whose mknod returned is found after any kills, in the middle of other
\* creations, of wraps, replays and the unmount, as long as from the first kill or
\* wrap on the ring holds creations only and nothing else is called, and no kill
\* comes among the marks of an unmount that found something else.  (A removal or
\* a rename in the ring, executed again, can undo it.  One that is called on the
\* pages a kill left behind can free the inode of another file: the first entry
\* with a name, the one directory_remove_entry takes, may then be an old one.)
CreatedSurvives ==
    proc = "mounted" /\ Idle /\ RootIntact(mem) /\ ~ torn =>
        \A n \in promised :
            /\ Resolves(mem, n)
            /\ item_search(mem, n) = dict[n].ino
            /\ dict[n].ino \in mem.bits
            /\ mem.inodes[dict[n].ino].mode = "file"

\* superblock.h:13 has inode 0 as the "Root directory inode number": it stays the
\* inode of the root directory, with its directory page.  (It does not: sync_entry
\* of a MKNOD whose inode was freed since reads a zeroed inode, number 0 included,
\* and inode_write puts it where that number says.)
RootKept == RootIntact(mem)
=============================================================================
