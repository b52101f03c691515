------------------------------- MODULE BTree -------------------------------
(***************************************************************************)
(* The B-tree that indexes the entries of one directory (btr.c).  A node   *)
(* is one disk block: a leaf holds one key and its value, an inner node    *)
(* holds the arrays keys[] and children[] and the links parent,            *)
(* left_sibling and right_sibling.                                         *)
(*                                                                         *)
(* The arrays and the three links lie one after the other in the struct,   *)
(* and the code indexes one past an array in several places (keys[j + 1]   *)
(* in btree_remove_key, children[j + 1] in btree_insert_nonfull).  The     *)
(* model keeps them as one function `w' of words, so that such an index    *)
(* meets the next field, as it does in the program; an index past the last *)
(* word stops the program (it is built with -fsanitize=address).           *)
(*                                                                         *)
(* Every C function is an operator from a tree to a tree.  A tree is a     *)
(* record: n, the block contents; used, the allocated blocks; out, which   *)
(* is "fault" when the call crashed, recursed without end or went on with  *)
(* a node it had failed to read.  Handlers run one at a time on the        *)
(* single-threaded mount, so that each call is one step.  Nothing else     *)
(* reuses a freed block, and the cache does not evict a page in the middle *)
(* of a call.  A tree is followed up to its first fault or wrong search.   *)
(*                                                                         *)
(* RECURSIVE operators: this module is for TLC only.                       *)
(***************************************************************************)
EXTENDS Integers, FiniteSets, FiniteSetsExt, TLC

CONSTANTS
    MaxKeys,    \* MAX_KEYS, 250 in config.h
    Keys,       \* the hashes of the names, positive numbers
    Values,     \* what a leaf stores: an inode number or the root of a subtree
    NBlocks,    \* blocks 1 .. NBlocks can be allocated; block 0 is the superblock
    MaxHeld     \* bound: entries held at a time

ASSUME BTreeAssumption ==
    /\ MaxKeys \in Nat \ {0, 1}
    /\ Keys \subseteq Nat \ {0}
    /\ NBlocks \in Nat \ {0}
    /\ MaxHeld \in Nat

MinKeys == MaxKeys \div 2
Blocks == 1 .. NBlocks
Root == 1                       \* sb.btree_root: the first node created

\* The words of a node: keys[0 .. MaxKeys-1], children[0 .. MaxKeys], the links.
Parent == 2 * MaxKeys + 1
LeftSibling == 2 * MaxKeys + 2
RightSibling == 2 * MaxKeys + 3
Words == 0 .. RightSibling

KeyAt(x, i) == x.w[i]
ChildAt(x, i) == x.w[MaxKeys + i]

\* x with the words of f written over its own.
Put(x, f) == [x EXCEPT !.w = f @@ x.w]

NewNode(b, leaf) ==
    [blk |-> b, leaf |-> leaf, key |-> 0, value |-> 0, num |-> 0,
     w |-> [i \in Words |-> 0]]

\* A block that was never made a node: its block type is another one.
Blank == [blk |-> 0]

IsNode(t, b) == b \in Blocks /\ t.n[b] # Blank

Undefined == 0 - 1

\* The call does not return, or goes on with a node it could not read.
Fault(t) == [t EXCEPT !.out = "fault"]

-----------------------------------------------------------------------------
(* Node management. *)

FreeBlocks(t) == Blocks \ t.used
NextFree(t) == Min(FreeBlocks(t))       \* alloc_page takes the first clear bit

\* A leaf or inner node in the next free block.  alloc_page fails when there
\* is none, and the callers use the NULL they are given.
btree_node_create(t, leaf) ==
    IF FreeBlocks(t) = {} THEN Fault(t)
    ELSE LET b == NextFree(t)
         IN [t EXCEPT !.n[b] = NewNode(b, leaf), !.used = @ \cup {b}]

\* Mutant of btree_node_free: the block stays marked as allocated.
btree_node_leak(t, b) == t

\* The block keeps its contents.
btree_node_free(t, b) == [t EXCEPT !.used = @ \ {b}]

btree_node_write(t, x) == [t EXCEPT !.n[x.blk] = x]

\* The nodes of bs, read, given the parent p and written back.
Reparent(t, bs, p) ==
    IF \A b \in bs : IsNode(t, b)
    THEN [t EXCEPT !.n = [b \in Blocks |-> IF b \in bs THEN Put(@[b], Parent :> p)
                                           ELSE @[b]]]
    ELSE Fault(t)

-----------------------------------------------------------------------------
(* Walks down the tree.  d bounds the recursion: a path longer than the      *)
(* number of blocks runs in a cycle and never ends.                          *)

Depths == NBlocks + 1

RECURSIVE Search(_, _, _, _)
Search(t, b, key, d) ==
    IF d = 0 THEN Undefined
    ELSE IF ~ IsNode(t, b) THEN 0
    ELSE LET x == t.n[b]
             hits == {i \in 0 .. x.num - 1 : key <= KeyAt(x, i)}
             next == ChildAt(x, IF hits = {} THEN x.num ELSE Min(hits))
         IN IF x.leaf THEN (IF x.key = key THEN b ELSE 0)
            ELSE IF next = 0 THEN 0 ELSE Search(t, next, key, d - 1)

btree_search(t, key) == Search(t, Root, key, Depths)

Linked(x) == {i \in 0 .. x.num : ChildAt(x, i) # 0}

RECURSIVE FindMaximum(_, _, _)
FindMaximum(t, b, d) ==
    IF d = 0 \/ ~ IsNode(t, b) THEN Undefined
    ELSE LET x == t.n[b]
         IN IF x.leaf THEN x.key
            ELSE IF Linked(x) = {} THEN 0
            ELSE FindMaximum(t, ChildAt(x, Max(Linked(x))), d - 1)

btree_find_maximum(t, b) == FindMaximum(t, b, Depths)

RECURSIVE FindDepth(_, _, _)
FindDepth(t, b, d) ==
    IF d = 0 \/ ~ IsNode(t, b) THEN Undefined
    ELSE IF t.n[b].leaf \/ ChildAt(t.n[b], 0) = 0 THEN 0
    ELSE LET below == FindDepth(t, ChildAt(t.n[b], 0), d - 1)
         IN IF below = Undefined THEN Undefined ELSE below + 1

btree_find_depth(t, b) == FindDepth(t, b, Depths)

\* The node `steps' levels below x on the way to the place of key.
RECURSIVE Descend(_, _, _, _)
Descend(t, x, key, steps) ==
    LET before == {i \in Linked(x) : i < x.num}
        fits == {i \in before : key <= btree_find_maximum(t, ChildAt(x, i))}
        index == IF fits # {} THEN Min(fits)
                 ELSE IF before # {} THEN Max(before) + 1 ELSE 0
        next == IF ChildAt(x, index) # 0 THEN ChildAt(x, index)
                ELSE ChildAt(x, Max(Linked(x)))
    IN IF steps = 0 THEN x.blk
       ELSE IF \E i \in before :
                  i <= index /\ btree_find_maximum(t, ChildAt(x, i)) = Undefined
       THEN Undefined
       ELSE IF Linked(x) = {} THEN x.blk
       ELSE Descend(t, IF IsNode(t, next) THEN t.n[next] ELSE x, key, steps - 1)

btree_insertion_search(t, key) ==
    LET depth == btree_find_depth(t, Root)
    IN IF depth = Undefined THEN Undefined
       ELSE IF depth <= 1 THEN Root
       ELSE Descend(t, t.n[Root], key, depth - 1)
-----------------------------------------------------------------------------
(* Insertion. *)

\* keys[i] of the first `num' children, from the maximum of each subtree.
Maxima(t, x) ==
    [i \in {j \in Linked(x) : j < x.num} |-> btree_find_maximum(t, ChildAt(x, i))]

KeysFromChildren(t, x) == Put(x, Maxima(t, x))

MaximaDefined(t, x) == \A i \in DOMAIN Maxima(t, x) : Maxima(t, x)[i] # Undefined

\* Only the parent of x is updated, not the nodes above it.
btree_update_parent_keys(t, x) ==
    LET p == x.w[Parent]
    IN IF p = 0 THEN t
       ELSE IF ~ IsNode(t, p) \/ ~ MaximaDefined(t, t.n[p]) THEN Fault(t)
       ELSE btree_node_write(t, KeysFromChildren(t, t.n[p]))

\* Mutant of ChildPosition: past the first child only.
ChildPositionFirst(t, x, b) == IF ChildAt(x, 0) # 0 /\ t.n[ChildAt(x, 0)].leaf THEN 1 ELSE 0

\* The position of the leaf b among the children of x: past the last child that
\* is smaller, at most num_keys.
ChildPosition(t, x, b) ==
    LET key == t.n[b].key
        read == {j \in 0 .. x.num : \A i \in 0 .. j : ChildAt(x, i) # 0}
        Smaller(j) == btree_find_maximum(t, ChildAt(x, j)) < key
        moves == {j \in read : t.n[ChildAt(x, j)].leaf => Smaller(j)}
        last == Max(moves)
        pos == IF moves = {} THEN 0 ELSE IF Smaller(last) THEN last + 1 ELSE last
    IN IF \E j \in read : btree_find_maximum(t, ChildAt(x, j)) = Undefined
       THEN Undefined
       ELSE IF pos > x.num THEN x.num ELSE pos

\* Leaf b becomes a child of x, and x is written.  The shift writes
\* children[num_keys + 1], which is the parent link of a full node.
btree_insert_nonfull(t, x, b) ==
    LET pos == ChildPosition(t, x, b)
        first == MaxKeys + pos
        shifted == Put(x, [i \in first + 1 .. MaxKeys + x.num + 1 |-> x.w[i - 1]])
        spread == Put(shifted, [i \in pos + 1 .. x.num |-> shifted.w[i - 1]])
        placed == Put(Put(spread, pos :> t.n[b].key), first :> b)
    IN IF x.leaf THEN t
       ELSE IF pos = Undefined \/ MaxKeys + x.num + 1 \notin Words THEN Fault(t)
       ELSE btree_node_write(Reparent(t, {b}, x.blk), [placed EXCEPT !.num = @ + 1])

\* The words from..to of x, moved down to start at base.
Slice(x, from, to, base) == [i \in base .. base + to - from |-> x.w[from + i - base]]

ChildrenIn(x, from, to) == {ChildAt(x, i) : i \in from .. to} \ {0}

\* Two new inner nodes take over the children of the full root x.
btree_split_root(t, x) ==
    LET t1 == btree_node_create(t, FALSE)
        t2 == btree_node_create(t1, FALSE)
        a == NextFree(t)
        b == NextFree(t1)
        left == [Put(t2.n[a], (RightSibling :> b) @@ (Parent :> x.blk)
                     @@ Slice(x, MaxKeys, MaxKeys + MinKeys, MaxKeys))
                 EXCEPT !.num = MinKeys]
        right == [Put(t2.n[b], (LeftSibling :> a) @@ (Parent :> x.blk)
                      @@ Slice(x, MinKeys + 1, x.num - 1, 0)
                      @@ Slice(x, MaxKeys + MinKeys + 1, MaxKeys + x.num, MaxKeys))
                  EXCEPT !.num = x.num - MinKeys - 1]
        t3 == Reparent(Reparent(t2, ChildrenIn(x, 0, MinKeys), a),
                       ChildrenIn(x, MinKeys + 1, x.num), b)
        t4 == btree_node_write(btree_node_write(t3, KeysFromChildren(t3, left)),
                               KeysFromChildren(t3, right))
        root == [Put(x, (MaxKeys :> a) @@ (MaxKeys + 1 :> b)
                        @@ [i \in MaxKeys + 2 .. 2 * MaxKeys |-> 0]
                        @@ (0 :> btree_find_maximum(t4, a))
                        @@ (1 :> btree_find_maximum(t4, b))
                        @@ [i \in 2 .. MaxKeys - 1 |-> 0])
                 EXCEPT !.num = 2]
    IN IF Cardinality(FreeBlocks(t)) < 2 THEN Fault(t)
       ELSE IF t3.out # "ok" \/ ~ MaximaDefined(t3, left) \/ ~ MaximaDefined(t3, right)
               \/ Undefined \in {root.w[0], root.w[1]}
       THEN Fault(t)
       ELSE btree_node_write(t4, root)

\* A new node takes over the upper children of the full node x, whose parent is
\* p.  The caller's copies of p and x receive the new link and the shorter
\* arrays, but neither is written: what stays is the new node and the parent
\* links of the children.  (A full parent is split in turn; see Rebalance.)
btree_split_child(t, p, x) ==
    LET t1 == btree_node_create(t, FALSE)
        b == NextFree(t)
        right == [Put(t1.n[b], (LeftSibling :> x.blk) @@ (Parent :> p.blk)
                      @@ Slice(x, MinKeys + 1, x.num - 1, 0)
                      @@ Slice(x, MaxKeys + MinKeys + 1, MaxKeys + x.num, MaxKeys))
                  EXCEPT !.num = x.num - MinKeys - 1]
        t2 == Reparent(Reparent(btree_node_write(t1, right),
                                ChildrenIn(x, MinKeys + 1, x.num), b), {b}, p.blk)
    IN IF FreeBlocks(t) = {} \/ t2.out # "ok" THEN Fault(t)
       ELSE IF p.num >= MaxKeys THEN [t EXCEPT !.out = "rebalance"]
       ELSE IF btree_find_maximum(t2, b) = Undefined \/ ~ MaximaDefined(t2, p)
       THEN Fault(t)
       ELSE t2

\* A full node takes one more child than it has keys when the key is its largest.
TakesExtraChild(x, key) == KeyAt(x, MaxKeys - 1) < key /\ ChildAt(x, MaxKeys) = 0

btree_split(t, x) ==
    IF x.w[Parent] = 0 THEN btree_split_root(t, x)
    ELSE IF ~ IsNode(t, x.w[Parent]) \/ btree_find_maximum(t, x.blk) = Undefined
    THEN Fault(t)
    ELSE btree_split_child(t, t.n[x.w[Parent]], x)

\* Leaf b is linked below the node found for key.
LinkLeaf(t, key, b) ==
    LET target == btree_insertion_search(t, key)
        linked == btree_insert_nonfull(t, t.n[target], b)
    IN IF target = Undefined THEN Fault(t)
       ELSE IF linked.out # "ok" THEN linked
       ELSE btree_update_parent_keys(linked, linked.n[target])

btree_insert(t, key, value) ==
    LET b == NextFree(t)
        t1 == [btree_node_create(t, TRUE) EXCEPT !.n[b].key = key, !.n[b].value = value]
        target == btree_insertion_search(t1, key)
        x == t1.n[target]
        extra == Reparent(btree_node_write(t1, Put(x, 2 * MaxKeys :> b)), {b}, target)
        split == btree_split(t1, x)
    IN IF FreeBlocks(t) = {} \/ target = Undefined THEN Fault(t)
       ELSE IF x.num # MaxKeys THEN LinkLeaf(t1, key, b)
       ELSE IF TakesExtraChild(x, key)
       THEN btree_update_parent_keys(extra, extra.n[target])
       ELSE IF split.out # "ok" THEN split
       ELSE LinkLeaf(split, key, b)

-----------------------------------------------------------------------------
(* Deletion. *)

\* The node above the leaf of key, looked for from the block b down.
RECURSIVE LeafParent(_, _, _, _)
LeafParent(t, b, key, d) ==
    IF d = 0 \/ ~ IsNode(t, b) THEN Undefined
    ELSE LET x == t.n[b]
             above == {i \in 1 .. x.num : key <= KeyAt(x, i)}
             next == ChildAt(x, IF above = {} THEN 0 ELSE Max(above))
         IN IF x.leaf THEN b
            ELSE IF ~ IsNode(t, ChildAt(x, 0)) THEN Undefined
            ELSE IF t.n[ChildAt(x, 0)].leaf THEN b
            ELSE LeafParent(t, next, key, d - 1)

\* Mutant of WithoutChild: num_keys is decremented once too often.
WithoutChildTwice(x, c) == [Put(x, MaxKeys + c :> 0) EXCEPT !.num = @ - 2]

\* x without its child at position c.
WithoutChild(x, c) ==
    LET num == x.num - 1
        keys == Put(x, [i \in c .. num |-> x.w[i + 1]])
        children == Put(keys, [i \in MaxKeys + c .. MaxKeys + x.num |-> keys.w[i + 1]])
        last == IF c = num THEN Put(children, num :> 0) ELSE children
    IN [Put(last, MaxKeys + num + 1 :> 0) EXCEPT !.num = num]

\* Mutant of Rebalance: a tree with leaves right below the root is deep enough.
RebalanceShallow(t, x) == x.num < MinKeys /\ btree_find_depth(t, x.blk) > 0

\* The removal left x with fewer than MinKeys keys, and a sibling, a parent or
\* inner nodes below to rebalance with.
Rebalance(t, x) ==
    /\ x.num < MinKeys
    /\ \/ x.w[LeftSibling] # 0
       \/ x.w[RightSibling] # 0
       \/ x.w[Parent] # 0
       \/ btree_find_depth(t, x.blk) > 1

\* num_keys is unsigned: removing the extra child of a node that has no key
\* left makes it 65535, and the next write is past the end of the node.
\* The walk ends at the node above the leaf, and then goes up once more: a read
\* of the parent of a root is a read of block 0, fails, and changes nothing.
\* The code of borrowing, merging and promoting is not modelled: it is entered
\* with `out' = "rebalance", and NeverRebalances says that a tree in order never is.
btree_remove_key(t, b, key) ==
    LET leafParent == LeafParent(t, b, key, Depths)
        up == t.n[leafParent].w[Parent]
        x == IF IsNode(t, up) THEN t.n[up] ELSE t.n[leafParent]
        found == {i \in Linked(x) : t.n[ChildAt(x, i)].leaf /\ t.n[ChildAt(x, i)].key = key}
        y == WithoutChild(x, Min(found))
        t1 == btree_node_write(t, y)
    IN IF leafParent = Undefined \/ up \notin Blocks \cup {0} THEN Fault(t)
       ELSE IF \E i \in Linked(x) : ~ IsNode(t, ChildAt(x, i)) THEN Fault(t)
       ELSE IF found = {} THEN t
       ELSE IF x.num = 0 \/ MaxKeys + x.num + 1 \notin Words THEN Fault(t)
       ELSE IF Rebalance(t1, y) THEN [t1 EXCEPT !.out = "rebalance"]
       ELSE t1

btree_delete(t, key) ==
    LET leaf == btree_search(t, key)
        removed == btree_remove_key(t, t.n[leaf].w[Parent], key)
    IN IF leaf = 0 THEN t
       ELSE IF leaf = Undefined THEN Fault(t)
       ELSE IF removed.out # "ok" THEN removed
       ELSE btree_node_free(removed, leaf)

-----------------------------------------------------------------------------
VARIABLES
    tree,       \* the blocks: [n, used, out]
    held,       \* history: the map of the entries inserted and not deleted
    grown,      \* history: more than MaxKeys entries were held at some time
    pruned,     \* history: an entry was deleted after that
    damaged     \* history: a search went wrong at some time

vars == <<tree, held, grown, pruned, damaged>>

Init ==
    /\ tree = btree_node_create([n |-> [b \in Blocks |-> Blank], used |-> {}, out |-> "ok"],
                                FALSE)
    /\ held = <<>>
    /\ grown = FALSE
    /\ pruned = FALSE
    /\ damaged = FALSE

\* What a search of t finds is what m holds.
Finds(t, m) ==
    \A key \in Keys :
        LET b == btree_search(t, key)
        IN IF key \in DOMAIN m THEN b \in Blocks /\ t.n[b].key = key /\ t.n[b].value = m[key]
           ELSE b = 0

\* The callers insert a name only when a search does not find it.
Insert(key, value) ==
    /\ tree.out = "ok" /\ ~ damaged
    /\ key \notin DOMAIN held
    /\ Cardinality(DOMAIN held) < MaxHeld
    /\ btree_search(tree, key) = 0
    /\ tree' = btree_insert(tree, key, value)
    /\ held' = (key :> value) @@ held
    /\ grown' = (grown \/ Cardinality(DOMAIN held') > MaxKeys)
    /\ damaged' = (damaged \/ ~ Finds(tree', held'))
    /\ UNCHANGED pruned

Delete(key) ==
    /\ tree.out = "ok" /\ ~ damaged
    /\ key \in DOMAIN held
    /\ tree' = btree_delete(tree, key)
    /\ held' = [k \in DOMAIN held \ {key} |-> held[k]]
    /\ pruned' = grown
    /\ damaged' = (damaged \/ ~ Finds(tree', held'))
    /\ UNCHANGED grown

Next ==
    \/ \E key \in Keys, value \in Values : Insert(key, value)
    \/ \E key \in Keys : Delete(key)

Spec == Init /\ [][Next]_vars

-----------------------------------------------------------------------------
\* Every variable has its type; num_keys stays inside the node.
TypeOK ==
    /\ tree.used \subseteq Blocks
    /\ tree.out \in {"ok", "fault", "rebalance"}
    /\ \A b \in Blocks : IsNode(tree, b) =>
        /\ tree.n[b].num \in 0 .. MaxKeys + 3
        /\ tree.n[b].w \in [Words -> Nat]
    /\ DOMAIN held \subseteq Keys
    /\ \A key \in DOMAIN held : held[key] \in Values

\* A directory within one node: at most MaxKeys entries at any time, or one
\* more that came last and no deletion since.
OneNode == ~ grown \/ (~ pruned /\ Cardinality(DOMAIN held) <= MaxKeys + 1 /\ IsNode(tree, Root)
                       /\ tree.n[Root].num = MaxKeys)

\* While a directory fits one node, whatever insertions and deletions came
\* before, in any order of the keys, every entry held is found with its value,
\* no deleted one is, and no call faults (btree_insert, btree_delete,
\* btree_search).
SmallDirectoryIsMap == OneNode => tree.out = "ok" /\ Finds(tree, held)

\* The nodes that can be reached from b in d steps.
RECURSIVE Reach(_, _, _)
Reach(t, b, d) ==
    {b} \cup IF d = 0 \/ ~ IsNode(t, b) THEN {}
             ELSE UNION {Reach(t, ChildAt(t.n[b], i), d - 1) : i \in Linked(t.n[b])}

\* While a directory fits one node, the allocated blocks are exactly those the
\* root leads to, one for each entry: deletion returns the leaf it unlinks, and
\* no linked leaf is free.
BlocksAreLinked ==
    OneNode => /\ tree.used = Reach(tree, Root, 1)
               /\ Cardinality(tree.used) = 1 + Cardinality(DOMAIN held)

\* A tree whose searches are right never enters btree_borrow_*,
\* btree_merge_children or the split of a full parent: one-level trees have
\* nothing to borrow from, and btree_remove_key finds no leaf in deeper ones.
NeverRebalances == tree.out # "rebalance"

\* btr.h ("Supports insertion, deletion, and search operations"): every entry
\* that was inserted and not deleted is found, and no other.
TreeIsMap == tree.out = "ok" => Finds(tree, held)
=============================================================================
