------------------------- MODULE NamespaceRecovery --------------------------
(***************************************************************************)
(* Creations survive kills: for any number of names, inodes and calls and  *)
(* any size of the ring, a file whose mknod returned is found on every     *)
(* later mount, as long as only creations follow the first kill or wrap.   *)
(***************************************************************************)
EXTENDS NamespaceTypes

-----------------------------------------------------------------------------
(***************************************************************************)
(* What the pages keep of a file n with inode i.  Its three records are on *)
(* three pages, which reach the disk at different times.                   *)
(***************************************************************************)
LeafKept(p, n, i) == HasLeaf(p, n) /\ Leaf(p, n).type = "file" /\ Leaf(p, n).value = i
NodeKept(p, i, mode) == p.inodes[i].ino = i /\ p.inodes[i].mode = mode
FileKept(p, n, i) == LeafKept(p, n, i) /\ i \in p.bits /\ NodeKept(p, i, "file")

PromisesKept ==
    \A n \in promised :
        /\ dict[n].ino \in Inodes \ {0} /\ dict[n].mode = "file"
        /\ FileKept(mem, n, dict[n].ino) /\ FileKept(disk, n, dict[n].ino)

\* To execute the creation e again does no harm: its inode was not given to
\* another file, and its name leads to it or is none of a promised file.
Marks(p, i) == i \in p.bits /\ p.inodes[i].ino = i
HarmlessTo(e, n, i) == (e.name = n => e.ino = i) /\ (e.ino = i => e.mode = "file")
EntryKept(e) ==
    /\ e.type = "MKNOD" /\ e.name \in Names /\ e.ino \in Inodes \ {0}
    /\ Marks(mem, e.ino) /\ Marks(disk, e.ino)
    /\ \A n \in promised : HarmlessTo(e, n, dict[n].ino)
    /\ proc = "mounted" => Resolves(mem, e.name)
LogKept == ~ Mixed => \A e \in Range(log) : EntryKept(e)

-----------------------------------------------------------------------------
(***************************************************************************)
(* How far the process is.                                                 *)
(***************************************************************************)
\* The oldest entry is being executed again, before rest.
ToSyncLeaf(e) == [ToSyncMknod(e) EXCEPT !.do = "SyncLeaf"]
SyncNode(e) == [mem.inodes[e.ino] EXCEPT !.mode = e.mode]
Redoing(td, rest) ==
    LET e == Head(log)
    IN  /\ log # <<>> /\ ~ Mixed
        /\ \/ td = Cons(ToSyncMknod(e), Cons(Mark, rest))
           \/ td = Cons(ToWriteInode(SyncNode(e), TRUE), Cons(ToSyncLeaf(e), Cons(Mark, rest)))
           \/ td = Cons(ToSyncLeaf(e), Cons(Mark, rest))
           \/ td = Cons(Mark, rest)

\* nbtrfs_mknod of name n, with inode i, has still todo to do: first to make the
\* inode, the entry and the leaf, then to log them.
NodeMade(i, mode) == i \in mem.bits /\ NodeKept(mem, i, mode) /\ NodeKept(disk, i, mode)
LeafMade(n, mode, i) ==
    LET leaf == Leaf(mem, n)
    IN  /\ HasLeaf(mem, n) /\ leaf.type = mode
        /\ mode = "file" => leaf.value = i
        /\ mode = "dir" => leaf.value \in DOMAIN mem.subs /\ mem.subs[leaf.value] = i

ToLogMade(n, mode) == Cons(LogStep(n, mode), <<>>)
ToAddMade(n, mode, i) == Cons(ToAddEntry(n, i, mode), ToLogMade(n, mode))
MadeNode(i, through) == ToWriteInode(mem.inodes[i], through)
Made(n, mode, i) ==
    \/ /\ todo = Cons(MknodStep(n, mode), ToLogMade(n, mode))
       /\ FreeInodes(mem) # {} /\ i = Min(FreeInodes(mem))
    \/ /\ NodeMade(i, mode)
       /\ todo = Cons(Write({"bits"}), Cons(MadeNode(i, FALSE), ToAddMade(n, mode, i)))
    \/ /\ NodeMade(i, mode) /\ i \in disk.bits
       /\ \/ todo = Cons(MadeNode(i, FALSE), ToAddMade(n, mode, i))
          \/ todo = ToAddMade(n, mode, i)
    \/ /\ NodeMade(i, mode) /\ i \in disk.bits /\ LeafMade(n, mode, i)
       /\ \/ todo = Cons(SetCount(mem.count + 1, {"page", "count"}),
                         Cons(btree_write, ToLogMade(n, mode)))
          \/ todo = Cons(btree_write, ToLogMade(n, mode))
          \/ todo = ToLogMade(n, mode) /\ (mode = "file" => LeafKept(disk, n, i))

Written(n, mode, i) ==
    /\ NodeMade(i, mode) /\ i \in disk.bits /\ Resolves(mem, n)
    /\ mode = "file" => LeafKept(mem, n, i) /\ LeafKept(disk, n, i)

\* The entry nbtrfs_mknod logs.
MadeEntry(n, mode, i, sub) ==
    [type |-> "MKNOD", name |-> n, mode |-> mode, ino |-> i, sub |-> sub]
ToLogEntry(n, mode, i, sub) == Cons(ToLog(MadeEntry(n, mode, i, sub)), <<>>)
Logged(n, mode, i, sub) ==
    LET last == ToLogEntry(n, mode, i, sub)
    IN  /\ Written(n, mode, i)
        /\ todo = Cons(MadeNode(i, TRUE), last) \/ todo = last \/ Redoing(todo, last)

Fresh(n, i) == ~ Mixed => \A e \in Range(log) : e.name # n /\ e.ino # i
Making(n, mode, i) ==
    \/ Fresh(n, i) /\ Made(n, mode, i)
    \/ Fresh(n, i) /\ \E sub : Logged(n, mode, i, sub)
    \/ /\ Written(n, mode, i) /\ todo = <<>>
       /\ ~ Mixed => \A e \in Range(log) :
                (e.name = n => e.ino = i) /\ (e.ino = i => e.mode = mode)

\* The call in progress is this creation.
Creation(n, mode, i) ==
    /\ i # 0 /\ n \notin promised /\ \A m \in promised : dict[m].ino # i
    /\ call.op = "call" /\ call.ino = i /\ call.promise = IF mode = "file" THEN {n} ELSE {}
    /\ n \in DOMAIN call.dict /\ call.dict[n].ino = i /\ call.dict[n].mode = mode

\* Another call, on a mount that is calm: it has logged its entry, or will.
Changing ==
    /\ calm /\ call.promise = {}
    /\ Mixed \/ (todo # <<>> /\ Head(todo).do = "journal" /\ Head(todo).entry.type # "MKNOD")

Calling ==
    /\ \A m \in promised : m \in DOMAIN call.dict /\ call.dict[m] = dict[m]
    /\ \/ Changing
       \/ \E n \in Names, mode \in Kinds, i \in Inodes : Creation(n, mode, i) /\ Making(n, mode, i)

Where ==
    \/ proc = "down" /\ call = NoCall /\ todo = <<>> /\ ~ Mixed
    \/ proc = "replaying" /\ call = NoCall /\ ~ Mixed /\ (todo = <<>> \/ Redoing(todo, <<>>))
    \/ proc = "mounted" /\ call = NoCall /\ todo = <<>>
    \/ proc = "mounted" /\ call.op = "destroy" /\ todo = <<>> /\ (Mixed => call.mixed)
    \/ proc = "mounted" /\ call.op = "call" /\ Calling

Kept ==
    /\ PromisesKept
    /\ 0 \in mem.bits /\ 0 \in disk.bits
    /\ LogKept
    /\ calm \/ ~ Mixed

SInv == ~ torn => Kept /\ Where

-----------------------------------------------------------------------------
(***************************************************************************)
(* What a step does to the pages on the disk and to the log.               *)
(***************************************************************************)
DiskGets(parts) ==
    /\ disk'.inodes = IF "inodes" \in parts THEN mem'.inodes ELSE disk.inodes
    /\ disk'.bits = IF "bits" \in parts THEN mem'.bits ELSE disk.bits
    /\ disk'.tree = IF "tree" \in parts THEN mem'.tree ELSE disk.tree

Frame == UNCHANGED <<proc, call, calm, torn, dict, promised>>

LEMMA StepIs ==
    ASSUME NInv, NEW p, NEW parts, NEW next, NEW s, NEW rest, IsSeq(rest),
           todo = Cons(s, rest), Step(p, parts, next)
    PROVE  mem' = p /\ todo' = next \o rest /\ DiskGets(parts) /\ Frame /\ log' = log
  <1>1. Tail(todo) = rest
    BY ConsIs
  <1>2. {"inodes", "bits", "tree"} \subseteq DOMAIN disk
    BY DEF NInv, AnyPages
  <1> QED BY <1>1, <1>2 DEF Step, DiskGets, Frame, history

LEMMA LogIs ==
    ASSUME NEW l, Entries(l)
    PROVE  /\ l # <<>> => Head(l) \in Range(l) /\ Range(Tail(l)) \subseteq Range(l)
           /\ \A e : Range(Append(l, e)) = Range(l) \cup {e}
           /\ Range(<<>>) = {}
           /\ \A e \in Range(l) : EntryOK(e)
  <1>1. PICK S : l \in Seq(S) /\ \A e \in S : EntryOK(e)
    BY DEF Entries
  <1>2. ASSUME l # <<>> PROVE Head(l) \in Range(l) /\ Range(Tail(l)) \subseteq Range(l)
    BY <1>1, <1>2 DEF Range
  <1>3. ASSUME NEW e PROVE Range(Append(l, e)) = Range(l) \cup {e}
    <2>1. /\ DOMAIN l = 1 .. Len(l) /\ DOMAIN Append(l, e) = 1 .. Len(l) + 1 /\ Len(l) \in Nat
          /\ \A k \in 1 .. Len(l) : Append(l, e)[k] = l[k]
          /\ Append(l, e)[Len(l) + 1] = e
      <3>1. l \in Seq(S \cup {e}) /\ e \in S \cup {e}
        BY <1>1
      <3> QED BY <1>1, <3>1
    <2>2. \A k \in 1 .. Len(l) + 1 : k \in 1 .. Len(l) \/ k = Len(l) + 1
      BY <2>1
    <2>3. \A k \in 1 .. Len(l) : k \in 1 .. Len(l) + 1
      BY <2>1
    <2>4. Len(l) + 1 \in 1 .. Len(l) + 1
      BY <2>1
    <2> QED BY <2>1, <2>2, <2>3, <2>4 DEF Range
  <1>4. Range(<<>>) = {} /\ \A e \in Range(l) : EntryOK(e)
    BY <1>1 DEF Range
  <1> QED BY <1>2, <1>3, <1>4

LEMMA StepSeqs ==
    /\ \A n, mode : IsSeq(ToLogMade(n, mode))
    /\ \A n, mode, i : IsSeq(ToAddMade(n, mode, i))
    /\ \A n, mode, i, sub : IsSeq(ToLogEntry(n, mode, i, sub))
  BY NilIs, ConsIs DEF ToLogMade, ToAddMade, ToLogEntry

-----------------------------------------------------------------------------
(***************************************************************************)
(* A step that frees no inode, loses no leaf and writes the disk from the  *)
(* cache keeps the promises and the entries.                               *)
(***************************************************************************)
Gentle ==
    /\ 0 \in mem'.bits
    /\ \A i \in Inodes : Marks(mem, i) => Marks(mem', i)
    /\ \A n \in promised : FileKept(mem', n, dict[n].ino)
    /\ \A n \in Names : Resolves(mem, n) => Resolves(mem', n)
    /\ \E parts : DiskGets(parts)

LEMMA DiskKept ==
    ASSUME NEW parts, DiskGets(parts), NEW i, NEW n, NEW mode
    PROVE  /\ i \in disk.bits /\ i \in mem'.bits => i \in disk'.bits
           /\ Marks(disk, i) /\ Marks(mem', i) => Marks(disk', i)
           /\ NodeKept(disk, i, mode) /\ NodeKept(mem', i, mode) => NodeKept(disk', i, mode)
           /\ LeafKept(disk, n, i) /\ LeafKept(mem', n, i) => LeafKept(disk', n, i)
           /\ FileKept(disk, n, i) /\ FileKept(mem', n, i) => FileKept(disk', n, i)
  <1>1. i \in disk.bits /\ i \in mem'.bits => i \in disk'.bits
    BY DEF DiskGets
  <1>2. disk'.inodes = disk.inodes \/ disk'.inodes = mem'.inodes
    BY DEF DiskGets
  <1>3. disk'.tree = disk.tree \/ disk'.tree = mem'.tree
    BY DEF DiskGets
  <1>4. LeafKept(disk, n, i) /\ LeafKept(mem', n, i) => LeafKept(disk', n, i)
    BY <1>3 DEF LeafKept, HasLeaf, Leaf
  <1>5. NodeKept(disk, i, mode) /\ NodeKept(mem', i, mode) => NodeKept(disk', i, mode)
    BY <1>2 DEF NodeKept
  <1>6. NodeKept(disk, i, "file") /\ NodeKept(mem', i, "file") => NodeKept(disk', i, "file")
    BY <1>2 DEF NodeKept
  <1>7. Marks(disk, i) /\ Marks(mem', i) => Marks(disk', i)
    BY <1>1, <1>2 DEF Marks
  <1> QED BY <1>1, <1>4, <1>5, <1>6, <1>7 DEF FileKept

LEMMA GentleKeeps ==
    ASSUME PromisesKept, 0 \in disk.bits, Gentle, Frame
    PROVE  /\ PromisesKept' /\ 0 \in mem'.bits /\ 0 \in disk'.bits
           /\ \A e : EntryKept(e) => EntryKept(e)'
  <1>1. PICK parts : DiskGets(parts)
    BY DEF Gentle
  <1>2. proc' = proc /\ dict' = dict /\ promised' = promised
    BY DEF Frame
  <1>3. 0 \in mem'.bits /\ 0 \in disk'.bits
    BY <1>1, DiskKept DEF Gentle
  <1>4. PromisesKept'
    <2> SUFFICES ASSUME NEW n \in promised
                 PROVE  /\ dict[n].ino \in Inodes \ {0} /\ dict[n].mode = "file"
                        /\ FileKept(mem', n, dict[n].ino) /\ FileKept(disk', n, dict[n].ino)
      BY <1>2 DEF PromisesKept
    <2>1. FileKept(mem', n, dict[n].ino) /\ FileKept(disk, n, dict[n].ino)
      BY DEF PromisesKept, Gentle
    <2> QED BY <1>1, <2>1, DiskKept DEF PromisesKept
  <1>5. ASSUME NEW e, EntryKept(e) PROVE EntryKept(e)'
    <2>1. Marks(mem', e.ino)
      BY <1>5 DEF EntryKept, Gentle
    <2>2. Marks(disk', e.ino)
      BY <1>1, <1>5, <2>1, DiskKept DEF EntryKept
    <2>3. proc = "mounted" => Resolves(mem', e.name)
      BY <1>5 DEF EntryKept, Gentle
    <2> QED BY <1>2, <1>5, <2>1, <2>2, <2>3 DEF EntryKept
  <1> QED BY <1>3, <1>4, <1>5

\* Nothing changes in the cache, or not what matters.
LEMMA GentleStay ==
    ASSUME PromisesKept, 0 \in mem.bits, NEW parts, DiskGets(parts),
           mem'.inodes = mem.inodes, mem'.bits = mem.bits, mem'.tree = mem.tree, mem'.subs = mem.subs
    PROVE  Gentle
  <1>1. \A i \in Inodes : Marks(mem, i) => Marks(mem', i)
    BY DEF Marks
  <1>2. \A n \in promised : FileKept(mem', n, dict[n].ino)
    BY DEF PromisesKept, FileKept, LeafKept, NodeKept, HasLeaf, Leaf
  <1>3. \A n \in Names : Resolves(mem, n) => Resolves(mem', n)
    BY DEF Resolves, HasLeaf, Leaf, SubRoot
  <1> QED BY <1>1, <1>2, <1>3 DEF Gentle

-----------------------------------------------------------------------------
(***************************************************************************)
(* The oldest entry is executed again.                                     *)
(***************************************************************************)
\* A page q that differs from p in the leaves of n and in the subtree roots only,
\* of which none is lost.
OnlyLeafOf(p, q, n) ==
    /\ q.inodes = p.inodes /\ q.bits = p.bits
    /\ \A m \in Names \ {n} : q.tree[m] = p.tree[m]
    /\ \A k \in DOMAIN p.subs : k \in DOMAIN q.subs /\ (p.subs[k] # NoNode => q.subs[k] # NoNode)

LEMMA OtherLeaves ==
    ASSUME NEW p, NEW q, NEW n, OnlyLeafOf(p, q, n), NEW m \in Names \ {n}
    PROVE  /\ Resolves(p, m) => Resolves(q, m)
           /\ \A i : LeafKept(p, m, i) => LeafKept(q, m, i)
           /\ \A i : Marks(p, i) => Marks(q, i)
           /\ \A i : FileKept(p, m, i) => FileKept(q, m, i)
  <1>1. q.tree[m] = p.tree[m] /\ q.inodes = p.inodes /\ q.bits = p.bits
    BY DEF OnlyLeafOf
  <1>2. HasLeaf(q, m) <=> HasLeaf(p, m)
    BY <1>1 DEF HasLeaf
  <1>3. Leaf(q, m) = Leaf(p, m)
    BY <1>1 DEF Leaf
  <1>4. ASSUME NEW k, SubRoot(p, k) # NoNode PROVE SubRoot(q, k) # NoNode
    BY <1>4 DEF SubRoot, OnlyLeafOf
  <1>5. Resolves(p, m) => Resolves(q, m)
    BY <1>2, <1>3, <1>4 DEF Resolves
  <1>6. \A i : LeafKept(p, m, i) => LeafKept(q, m, i)
    BY <1>2, <1>3 DEF LeafKept
  <1> QED BY <1>1, <1>5, <1>6 DEF Marks, FileKept, NodeKept

LEMMA LeafSet ==
    ASSUME NEW p \in AnyPages, NEW n \in Names, NEW leaf \in Leaves
    PROVE  /\ OnlyLeafOf(p, PushLeaf(p, n, leaf), n)
           /\ HasLeaf(PushLeaf(p, n, leaf), n) /\ Leaf(PushLeaf(p, n, leaf), n) = leaf
           /\ PushLeaf(p, n, leaf).subs = p.subs
           /\ HasLeaf(p, n) =>
                /\ OnlyLeafOf(p, SetLeaf(p, n, leaf), n)
                /\ HasLeaf(SetLeaf(p, n, leaf), n) /\ Leaf(SetLeaf(p, n, leaf), n) = leaf
                /\ SetLeaf(p, n, leaf).subs = p.subs
  <1>1. p.tree \in [Names -> Seq(Leaves)] /\ p.tree[n] \in Seq(Leaves)
    BY DEF AnyPages
  <1> DEFINE push == <<leaf>> \o p.tree[n]
             set == <<leaf>> \o Tail(p.tree[n])
  <1>2. push # <<>> /\ Head(push) = leaf
    BY <1>1
  <1>3. HasLeaf(p, n) => set # <<>> /\ Head(set) = leaf
    <2> SUFFICES ASSUME p.tree[n] # <<>> PROVE set # <<>> /\ Head(set) = leaf
      BY DEF HasLeaf
    <2>1. Tail(p.tree[n]) \in Seq(Leaves)
      BY <1>1
    <2> QED BY <2>1
  <1> HIDE DEF push, set
  <1>4. ASSUME NEW q, NEW s, q = [p EXCEPT !.tree = [p.tree EXCEPT ![n] = s]], s # <<>>, Head(s) = leaf
        PROVE  OnlyLeafOf(p, q, n) /\ HasLeaf(q, n) /\ Leaf(q, n) = leaf /\ q.subs = p.subs
    <2>1. /\ q.inodes = p.inodes /\ q.bits = p.bits /\ q.subs = p.subs
          /\ q.tree = [p.tree EXCEPT ![n] = s]
      BY <1>4 DEF AnyPages
    <2>2. q.tree[n] = s /\ \A m \in Names \ {n} : q.tree[m] = p.tree[m]
      BY <1>1, <2>1
    <2> QED BY <1>4, <2>1, <2>2 DEF OnlyLeafOf, HasLeaf, Leaf
  <1>5. /\ PushLeaf(p, n, leaf) = [p EXCEPT !.tree = [p.tree EXCEPT ![n] = push]]
        /\ SetLeaf(p, n, leaf) = [p EXCEPT !.tree = [p.tree EXCEPT ![n] = set]]
    BY DEF PushLeaf, SetLeaf, push, set, AnyPages
  <1> QED BY <1>2, <1>3, <1>4, <1>5

LEMMA SubtreeSet ==
    ASSUME NEW p \in AnyPages, NEW i \in Inodes
    PROVE  LET q == WithSubtree(p, i) IN
           /\ q.inodes = p.inodes /\ q.bits = p.bits /\ q.tree = p.tree /\ q.page = p.page
           /\ q.count = p.count /\ q.subs = Append(p.subs, i)
           /\ Len(q.subs) = Len(p.subs) + 1 /\ Len(p.subs) + 1 \in DOMAIN q.subs /\ q.subs[Len(p.subs) + 1] = i
           /\ \A k \in DOMAIN p.subs : k \in DOMAIN q.subs /\ q.subs[k] = p.subs[k]
           /\ i # NoNode
  <1>1. p.subs \in Seq(Inodes \cup {NoNode}) /\ i \in Inodes \cup {NoNode}
    BY DEF AnyPages
  <1> DEFINE s == Append(p.subs, i)
  <1>2. /\ Len(s) = Len(p.subs) + 1 /\ Len(p.subs) + 1 \in DOMAIN s /\ s[Len(p.subs) + 1] = i
        /\ \A k \in DOMAIN p.subs : k \in DOMAIN s /\ s[k] = p.subs[k]
    BY <1>1
  <1> HIDE DEF s
  <1>3. WithSubtree(p, i) = [p EXCEPT !.subs = s]
    BY DEF WithSubtree, s
  <1>4. i # NoNode
    BY SlotsAre DEF NoNode
  <1> QED BY <1>2, <1>3, <1>4 DEF AnyPages, s

LEMMA OnlyTrans ==
    ASSUME NEW p, NEW q, NEW r, NEW n, OnlyLeafOf(p, q, n), OnlyLeafOf(q, r, n)
    PROVE  OnlyLeafOf(p, r, n)
  BY DEF OnlyLeafOf

\* The leaf of the name resolves, and is as before but for its value if it is one
\* of a file.
LEMMA SyncedIs ==
    ASSUME NEW p \in AnyPages, NEW e, e.name \in Names, e.mode \in Kinds, e.ino \in Inodes \ {0}
    PROVE  /\ OnlyLeafOf(p, Synced(p, e), e.name)
           /\ Resolves(Synced(p, e), e.name)
           /\ \A i : LeafKept(p, e.name, i) => LeafKept(Synced(p, e), e.name, e.ino)
  <1> DEFINE n == e.name
             q == Synced(p, e)
             new == [type |-> e.mode, value |-> IF e.mode = "dir" THEN Len(p.subs) + 1 ELSE e.ino]
  <1>1. /\ WithSubtree(p, e.ino) \in AnyPages /\ Len(p.subs) + 1 \in Nat /\ e.ino \in Nat
    BY SubtreeTyped, SlotsAre
  <1>2. new \in Leaves /\ \A k \in Nat : [type |-> "dir", value |-> k] \in Leaves
    BY <1>1 DEF Leaves, LeafType, Kinds, Modes
  <1>3. OnlyLeafOf(p, WithSubtree(p, e.ino), n) /\ WithSubtree(p, e.ino).tree = p.tree
    BY SubtreeSet DEF OnlyLeafOf
  <1>4. OnlyLeafOf(p, p, n)
    BY DEF OnlyLeafOf
  <1>5. CASE ~ HasLeaf(p, n)
    <2> DEFINE r == IF e.mode = "dir" THEN WithSubtree(p, e.ino) ELSE p
    <2>1. r \in AnyPages /\ OnlyLeafOf(p, r, n)
      BY <1>1, <1>3, <1>4
    <2>2. q = PushLeaf(r, n, new)
      BY <1>5 DEF Synced
    <2>3. e.mode = "dir" => SubRoot(r, new.value) = e.ino /\ e.ino # NoNode
      BY SubtreeSet DEF SubRoot
    <2> HIDE DEF r, new, n, q
    <2>4. OnlyLeafOf(r, q, n) /\ HasLeaf(q, n) /\ Leaf(q, n) = new /\ q.subs = r.subs
      BY <1>2, <2>1, <2>2, LeafSet DEF n
    <2>5. Resolves(q, n)
      BY <2>3, <2>4 DEF Resolves, SubRoot, new
    <2> QED BY <1>5, <2>1, <2>4, <2>5, OnlyTrans DEF LeafKept, n, q
  <1>6. CASE HasLeaf(p, n) /\ Leaf(p, n).type # "dir"
    <2> DEFINE leaf == [Leaf(p, n) EXCEPT !.value = e.ino]
    <2>1. Leaf(p, n) \in Leaves
      BY <1>2, <1>6, LeavesTyped
    <2>2. leaf \in Leaves /\ leaf.type = Leaf(p, n).type /\ leaf.value = e.ino
      BY <1>1, <2>1 DEF Leaves, LeafType
    <2>3. q = SetLeaf(p, n, leaf)
      BY <1>6 DEF Synced
    <2> HIDE DEF leaf, new, n, q
    <2>4. OnlyLeafOf(p, q, n) /\ HasLeaf(q, n) /\ Leaf(q, n) = leaf
      BY <1>6, <2>2, <2>3, LeafSet DEF n
    <2> QED BY <1>6, <2>2, <2>4 DEF LeafKept, Resolves, n, q
  <1>7. CASE HasLeaf(p, n) /\ Leaf(p, n).type = "dir" /\ SubRoot(p, e.sub) # NoNode
    <2> DEFINE leaf == [type |-> "dir", value |-> e.sub]
               r == SetLeaf(p, n, leaf)
    <2>1. e.sub \in DOMAIN p.subs /\ p.subs[e.sub] # NoNode
      BY <1>7 DEF SubRoot
    <2>2. leaf \in Leaves
      BY <1>2, <2>1, SubtreeTyped
    <2>3. q = [r EXCEPT !.subs[e.sub] = e.ino]
      BY <1>7 DEF Synced
    <2>4. e.ino # NoNode
      BY SubtreeSet
    <2>5. /\ r \in AnyPages /\ OnlyLeafOf(p, r, n) /\ HasLeaf(r, n) /\ Leaf(r, n) = leaf
          /\ r.subs = p.subs
      <3> HIDE DEF leaf
      <3> QED BY <1>7, <2>2, LeafSet, LeavesTyped
    <2> HIDE DEF r, q, n, new
    <2>6. /\ q.inodes = r.inodes /\ q.bits = r.bits /\ q.tree = r.tree
          /\ q.subs = [r.subs EXCEPT ![e.sub] = e.ino]
      BY <2>3, <2>5 DEF AnyPages
    <2>7. OnlyLeafOf(r, q, n) /\ SubRoot(q, e.sub) # NoNode
      BY <2>1, <2>4, <2>5, <2>6 DEF OnlyLeafOf, SubRoot
    <2>8. HasLeaf(q, n) /\ Leaf(q, n) = leaf
      BY <2>5, <2>6 DEF HasLeaf, Leaf
    <2>9. Resolves(q, n)
      BY <2>7, <2>8 DEF Resolves
    <2> QED BY <1>7, <2>5, <2>7, <2>9, OnlyTrans DEF LeafKept, n, q
  <1>8. CASE HasLeaf(p, n) /\ Leaf(p, n).type = "dir" /\ SubRoot(p, e.sub) = NoNode
    <2> DEFINE r == WithSubtree(p, e.ino)
               leaf == [type |-> "dir", value |-> Len(p.subs) + 1]
    <2>1. HasLeaf(r, n)
      BY <1>3, <1>8 DEF HasLeaf
    <2>2. leaf \in Leaves
      BY <1>1, <1>2
    <2>3. q = SetLeaf(r, n, leaf)
      BY <1>8 DEF Synced
    <2>4. SubRoot(r, Len(p.subs) + 1) = e.ino /\ e.ino # NoNode
      BY SubtreeSet DEF SubRoot
    <2>5. r \in AnyPages /\ OnlyLeafOf(p, r, n)
      BY <1>1, <1>3
    <2>6. leaf.type = "dir" /\ leaf.value = Len(p.subs) + 1
      OBVIOUS
    <2> HIDE DEF r, leaf, q, n, new
    <2>7. OnlyLeafOf(r, q, n) /\ HasLeaf(q, n) /\ Leaf(q, n) = leaf /\ q.subs = r.subs
      BY <2>1, <2>2, <2>3, <2>5, LeafSet DEF n
    <2>8. Resolves(q, n)
      BY <2>4, <2>6, <2>7 DEF Resolves, SubRoot
    <2> QED BY <1>8, <2>5, <2>7, <2>8, OnlyTrans DEF LeafKept, n, q
  <1> QED BY <1>5, <1>6, <1>7, <1>8

\* One step of it; other names and inodes than those of the entry stay as they are.
LEMMA RedoStep ==
    ASSUME NInv, Steps, PromisesKept, 0 \in mem.bits, \A e \in Range(log) : EntryKept(e),
           NEW rest, IsSeq(rest), Redoing(todo, rest)
    PROVE  /\ Gentle /\ Frame
           /\ \/ log' = log /\ Redoing(todo, rest)'
              \/ log' = Tail(log) /\ todo' = rest
           /\ mem'.bits = mem.bits /\ disk'.bits = disk.bits
           /\ \A i \in Inodes : i # Head(log).ino => mem'.inodes[i] = mem.inodes[i]
           /\ \A n \in Names : n # Head(log).name => \A i : LeafKept(mem, n, i) => LeafKept(mem', n, i)
  <1> DEFINE e == Head(log)
             last == Cons(Mark, rest)
  <1>1. log # <<>> /\ ~ Mixed /\ Entries(log) /\ mem \in AnyPages
    BY DEF Redoing, NInv
  <1>2. EntryKept(e) /\ EntryOK(e)
    BY <1>1, LogIs
  <1>3. /\ e.type = "MKNOD" /\ e.name \in Names /\ e.mode \in Kinds /\ e.ino \in Inodes \ {0}
    BY <1>2 DEF EntryKept, EntryOK
  <1>4. IsSeq(last) /\ IsSeq(Cons(ToSyncLeaf(e), last))
    BY ConsIs
  <1>5. /\ ToSyncMknod(e).do = "SyncMknod" /\ ToSyncMknod(e).name = e.name /\ ToSyncMknod(e).ino = e.ino
        /\ ToSyncMknod(e).mode = e.mode /\ ToSyncMknod(e).sub = e.sub
        /\ ToSyncLeaf(e).do = "SyncLeaf" /\ ToSyncLeaf(e).name = e.name /\ ToSyncLeaf(e).ino = e.ino
        /\ ToSyncLeaf(e).mode = e.mode /\ ToSyncLeaf(e).sub = e.sub
    BY DEF ToSyncMknod, ToSyncLeaf
  <1>6. CASE todo = Cons(ToSyncMknod(e), last)
    <2>1. SyncMknod /\ Arg = ToSyncMknod(e)
      BY <1>4, <1>5, <1>6, ConsIs, StepOf DEF Arg
    <2>2. Step(mem, {}, <<ToWriteInode(SyncNode(e), TRUE), ToSyncLeaf(e)>>)
      BY <1>5, <2>1 DEF SyncMknod, SyncNode, ToSyncLeaf
    <2>3. /\ mem' = mem /\ todo' = <<ToWriteInode(SyncNode(e), TRUE), ToSyncLeaf(e)>> \o last
          /\ DiskGets({}) /\ Frame /\ log' = log
      BY <1>4, <1>6, <2>2, StepIs
    <2>4. todo' = Cons(ToWriteInode(SyncNode(e), TRUE), Cons(ToSyncLeaf(e), last))
      <3> HIDE DEF last, e
      <3>1. \A a, b : <<a, b>> \o last = Cons(a, Cons(b, last))
        BY <1>4, CatIs
      <3> QED BY <2>3, <3>1
    <2>5. Redoing(todo, rest)'
      BY <1>1, <2>3, <2>4 DEF Redoing, SyncNode, Mixed, Frame
    <2>6. Gentle
      BY <2>3, GentleStay
    <2> QED BY <2>3, <2>5, <2>6 DEF DiskGets
  <1>7. CASE todo = Cons(ToWriteInode(SyncNode(e), TRUE), Cons(ToSyncLeaf(e), last))
    <2> DEFINE node == SyncNode(e)
    <2>1. inode_write /\ Arg = ToWriteInode(node, TRUE)
      BY <1>4, <1>7, ConsIs, StepOf DEF Arg, ToWriteInode
    <2>2. /\ mem.inodes \in [Inodes -> InodeType] /\ mem.inodes[e.ino] \in InodeType
          /\ mem.inodes[e.ino].ino = e.ino /\ e.ino \in mem.bits
      BY <1>1, <1>2, <1>3 DEF AnyPages, EntryKept, Marks
    <2>3. node.ino = e.ino /\ node.mode = e.mode
      BY <2>2 DEF SyncNode, InodeType
    <2>4. Step(Wrote(mem, e.ino, node), {"inodes"}, <<>>)
      BY <2>1, <2>3 DEF inode_write, ToWriteInode, Through, Wrote
    <2> HIDE DEF node
    <2>5. /\ mem' = Wrote(mem, e.ino, node) /\ todo' = <<>> \o Cons(ToSyncLeaf(e), last)
          /\ DiskGets({"inodes"}) /\ Frame /\ log' = log
      BY <1>4, <1>7, <2>4, StepIs
    <2>6. todo' = Cons(ToSyncLeaf(e), last)
      BY <1>4, <2>5, CatIs
    <2>7. Redoing(todo, rest)'
      BY <1>1, <2>5, <2>6 DEF Redoing, Mixed, Frame
    <2>8. /\ mem'.inodes = [mem.inodes EXCEPT ![e.ino] = node]
          /\ mem'.bits = mem.bits /\ mem'.tree = mem.tree /\ mem'.subs = mem.subs
      BY <1>1, <2>5 DEF Wrote, AnyPages
    <2>9. \A i \in Inodes : i # e.ino => mem'.inodes[i] = mem.inodes[i]
      BY <2>2, <2>8
    <2>10. mem'.inodes[e.ino] = node
      BY <1>3, <2>2, <2>8
    <2>11. \A i \in Inodes : Marks(mem, i) => Marks(mem', i)
      BY <2>3, <2>8, <2>9, <2>10 DEF Marks
    <2>12. \A n, i : LeafKept(mem, n, i) => LeafKept(mem', n, i)
      BY <2>8 DEF LeafKept, HasLeaf, Leaf
    <2>13. ASSUME NEW n \in promised PROVE FileKept(mem', n, dict[n].ino)
      <3> DEFINE i == dict[n].ino
      <3>1. FileKept(mem, n, i) /\ i \in Inodes
        BY DEF PromisesKept
      <3>2. i = e.ino => e.mode = "file"
        BY <1>2 DEF EntryKept, HarmlessTo
      <3>3. NodeKept(mem', i, "file")
        BY <2>3, <2>9, <2>10, <3>1, <3>2 DEF FileKept, NodeKept
      <3> QED BY <2>8, <2>12, <3>1, <3>3 DEF FileKept
    <2>14. \A n \in Names : Resolves(mem, n) => Resolves(mem', n)
      BY <2>8 DEF Resolves, HasLeaf, Leaf, SubRoot
    <2>15. Gentle
      BY <2>5, <2>8, <2>11, <2>13, <2>14 DEF Gentle
    <2> QED BY <2>5, <2>7, <2>8, <2>9, <2>12, <2>15 DEF DiskGets
  <1>8. CASE todo = Cons(ToSyncLeaf(e), last)
    <2> DEFINE s == ToSyncLeaf(e)
    <2>1. SyncLeaf /\ Arg = s
      BY <1>4, <1>5, <1>8, ConsIs, StepOf DEF Arg
    <2>2. Step(Synced(mem, s), {"tree"}, <<>>)
      BY <2>1 DEF SyncLeaf
    <2>3. s.name = e.name /\ s.ino = e.ino /\ s.mode = e.mode
      BY <1>5
    <2> HIDE DEF s
    <2>4. /\ mem' = Synced(mem, s) /\ todo' = <<>> \o last
          /\ DiskGets({"tree"}) /\ Frame /\ log' = log
      BY <1>4, <1>8, <2>2, StepIs DEF s
    <2>5. todo' = last
      BY <1>4, <2>4, CatIs
    <2>6. Redoing(todo, rest)'
      BY <1>1, <2>4, <2>5 DEF Redoing, Mixed, Frame
    <2>7. /\ OnlyLeafOf(mem, mem', e.name) /\ Resolves(mem', e.name)
          /\ \A i : LeafKept(mem, e.name, i) => LeafKept(mem', e.name, e.ino)
      BY <1>1, <1>3, <2>3, <2>4, SyncedIs
    <2>8. mem'.inodes = mem.inodes /\ mem'.bits = mem.bits
      BY <2>7 DEF OnlyLeafOf
    <2>9. \A n \in Names : n # e.name => \A i : LeafKept(mem, n, i) => LeafKept(mem', n, i)
      BY <2>7, OtherLeaves
    <2>10. \A n \in Names : Resolves(mem, n) => Resolves(mem', n)
      BY <2>7, OtherLeaves
    <2>11. ASSUME NEW n \in promised PROVE FileKept(mem', n, dict[n].ino)
      <3>1. FileKept(mem, n, dict[n].ino) /\ n \in Names
        BY DEF PromisesKept, NInv
      <3>2. n = e.name => e.ino = dict[n].ino
        BY <1>2 DEF EntryKept, HarmlessTo
      <3>3. LeafKept(mem', n, dict[n].ino)
        BY <2>7, <2>9, <3>1, <3>2 DEF FileKept
      <3> QED BY <2>8, <3>1, <3>3 DEF FileKept, NodeKept
    <2>12. \A i \in Inodes : Marks(mem, i) => Marks(mem', i)
      BY <2>8 DEF Marks
    <2>13. Gentle
      BY <2>4, <2>8, <2>10, <2>11, <2>12 DEF Gentle
    <2> QED BY <2>4, <2>6, <2>8, <2>9, <2>13 DEF DiskGets
  <1>9. CASE todo = last
    <2>1. Head(todo) = Mark /\ Tail(todo) = rest
      BY <1>9, ConsIs
    <2>2. MarkEntry
      BY <2>1, StepOf DEF Mark
    <2>3. mem' = mem /\ disk' = disk /\ log' = Tail(log) /\ todo' = rest /\ Frame
      BY <2>1, <2>2 DEF MarkEntry, Frame, history
    <2>4. DiskGets({})
      BY <2>3 DEF DiskGets
    <2>5. Gentle
      BY <2>3, <2>4, GentleStay
    <2> QED BY <2>3, <2>5
  <1> QED BY <1>6, <1>7, <1>8, <1>9 DEF Redoing

-----------------------------------------------------------------------------
(***************************************************************************)
(* A creation makes its inode, entry and leaf.                             *)
(***************************************************************************)
LEMMA NodeStays ==
    ASSUME NEW i, NEW mode, NodeMade(i, mode), NEW parts, DiskGets(parts),
           mem'.inodes[i] = mem.inodes[i], i \in mem'.bits
    PROVE  NodeMade(i, mode)' /\ (i \in disk.bits => i \in disk'.bits)
  <1>1. NodeKept(mem', i, mode)
    BY DEF NodeMade, NodeKept
  <1>2. NodeKept(disk', i, mode)
    BY <1>1, DiskKept DEF NodeMade
  <1> QED BY <1>1, <1>2, DiskKept DEF NodeMade

LEMMA LeafStays ==
    ASSUME NEW n, NEW mode, NEW i, LeafMade(n, mode, i), mem'.tree = mem.tree, mem'.subs = mem.subs
    PROVE  LeafMade(n, mode, i)'
  BY DEF LeafMade, HasLeaf, Leaf

LEMMA MadeResolves ==
    ASSUME NEW n, NEW mode \in Kinds, NEW i \in Inodes \ {0}, LeafMade(n, mode, i)
    PROVE  /\ Resolves(mem, n) /\ item_search(mem, n) = i
           /\ mode = "file" => LeafKept(mem, n, i)
  <1>1. i \in Nat /\ i > 0 /\ i # NoNode
    BY SlotsAre DEF NoNode
  <1>2. CASE mode = "file"
    BY <1>1, <1>2 DEF LeafMade, Resolves, item_search, LeafKept
  <1>3. CASE mode = "dir"
    <2>1. SubRoot(mem, Leaf(mem, n).value) = i
      BY <1>3 DEF LeafMade, SubRoot
    <2>2. Max({0, i}) = i
      BY <1>1 DEF Max
    <2> QED BY <1>1, <1>3, <2>1, <2>2 DEF LeafMade, Resolves, item_search
  <1> QED BY <1>2, <1>3 DEF Kinds

\* _mknod.
LEMMA NewNodeStep ==
    ASSUME NInv, Kept, Steps, NEW n \in Names, NEW mode \in Kinds, NEW i \in Inodes, Creation(n, mode, i),
           todo = Cons(MknodStep(n, mode), ToLogMade(n, mode)),
           FreeInodes(mem) # {}, i = Min(FreeInodes(mem))
    PROVE  Gentle /\ Frame /\ log' = log /\ Made(n, mode, i)'
  <1> DEFINE new == [mem.inodes[i] EXCEPT !.ino = i, !.mode = mode, !.refs = 1]
  <1>1. Head(todo) = MknodStep(n, mode)
    BY StepSeqs, ConsIs
  <1>2. _mknod /\ Arg.name = n /\ Arg.mode = mode
    BY <1>1, StepOf DEF MknodStep, Arg
  <1>3. Step(Marked(mem, i, new), {"inodes"},
             <<Write({"bits"}), ToWriteInode(new, FALSE), ToAddEntry(n, i, mode)>>)
    BY <1>2 DEF _mknod, Marked
  <1>4. /\ mem.inodes \in [Inodes -> InodeType] /\ mem.inodes[i] \in InodeType /\ mem.bits \subseteq Inodes
    BY DEF NInv, AnyPages
  <1>5. new.ino = i /\ new.mode = mode
    BY <1>4 DEF InodeType
  <1>6. i \notin mem.bits
    <2>1. FreeInodes(mem) \in SUBSET Nat
      BY SlotsAre DEF FreeInodes
    <2> QED BY <2>1, MinIs DEF FreeInodes
  <1> HIDE DEF new
  <1>7. /\ mem' = Marked(mem, i, new) /\ DiskGets({"inodes"}) /\ Frame /\ log' = log
        /\ todo' = <<Write({"bits"}), ToWriteInode(new, FALSE), ToAddEntry(n, i, mode)>> \o ToLogMade(n, mode)
    BY <1>3, StepSeqs, StepIs
  <1>8. todo' = Cons(Write({"bits"}), Cons(ToWriteInode(new, FALSE), ToAddMade(n, mode, i)))
    <2>1. \A a, b, c : <<a, b, c>> \o ToLogMade(n, mode) = Cons(a, Cons(b, Cons(c, ToLogMade(n, mode))))
      BY StepSeqs, CatIs
    <2> QED BY <1>7, <2>1 DEF ToAddMade
  <1>9. /\ mem'.bits = mem.bits \cup {i} /\ mem'.inodes = [mem.inodes EXCEPT ![i] = new]
        /\ mem'.tree = mem.tree /\ mem'.subs = mem.subs
    BY <1>7 DEF Marked, NInv, AnyPages
  <1>10. mem'.inodes[i] = new /\ \A k \in Inodes : k # i => mem'.inodes[k] = mem.inodes[k]
    BY <1>4, <1>9
  <1>11. \A k \in Inodes : Marks(mem, k) => Marks(mem', k)
    BY <1>6, <1>9, <1>10 DEF Marks
  <1>12. ASSUME NEW m \in promised PROVE FileKept(mem', m, dict[m].ino)
    <2>1. FileKept(mem, m, dict[m].ino) /\ dict[m].ino \in Inodes /\ dict[m].ino # i
      BY DEF Kept, PromisesKept, Creation
    <2>2. LeafKept(mem', m, dict[m].ino)
      BY <1>9, <2>1 DEF FileKept, LeafKept, HasLeaf, Leaf
    <2> QED BY <1>9, <1>10, <2>1, <2>2 DEF FileKept, NodeKept
  <1>13. \A m \in Names : Resolves(mem, m) => Resolves(mem', m)
    BY <1>9 DEF Resolves, HasLeaf, Leaf, SubRoot
  <1>14. Gentle
    BY <1>7, <1>9, <1>11, <1>12, <1>13 DEF Gentle, Kept
  <1>15. NodeMade(i, mode)'
    BY <1>5, <1>7, <1>9, <1>10 DEF NodeMade, NodeKept, DiskGets
  <1>16. todo' = Cons(Write({"bits"}), Cons(MadeNode(i, FALSE), ToAddMade(n, mode, i)))'
    BY <1>8, <1>10 DEF MadeNode
  <1> QED BY <1>7, <1>14, <1>15, <1>16 DEF Made

\* directory_add_entry.
LEMMA NewEntryStep ==
    ASSUME NInv, Kept, Steps, NEW n \in Names, NEW mode \in Kinds, NEW i \in Inodes, Creation(n, mode, i),
           NodeMade(i, mode), i \in disk.bits, todo = ToAddMade(n, mode, i)
    PROVE  Gentle /\ Frame /\ log' = log /\ Made(n, mode, i)'
  <1> DEFINE r == IF mode = "dir" THEN WithSubtree(mem, i) ELSE mem
             leaf == [type |-> mode, value |-> IF mode = "dir" THEN Len(r.subs) ELSE i]
             q == PushLeaf(r, n, leaf)
             next == <<SetCount(mem.count + 1, {"page", "count"}), btree_write>>
  <1>1. Head(todo) = ToAddEntry(n, i, mode) /\ todo = Cons(ToAddEntry(n, i, mode), ToLogMade(n, mode))
    BY StepSeqs, ConsIs DEF ToAddMade
  <1>2. directory_add_entry /\ Arg.name = n /\ Arg.ino = i /\ Arg.type = mode
    BY <1>1, StepOf DEF ToAddEntry, Arg
  <1>3. Step(WithEntry(q, n, i), {"page", "count"}, next)
    BY <1>2 DEF directory_add_entry
  <1>4. mem \in AnyPages /\ i \in Nat
    BY SlotsAre DEF NInv
  <1>5. r \in AnyPages /\ OnlyLeafOf(mem, r, n) /\ r.count = mem.count /\ leaf.value \in Nat
    BY <1>4, SubtreeTyped, SubtreeSet DEF OnlyLeafOf
  <1>6. leaf \in Leaves
    BY <1>5 DEF Leaves, LeafType, Kinds, Modes
  <1>7. /\ mode = "file" => leaf.value = i
        /\ mode = "dir" => leaf.value \in DOMAIN r.subs /\ r.subs[leaf.value] = i
    BY <1>4, SubtreeSet
  <1>8. leaf.type = mode
    OBVIOUS
  <1> HIDE DEF r, leaf
  <1>9. q \in AnyPages /\ OnlyLeafOf(r, q, n) /\ HasLeaf(q, n) /\ Leaf(q, n) = leaf /\ q.subs = r.subs
    BY <1>5, <1>6, LeafSet, LeavesTyped
  <1>10. q.count = mem.count
    BY <1>5 DEF PushLeaf, AnyPages
  <1> HIDE DEF q
  <1>11. /\ mem' = WithEntry(q, n, i) /\ todo' = next \o ToLogMade(n, mode)
         /\ DiskGets({"page", "count"}) /\ Frame /\ log' = log
    BY <1>1, <1>3, StepSeqs, StepIs
  <1>12. todo' = Cons(SetCount(mem.count + 1, {"page", "count"}), Cons(btree_write, ToLogMade(n, mode)))
    <2>1. \A a, b : <<a, b>> \o ToLogMade(n, mode) = Cons(a, Cons(b, ToLogMade(n, mode)))
      BY StepSeqs, CatIs
    <2> QED BY <1>11, <2>1
  <1>13. /\ mem'.inodes = q.inodes /\ mem'.bits = q.bits /\ mem'.tree = q.tree /\ mem'.subs = q.subs
         /\ mem'.count = mem.count
    BY <1>9, <1>10, <1>11 DEF WithEntry, AnyPages
  <1>14. OnlyLeafOf(mem, q, n)
    BY <1>5, <1>9, OnlyTrans
  <1>15. OnlyLeafOf(mem, mem', n)
    BY <1>13, <1>14 DEF OnlyLeafOf
  <1>16. mem'.inodes = mem.inodes /\ mem'.bits = mem.bits
    BY <1>15 DEF OnlyLeafOf
  <1>17. LeafMade(n, mode, i)'
    BY <1>7, <1>8, <1>9, <1>13 DEF LeafMade, HasLeaf, Leaf
  <1>18. Resolves(mem', n)
    <2>1. i \in Inodes \ {0}
      BY DEF Creation
    <2>2. i # 0 /\ i # NoNode
      BY <2>1, SlotsAre DEF NoNode
    <2>3. HasLeaf(mem', n) /\ Leaf(mem', n) = leaf
      BY <1>9, <1>13 DEF HasLeaf, Leaf
    <2>4. mode = "dir" => SubRoot(mem', leaf.value) # NoNode
      BY <1>7, <1>9, <1>13, <2>2 DEF SubRoot
    <2> QED BY <1>7, <1>8, <2>2, <2>3, <2>4 DEF Resolves, Kinds
  <1>19. \A m \in Names : Resolves(mem, m) => Resolves(mem', m)
    BY <1>15, <1>18, OtherLeaves
  <1>20. ASSUME NEW m \in promised PROVE FileKept(mem', m, dict[m].ino)
    <2>1. m \in Names \ {n} /\ FileKept(mem, m, dict[m].ino)
      BY DEF NInv, Kept, PromisesKept, Creation
    <2> QED BY <1>15, <2>1, OtherLeaves
  <1>21. \A k \in Inodes : Marks(mem, k) => Marks(mem', k)
    BY <1>16 DEF Marks
  <1>22. Gentle
    BY <1>11, <1>16, <1>19, <1>20, <1>21 DEF Gentle, Kept
  <1>23. NodeMade(i, mode)' /\ i \in disk'.bits
    BY <1>11, <1>16, NodeStays DEF NodeMade
  <1> QED BY <1>11, <1>12, <1>13, <1>17, <1>22, <1>23 DEF Made

\* LogMknod.
LEMMA ToLogStep ==
    ASSUME NInv, Kept, Steps, NEW n \in Names, NEW mode \in Kinds, NEW i \in Inodes, Creation(n, mode, i),
           NodeMade(i, mode), i \in disk.bits, LeafMade(n, mode, i), mode = "file" => LeafKept(disk, n, i),
           todo = ToLogMade(n, mode)
    PROVE  Gentle /\ Frame /\ log' = log /\ \E sub : Logged(n, mode, i, sub)'
  <1> DEFINE sub == IF mode = "dir" THEN Leaf(mem, n).value ELSE 0
             e == MadeEntry(n, mode, i, sub)
             first == IF mode = "dir" THEN <<MadeNode(i, TRUE)>> ELSE <<>>
  <1>1. Head(todo) = LogStep(n, mode) /\ todo = Cons(LogStep(n, mode), <<>>)
    BY NilIs, ConsIs DEF ToLogMade
  <1>2. LogMknod /\ Arg.name = n /\ Arg.mode = mode
    BY <1>1, StepOf DEF LogStep, Arg
  <1>3. i \in Inodes \ {0} /\ call.ino = i
    BY DEF Creation
  <1>4. Resolves(mem, n) /\ item_search(mem, n) = i /\ (mode = "file" => LeafKept(mem, n, i))
    BY <1>3, MadeResolves
  <1>5. Step(mem, {}, first \o <<ToLog(e)>>)
    BY <1>2, <1>3, <1>4 DEF LogMknod, MadeEntry, MadeNode
  <1> HIDE DEF sub, first, e
  <1>6. /\ mem' = mem /\ todo' = (first \o <<ToLog(e)>>) \o <<>>
        /\ DiskGets({}) /\ Frame /\ log' = log
    BY <1>1, <1>5, NilIs, StepIs
  <1> DEFINE last == ToLogEntry(n, mode, i, sub)
  <1>7. <<ToLog(e)>> = last /\ IsSeq(last)
    BY NilIs, CatIs, StepSeqs DEF ToLogEntry, e
  <1>8. todo' = Cons(MadeNode(i, TRUE), last) \/ todo' = last
    <2>1. IsSeq(first)
      BY NilIs, TupleIs DEF first
    <2> HIDE DEF last
    <2>2. todo' = first \o (last \o <<>>)
      <3>1. todo' = (first \o last) \o <<>>
        BY <1>6, <1>7
      <3>2. (first \o last) \o <<>> = first \o (last \o <<>>)
        BY <1>7, <2>1, NilIs, CatAssoc
      <3> QED BY <3>1, <3>2
    <2>3. last \o <<>> = last
      <3>1. <<ToLog(e)>> \o <<>> = <<ToLog(e)>>
        BY NilIs, CatIs
      <3> QED BY <1>7, <3>1
    <2>4. <<MadeNode(i, TRUE)>> \o last = Cons(MadeNode(i, TRUE), last) /\ <<>> \o last = last
      BY <1>7, CatIs
    <2> QED BY <2>2, <2>3, <2>4 DEF first
  <1>9. MadeNode(i, TRUE)' = MadeNode(i, TRUE)
    BY <1>6 DEF MadeNode
  <1>10. Gentle
    BY <1>6, GentleStay DEF Kept
  <1>11. NodeMade(i, mode)' /\ i \in disk'.bits
    BY <1>6, NodeStays DEF NodeMade
  <1>12. Written(n, mode, i)'
    <2>1. mode = "file" => LeafKept(disk', n, i)
      BY <1>4, <1>6, DiskKept
    <2> QED BY <1>4, <1>6, <1>11, <2>1 DEF Written
  <1>13. Logged(n, mode, i, sub)'
    <2> HIDE DEF last
    <2>1. (Cons(MadeNode(i, TRUE), last))' = Cons(MadeNode(i, TRUE), last) /\ last' = last
      BY <1>6, <1>9 DEF last, sub, Leaf
    <2> QED BY <1>6, <1>8, <1>12, <2>1 DEF Logged, last
  <1>14. PICK v : v = sub
    OBVIOUS
  <1>15. sub' = sub
    BY <1>6 DEF sub, Leaf
  <1>16. Logged(n, mode, i, v)'
    BY <1>13, <1>14, <1>15 DEF Logged
  <1> QED BY <1>6, <1>10, <1>16

LEMMA MadeStep ==
    ASSUME NInv, Kept, Steps, NEW n \in Names, NEW mode \in Kinds, NEW i \in Inodes, Creation(n, mode, i),
           Made(n, mode, i)
    PROVE  /\ Gentle /\ Frame /\ log' = log
           /\ Made(n, mode, i)' \/ \E sub : Logged(n, mode, i, sub)'
  <1> DEFINE adding == ToAddMade(n, mode, i)
             logging == ToLogMade(n, mode)
             count == SetCount(mem.count + 1, {"page", "count"})
  <1>1. IsSeq(adding) /\ IsSeq(logging)
    BY StepSeqs
  <1>2. /\ PromisesKept /\ 0 \in mem.bits /\ mem \in AnyPages
    BY DEF Kept, NInv
  <1>3. IsSeq(Cons(MadeNode(i, FALSE), adding)) /\ IsSeq(Cons(btree_write, logging))
    BY <1>1, ConsIs
  <1>4. CASE /\ todo = Cons(MknodStep(n, mode), logging)
             /\ FreeInodes(mem) # {} /\ i = Min(FreeInodes(mem))
    BY <1>4, NewNodeStep
  <1>5. CASE NodeMade(i, mode) /\ todo = Cons(Write({"bits"}), Cons(MadeNode(i, FALSE), adding))
    <2>1. Head(todo) = Write({"bits"})
      BY <1>3, <1>5, ConsIs
    <2>2. WriteBlock /\ Arg.parts = {"bits"}
      BY <2>1, StepOf DEF Write, Arg
    <2>3. Step(mem, {"bits"}, <<>>)
      BY <2>2 DEF WriteBlock
    <2>4. /\ mem' = mem /\ todo' = <<>> \o Cons(MadeNode(i, FALSE), adding)
          /\ DiskGets({"bits"}) /\ Frame /\ log' = log
      BY <1>3, <1>5, <2>3, StepIs
    <2>5. todo' = Cons(MadeNode(i, FALSE), adding)
      BY <1>3, <2>4, CatIs
    <2>6. Gentle
      BY <1>2, <2>4, GentleStay
    <2>7. NodeMade(i, mode)'
      BY <1>5, <2>4, NodeStays DEF NodeMade
    <2>8. i \in disk'.bits
      BY <1>5, <2>4 DEF NodeMade, DiskGets
    <2> QED BY <2>4, <2>5, <2>6, <2>7, <2>8 DEF Made, MadeNode
  <1>6. CASE NodeMade(i, mode) /\ i \in disk.bits /\ todo = Cons(MadeNode(i, FALSE), adding)
    <2> DEFINE node == mem.inodes[i]
    <2>1. Head(todo) = ToWriteInode(node, FALSE)
      BY <1>1, <1>6, ConsIs DEF MadeNode
    <2>2. inode_write /\ Arg.node = node /\ Arg.write_through = FALSE
      BY <2>1, StepOf DEF ToWriteInode, Arg
    <2>3. node.ino = i /\ node \in InodeType
      BY <1>2, <1>6 DEF NodeMade, NodeKept, AnyPages
    <2>4. Step(Wrote(mem, i, node), {}, <<>>)
      BY <2>2, <2>3 DEF inode_write, Through, Wrote
    <2>5. Wrote(mem, i, node) = mem
      BY <1>2 DEF Wrote, AnyPages
    <2>6. /\ mem' = mem /\ todo' = <<>> \o adding /\ DiskGets({}) /\ Frame /\ log' = log
      BY <1>1, <1>6, <2>4, <2>5, StepIs
    <2>7. todo' = adding
      BY <1>1, <2>6, CatIs
    <2>8. Gentle
      BY <1>2, <2>6, GentleStay
    <2>9. NodeMade(i, mode)' /\ i \in disk'.bits
      BY <1>6, <2>6, NodeStays DEF NodeMade
    <2> QED BY <2>6, <2>7, <2>8, <2>9 DEF Made
  <1>7. CASE NodeMade(i, mode) /\ i \in disk.bits /\ todo = adding
    BY <1>7, NewEntryStep
  <1>8. CASE /\ NodeMade(i, mode) /\ i \in disk.bits /\ LeafMade(n, mode, i)
             /\ todo = Cons(count, Cons(btree_write, logging))
    <2>1. Head(todo) = count
      BY <1>3, <1>8, ConsIs
    <2>2. WriteCount /\ Arg.count = mem.count + 1 /\ Arg.parts = {"page", "count"}
      BY <2>1, StepOf DEF SetCount, Arg
    <2>3. Step(Counted(mem, mem.count + 1), {"page", "count"}, <<>>)
      BY <2>2 DEF WriteCount, Counted
    <2>4. /\ mem' = Counted(mem, mem.count + 1) /\ todo' = <<>> \o Cons(btree_write, logging)
          /\ DiskGets({"page", "count"}) /\ Frame /\ log' = log
      BY <1>3, <1>8, <2>3, StepIs
    <2>5. todo' = Cons(btree_write, logging)
      BY <1>3, <2>4, CatIs
    <2>6. mem'.inodes = mem.inodes /\ mem'.bits = mem.bits /\ mem'.tree = mem.tree /\ mem'.subs = mem.subs
      BY <1>2, <2>4 DEF Counted, AnyPages
    <2>7. Gentle
      BY <1>2, <2>4, <2>6, GentleStay
    <2>8. NodeMade(i, mode)' /\ i \in disk'.bits
      BY <1>8, <2>4, <2>6, NodeStays DEF NodeMade
    <2>9. LeafMade(n, mode, i)'
      BY <1>8, <2>6, LeafStays
    <2> QED BY <2>4, <2>5, <2>7, <2>8, <2>9 DEF Made
  <1>9. CASE /\ NodeMade(i, mode) /\ i \in disk.bits /\ LeafMade(n, mode, i)
             /\ todo = Cons(btree_write, logging)
    <2>1. Head(todo) = btree_write
      BY <1>1, <1>9, ConsIs
    <2>2. WriteBlock /\ Arg.parts = {"tree"}
      BY <2>1, StepOf DEF btree_write, Write, Arg
    <2>3. Step(mem, {"tree"}, <<>>)
      BY <2>2 DEF WriteBlock
    <2>4. mem' = mem /\ todo' = <<>> \o logging /\ DiskGets({"tree"}) /\ Frame /\ log' = log
      BY <1>1, <1>9, <2>3, StepIs
    <2>5. todo' = logging
      BY <1>1, <2>4, CatIs
    <2>6. Gentle
      BY <1>2, <2>4, GentleStay
    <2>7. NodeMade(i, mode)' /\ i \in disk'.bits
      BY <1>9, <2>4, NodeStays DEF NodeMade
    <2>8. LeafMade(n, mode, i)'
      BY <1>9, <2>4, LeafStays
    <2>9. mode = "file" => LeafKept(disk', n, i)
      BY <1>9, <2>4 DEF LeafMade, LeafKept, HasLeaf, Leaf, DiskGets
    <2> QED BY <2>4, <2>5, <2>6, <2>7, <2>8, <2>9 DEF Made
  <1>10. CASE /\ NodeMade(i, mode) /\ i \in disk.bits /\ LeafMade(n, mode, i)
              /\ todo = logging /\ (mode = "file" => LeafKept(disk, n, i))
    BY <1>10, ToLogStep
  <1> QED BY <1>4, <1>5, <1>6, <1>7, <1>8, <1>9, <1>10 DEF Made

-----------------------------------------------------------------------------
(***************************************************************************)
(* A creation is logged, after the oldest entry if the ring is full.       *)
(***************************************************************************)
LEMMA KeptOn ==
    ASSUME NInv, Kept, Gentle, Frame,
           log' = log \/ (log # <<>> /\ ~ Mixed /\ log' = Tail(log))
    PROVE  Kept' /\ (Mixed' <=> Mixed) /\ Range(log') \subseteq Range(log)
  <1>1. Range(log') \subseteq Range(log)
    BY LogIs DEF NInv
  <1>2. Mixed' <=> Mixed
    BY <1>1 DEF Mixed, Frame
  <1>3. /\ PromisesKept' /\ 0 \in mem'.bits /\ 0 \in disk'.bits
        /\ \A e : EntryKept(e) => EntryKept(e)'
    BY GentleKeeps DEF Kept
  <1>4. ASSUME ~ Mixed', NEW e \in Range(log') PROVE EntryKept(e)'
    <2>1. EntryKept(e)
      BY <1>1, <1>2, <1>4 DEF Kept, LogKept
    <2> QED BY <1>3, <2>1
  <1>5. LogKept'
    BY <1>4 DEF LogKept
  <1>6. calm' \/ ~ Mixed'
    BY <1>2 DEF Kept, Frame
  <1> QED BY <1>1, <1>2, <1>3, <1>5, <1>6 DEF Kept

LEMMA WrittenStays ==
    ASSUME NEW n \in Names, NEW mode, NEW i, Written(n, mode, i), Gentle,
           mem'.inodes[i] = mem.inodes[i], mem'.bits = mem.bits,
           mode = "file" => LeafKept(mem', n, i)
    PROVE  Written(n, mode, i)'
  <1>1. PICK parts : DiskGets(parts)
    BY DEF Gentle
  <1>2. NodeMade(i, mode)' /\ i \in disk'.bits
    BY <1>1, NodeStays DEF Written, NodeMade
  <1>3. Resolves(mem', n)
    BY DEF Written, Gentle
  <1>4. mode = "file" => LeafKept(disk', n, i)
    BY <1>1, DiskKept DEF Written
  <1> QED BY <1>2, <1>3, <1>4 DEF Written

\* The entry of the creation is added, or the ring is full.
LEMMA JournalStep ==
    ASSUME NInv, Kept, Steps, ~ torn', NEW n \in Names, NEW mode \in Kinds, NEW i \in Inodes,
           Creation(n, mode, i), Fresh(n, i), Written(n, mode, i), NEW sub,
           todo = ToLogEntry(n, mode, i, sub)
    PROVE  UNCHANGED <<proc, call, dict, promised>> /\ Kept' /\ Making(n, mode, i)'
  <1> DEFINE e == MadeEntry(n, mode, i, sub)
             last == ToLogEntry(n, mode, i, sub)
  <1>1. Head(todo) = ToLog(e) /\ Tail(todo) = <<>>
    BY NilIs, ConsIs DEF ToLogEntry
  <1>2. initialize_journal_entry /\ Arg.entry = e
    BY <1>1, StepOf DEF ToLog, Arg
  <1>3. e.type = "MKNOD" /\ e.name = n /\ e.mode = mode /\ e.ino = i
    BY DEF MadeEntry
  <1>4. Entries(log) /\ IsSeq(last)
    BY StepSeqs DEF NInv
  <1> HIDE DEF e, last
  <1>5. CASE Len(log) = RingSize
    <2>1. /\ todo' = sync_entry(Head(log)) \o todo
          /\ torn' = (torn \/ Mixed \/ e.type # "MKNOD")
          /\ UNCHANGED <<proc, mem, disk, log, call, dict, promised>>
      BY <1>2, <1>5 DEF initialize_journal_entry
    <2>2. ~ Mixed /\ ~ Mixed'
      BY <2>1 DEF Mixed
    <2>3. log # <<>>
      <3>1. RingSize # 0
        BY NamespaceAssumption
      <3>2. Len(<<>>) = 0
        OBVIOUS
      <3> QED BY <1>5, <3>1, <3>2
    <2>4. Head(log).type = "MKNOD"
      BY <1>4, <2>2, <2>3, LogIs DEF Kept, LogKept, EntryKept
    <2>5. sync_entry(Head(log)) = <<ToSyncMknod(Head(log)), Mark>>
      BY <2>4 DEF sync_entry
    <2>6. \A a, b : <<a, b>> \o last = Cons(a, Cons(b, last))
      BY <1>4, CatIs
    <2>7. todo' = Cons(ToSyncMknod(Head(log)), Cons(Mark, last))
      BY <2>1, <2>5, <2>6 DEF last
    <2>8. Redoing(todo, last)'
      <3>1. last' = last
        BY DEF last
      <3> QED BY <2>1, <2>2, <2>3, <2>7, <3>1 DEF Redoing
    <2>9. Written(n, mode, i)' /\ Fresh(n, i)'
      BY <2>1, <2>2 DEF Written, NodeMade, NodeKept, Fresh
    <2>10. Logged(n, mode, i, sub)'
      BY <2>8, <2>9 DEF Logged, last
    <2>11. LogKept' /\ PromisesKept'
      BY <2>1, <2>2 DEF Kept, LogKept, EntryKept, PromisesKept
    <2>12. Kept'
      BY <2>1, <2>2, <2>11 DEF Kept
    <2> QED BY <2>1, <2>9, <2>10, <2>12 DEF Making
  <1>6. CASE Len(log) # RingSize
    <2>1. /\ log' = Append(log, e) /\ todo' = <<>>
          /\ UNCHANGED <<proc, mem, disk, call, calm, torn, dict, promised>>
      BY <1>1, <1>2, <1>6 DEF initialize_journal_entry, history
    <2>2. Range(log') = Range(log) \cup {e}
      BY <1>4, <2>1, LogIs
    <2>3. Mixed' <=> Mixed
      BY <1>3, <2>1, <2>2 DEF Mixed, Creation
    <2>4. EntryKept(e)
      <3>1. Marks(mem, i) /\ Marks(disk, i) /\ i \in Inodes \ {0}
        BY DEF Written, NodeMade, NodeKept, Marks, Creation
      <3>2. \A m \in promised : HarmlessTo(e, m, dict[m].ino)
        BY <1>3 DEF HarmlessTo, Creation
      <3> QED BY <1>3, <3>1, <3>2 DEF EntryKept, Written
    <2>5. \A x : EntryKept(x) => EntryKept(x)'
      BY <2>1 DEF EntryKept
    <2>6. LogKept'
      BY <2>2, <2>3, <2>4, <2>5 DEF Kept, LogKept
    <2>7. Kept'
      BY <2>1, <2>3, <2>6 DEF Kept, PromisesKept
    <2>8. Written(n, mode, i)'
      BY <2>1 DEF Written, NodeMade, NodeKept
    <2>9. ~ Mixed' => \A x \in Range(log') : (x.name = n => x.ino = i) /\ (x.ino = i => x.mode = mode)
      BY <1>3, <2>2, <2>3 DEF Fresh
    <2> QED BY <2>1, <2>7, <2>8, <2>9 DEF Making
  <1> QED BY <1>5, <1>6

LEMMA MakingStep ==
    ASSUME NInv, Kept, Steps, ~ torn', NEW n \in Names, NEW mode \in Kinds, NEW i \in Inodes,
           Creation(n, mode, i), Making(n, mode, i)
    PROVE  UNCHANGED <<proc, call, dict, promised>> /\ Kept' /\ Making(n, mode, i)'
  <1>1. todo # <<>>
    BY StepOf
  <1>2. CASE Fresh(n, i) /\ Made(n, mode, i)
    <2>1. /\ Gentle /\ Frame /\ log' = log
          /\ Made(n, mode, i)' \/ \E sub : Logged(n, mode, i, sub)'
      BY <1>2, MadeStep
    <2>2. Kept' /\ Fresh(n, i)'
      BY <1>2, <2>1, KeptOn DEF Fresh, Mixed
    <2> QED BY <2>1, <2>2 DEF Making, Frame
  <1>3. CASE Fresh(n, i) /\ \E sub : Logged(n, mode, i, sub)
    <2>1. PICK sub : Logged(n, mode, i, sub)
      BY <1>3
    <2> DEFINE last == ToLogEntry(n, mode, i, sub)
    <2>2. Written(n, mode, i) /\ IsSeq(last)
      BY <2>1, StepSeqs DEF Logged
    <2>3. last' = last
      BY DEF ToLogEntry, ToLog, MadeEntry
    <2>4. CASE todo = last
      BY <1>3, <2>2, <2>4, JournalStep
    <2> HIDE DEF last
    <2>5. CASE todo = Cons(MadeNode(i, TRUE), last)
      <3> DEFINE node == mem.inodes[i]
      <3>1. Head(todo) = ToWriteInode(node, TRUE)
        BY <2>2, <2>5, ConsIs DEF MadeNode
      <3>2. inode_write /\ Arg.node = node /\ Arg.write_through = TRUE
        BY <3>1, StepOf DEF ToWriteInode, Arg
      <3>3. node.ino = i /\ mem \in AnyPages
        BY <2>2 DEF Written, NodeMade, NodeKept, NInv
      <3>4. Step(Wrote(mem, i, node), {"inodes"}, <<>>)
        BY <3>2, <3>3 DEF inode_write, Through, Wrote
      <3>5. Wrote(mem, i, node) = mem
        BY <3>3 DEF Wrote, AnyPages
      <3>6. mem' = mem /\ todo' = <<>> \o last /\ DiskGets({"inodes"}) /\ Frame /\ log' = log
        BY <2>2, <2>5, <3>4, <3>5, StepIs
      <3>7. todo' = last
        BY <2>2, <3>6, CatIs
      <3>8. Gentle
        BY <3>6, GentleStay DEF Kept
      <3>9. Written(n, mode, i)'
        BY <2>2, <3>6, <3>8, WrittenStays DEF Written
      <3>10. Logged(n, mode, i, sub)'
        BY <2>3, <3>7, <3>9 DEF Logged, last
      <3>11. Kept' /\ Fresh(n, i)'
        BY <1>3, <3>6, <3>8, KeptOn DEF Fresh, Mixed
      <3> QED BY <3>6, <3>10, <3>11 DEF Making, Frame
    <2>6. CASE Redoing(todo, last)
      <3>1. log # <<>> /\ ~ Mixed /\ Entries(log)
        BY <2>6 DEF Redoing, NInv
      <3>2. (\A e \in Range(log) : EntryKept(e)) /\ PromisesKept /\ 0 \in mem.bits
        BY <3>1 DEF Kept, LogKept
      <3>3. /\ Gentle /\ Frame
            /\ \/ log' = log /\ Redoing(todo, last)'
               \/ log' = Tail(log) /\ todo' = last
            /\ mem'.bits = mem.bits /\ disk'.bits = disk.bits
            /\ \A k \in Inodes : k # Head(log).ino => mem'.inodes[k] = mem.inodes[k]
            /\ \A m \in Names : m # Head(log).name =>
                    \A k : LeafKept(mem, m, k) => LeafKept(mem', m, k)
        <4>1. PICK rest : rest = last
          OBVIOUS
        <4>2. Redoing(todo, rest) /\ IsSeq(rest)
          BY <2>2, <2>6, <4>1
        <4>3. /\ Gentle /\ Frame
              /\ \/ log' = log /\ Redoing(todo, rest)'
                 \/ log' = Tail(log) /\ todo' = rest
              /\ mem'.bits = mem.bits /\ disk'.bits = disk.bits
              /\ \A k \in Inodes : k # Head(log).ino => mem'.inodes[k] = mem.inodes[k]
              /\ \A m \in Names : m # Head(log).name =>
                      \A k : LeafKept(mem, m, k) => LeafKept(mem', m, k)
          BY <3>2, <4>2, RedoStep
        <4>4. Redoing(todo, rest)' => Redoing(todo, last)'
          BY <2>3, <4>1 DEF Redoing
        <4> QED BY <4>1, <4>3, <4>4
      <3>4. Head(log).name # n /\ Head(log).ino # i
        BY <1>3, <3>1, LogIs DEF Fresh
      <3>5. Written(n, mode, i)'
        BY <2>2, <3>3, <3>4, WrittenStays DEF Written
      <3>6. Kept' /\ ~ Mixed' /\ Range(log') \subseteq Range(log)
        BY <3>1, <3>3, KeptOn
      <3>7. Fresh(n, i)'
        BY <1>3, <3>1, <3>6 DEF Fresh
      <3>8. Logged(n, mode, i, sub)'
        BY <2>3, <3>3, <3>5 DEF Logged, last
      <3> QED BY <3>3, <3>6, <3>7, <3>8 DEF Making, Frame
    <2> QED BY <2>1, <2>4, <2>5, <2>6 DEF Logged, last
  <1> QED BY <1>1, <1>2, <1>3 DEF Making

-----------------------------------------------------------------------------
(***************************************************************************)
(* Other calls run only until the first kill or wrap, when the pages agree *)
(* with the names: a file that the call leaves alone is kept.              *)
(***************************************************************************)
LEMMA ListedKept ==
    ASSUME NEW p, NEW D, NEW n \in Names, n \in DOMAIN D, D[n].mode = "file"
    PROVE  /\ TreeIs(p, D) => LeafKept(p, n, D[n].ino)
           /\ \A m : TreeBut(p, D, m) /\ n # m => LeafKept(p, n, D[n].ino)
           /\ NodesAre(p, D) => D[n].ino \in p.bits /\ NodeKept(p, D[n].ino, "file")
  <1>1. TreeIsAt(p, D, n) => LeafKept(p, n, D[n].ino)
    BY DEF TreeIsAt, LeafIs, LeafKept
  <1> QED BY <1>1 DEF TreeIs, TreeBut, NodesAre, NodeKept

LEMMA AddingKeeps ==
    ASSUME NEW p, NEW td, NEW D, NEW m, NEW file, NEW rest, Adding(p, td, D, m, file, rest),
           NEW n \in Names, n \in DOMAIN D, n # m, D[n].mode = "file"
    PROVE  LeafKept(p, n, D[n].ino)
  <1>1. n \in DOMAIN With(D, m, file) /\ With(D, m, file)[n] = D[n]
    BY DEF With
  <1>2. TreeIs(p, D) \/ TreeIs(p, With(D, m, file))
    BY DEF Adding, Listing
  <1>3. TreeIs(p, D) => LeafKept(p, n, D[n].ino)
    BY ListedKept
  <1>4. TreeIs(p, With(D, m, file)) => LeafKept(p, n, D[n].ino)
    BY <1>1, ListedKept
  <1> QED BY <1>2, <1>3, <1>4

LEMMA UnlinkingKeeps ==
    ASSUME NEW p, NEW td, NEW D, NEW m, Unlinking(p, td, D, m),
           NEW n \in Names, n \in DOMAIN D, n # m, D[n].mode = "file"
    PROVE  FileKept(p, n, D[n].ino)
  <1> DEFINE C == Without(D, {m})
  <1>1. n \in DOMAIN C /\ C[n] = D[n]
    BY DEF Without
  <1> HIDE DEF C
  <1>2. \/ TreeIs(p, D) /\ NodesAre(p, D)
        \/ TreeBut(p, C, m) /\ NodesAre(p, C)
    BY DEF Unlinking, Agree, Listing, C
  <1>3. TreeIs(p, D) /\ NodesAre(p, D) => FileKept(p, n, D[n].ino)
    BY ListedKept DEF FileKept
  <1>4. TreeBut(p, C, m) /\ NodesAre(p, C) => FileKept(p, n, D[n].ino)
    BY <1>1, ListedKept DEF FileKept
  <1> QED BY <1>2, <1>3, <1>4

LEMMA LinkingKeeps ==
    ASSUME NEW p, NEW td, NEW D, NEW from, NEW to, NEW rest, Linking(p, td, D, from, to, rest),
           NEW n \in Names, n \in DOMAIN D, n # to, D[n].mode = "file"
    PROVE  FileKept(p, n, D[n].ino)
  <1> DEFINE E == With(D, to, D[from])
  <1>1. n \in DOMAIN E /\ E[n] = D[n]
    BY DEF With
  <1> HIDE DEF E
  <1>2. NodesAre(p, D)
    BY DEF Linking
  <1>3. \/ TreeIs(p, D) \/ TreeIs(p, E)
        \/ \E written : Adding(p, td, D, to, D[from], written)
    BY DEF Linking, Listing, E
  <1>4. LeafKept(p, n, D[n].ino)
    BY <1>1, <1>3, ListedKept, AddingKeeps
  <1> QED BY <1>2, <1>4, ListedKept DEF FileKept

LEMMA CreatingKeeps ==
    ASSUME NEW p, NEW td, NEW D, NEW m, NEW file, Creating(p, td, D, m, file),
           NEW n \in Names, n \in DOMAIN D, n # m, D[n].mode = "file"
    PROVE  FileKept(p, n, D[n].ino)
  <1> DEFINE E == With(D, m, file)
  <1>1. n \in DOMAIN E /\ E[n] = D[n]
    BY DEF With
  <1> HIDE DEF E
  <1>2. NodesAre(p, D) \/ NodesAre(p, E)
    BY DEF Creating, Agree, E
  <1>3. \/ TreeIs(p, D) \/ TreeIs(p, E)
        \/ \E rest : Adding(p, td, D, m, file, rest)
    BY DEF Creating, Agree, Listing, E
  <1>4. LeafKept(p, n, D[n].ino)
    BY <1>1, <1>3, ListedKept, AddingKeeps
  <1>5. D[n].ino \in p.bits /\ NodeKept(p, D[n].ino, "file")
    BY <1>1, <1>2, ListedKept
  <1> QED BY <1>4, <1>5 DEF FileKept

LEMMA CallKeeps ==
    ASSUME NEW p, NEW td, NEW c, NEW D, CallInProgress(p, td, c, D), NEW n \in Names,
           n \in DOMAIN D, n \in DOMAIN c.dict, c.dict[n] = D[n], D[n].mode = "file"
    PROVE  FileKept(p, n, D[n].ino)
  <1>1. ASSUME NEW E, Agree(p, E), n \in DOMAIN E, E[n] = D[n] PROVE FileKept(p, n, D[n].ino)
    BY <1>1, ListedKept DEF Agree, Listing, FileKept
  <1>2. CASE Agree(p, c.dict) \/ Agree(p, D)
    BY <1>1, <1>2
  <1>3. CASE \E m \in Names, file \in Files : m \notin DOMAIN D /\ Creating(p, td, D, m, file)
    BY <1>3, CreatingKeeps
  <1>4. CASE \E m \in DOMAIN D : c.dict = Without(D, {m}) /\ Unlinking(p, td, D, m)
    <2>1. PICK m \in DOMAIN D : c.dict = Without(D, {m}) /\ Unlinking(p, td, D, m)
      BY <1>4
    <2>2. n # m
      BY <2>1 DEF Without
    <2> QED BY <2>1, <2>2, UnlinkingKeeps
  <1>5. CASE \E from \in DOMAIN D, to \in Names \ DOMAIN D :
                \E rest : Linking(p, td, D, from, to, rest)
    BY <1>5, LinkingKeeps
  <1>6. CASE \E from \in DOMAIN D, to \in Names \ DOMAIN D :
                /\ c.dict = Without(With(D, to, D[from]), {from})
                /\ Unlinking(p, td, With(D, to, D[from]), from)
    <2>1. PICK from \in DOMAIN D, to \in Names \ DOMAIN D :
                /\ c.dict = Without(With(D, to, D[from]), {from})
                /\ Unlinking(p, td, With(D, to, D[from]), from)
      BY <1>6
    <2> DEFINE E == With(D, to, D[from])
    <2>2. n \in DOMAIN E /\ E[n] = D[n]
      BY DEF With
    <2> HIDE DEF E
    <2>3. n # from
      BY <2>1 DEF Without
    <2> QED BY <2>1, <2>2, <2>3, UnlinkingKeeps DEF E
  <1> QED BY <1>2, <1>3, <1>4, <1>5, <1>6 DEF CallInProgress

LEMMA CalmStepIs ==
    ASSUME Calm, call.op = "call", Steps, calm'
    PROVE  Same /\ PageType(mem') /\ CallInProgress(mem', todo', call, dict)
  <1>1. call # NoCall /\ call.op # "destroy"
    BY DEF NoCall
  <1> QED BY <1>1, CallStep DEF Calm

\* A step writes parts of the cache to the disk, or logs or marks an entry.
LEMMA AnyStep ==
    ASSUME NInv, Steps
    PROVE  /\ promised' = promised
           /\ \/ (\E parts : DiskGets(parts)) /\ calm' = calm /\ torn' = torn
              \/ Head(todo).do = "journal" /\ initialize_journal_entry
  <1>1. {"inodes", "bits", "tree"} \subseteq DOMAIN disk
    BY DEF NInv, AnyPages
  <1>2. ASSUME NEW p, NEW parts, NEW next, Step(p, parts, next)
        PROVE  /\ promised' = promised /\ calm' = calm /\ torn' = torn
               /\ \E x : DiskGets(x)
    <2>1. DiskGets(parts) /\ promised' = promised /\ calm' = calm /\ torn' = torn
      BY <1>1, <1>2 DEF Step, DiskGets, history
    <2> QED BY <2>1
  <1>3. CASE MarkEntry
    <2>1. disk' = disk /\ mem' = mem /\ promised' = promised /\ calm' = calm /\ torn' = torn
      BY <1>3 DEF MarkEntry, history
    <2>2. DiskGets({})
      BY <2>1 DEF DiskGets
    <2> QED BY <2>1, <2>2
  <1>4. CASE initialize_journal_entry
    BY <1>4 DEF initialize_journal_entry, Doing, history
  <1>5. CASE WriteBlock \/ inode_write \/ WriteCount
    BY <1>2, <1>5 DEF WriteBlock, inode_write, WriteCount
  <1>6. CASE btree_delete \/ btree_insert \/ directory_add_entry
    BY <1>2, <1>6 DEF btree_delete, btree_insert, directory_add_entry
  <1>7. CASE directory_remove_entry
    BY <1>2, <1>7 DEF directory_remove_entry
  <1>8. CASE _mknod \/ _unlink
    BY <1>2, <1>8 DEF _mknod, _unlink
  <1>9. CASE _link
    BY <1>2, <1>9 DEF _link
  <1>10. CASE _rename \/ SyncMknod \/ SyncLeaf \/ LogMknod
    BY <1>2, <1>10 DEF _rename, SyncMknod, SyncLeaf, LogMknod
  <1> QED BY <1>3, <1>4, <1>5, <1>6, <1>7, <1>8, <1>9, <1>10 DEF Steps

LEMMA ChangingStep ==
    ASSUME NInv, CalmInv, Kept, Steps, ~ torn', call.op = "call", Changing,
           \A m \in promised : m \in DOMAIN call.dict /\ call.dict[m] = dict[m]
    PROVE  UNCHANGED <<proc, call, dict, promised>> /\ Kept' /\ Changing'
  <1>1. calm /\ Calm /\ Entries(log)
    BY DEF Changing, CalmInv, NInv
  <1>2. ASSUME initialize_journal_entry
        PROVE  /\ calm' = calm /\ DiskGets({}) /\ log' = Append(log, Arg.entry)
    <2>1. Len(log) # RingSize
      <3>1. Mixed \/ Arg.entry.type # "MKNOD"
        BY DEF Changing, Arg
      <3>2. Len(log) = RingSize => torn' = (torn \/ Mixed \/ Arg.entry.type # "MKNOD")
        BY <1>2 DEF initialize_journal_entry
      <3> QED BY <3>1, <3>2
    <2>2. log' = Append(log, Arg.entry) /\ mem' = mem /\ disk' = disk /\ calm' = calm
      BY <1>2, <2>1 DEF initialize_journal_entry, history
    <2> QED BY <2>2 DEF DiskGets
  <1>3. calm' = calm /\ (\E parts : DiskGets(parts)) /\ promised' = promised
    BY <1>2, AnyStep
  <1>4. Same /\ PageType(mem') /\ CallInProgress(mem', todo', call, dict)
    BY <1>1, <1>3, CalmStepIs
  <1>5. UNCHANGED <<proc, call, dict, promised>> /\ log' \in {log, Append(log, Arg.entry)}
    BY <1>3, <1>4 DEF Same
  <1>6. Mixed'
    <2> DEFINE e == Arg.entry
    <2> HIDE DEF e
    <2>0. Range(Append(log, e)) = Range(log) \cup {e}
      BY <1>1, LogIs
    <2>1. CASE Mixed
      <3>1. Range(log) \subseteq Range(log')
        BY <1>5, <2>0 DEF e
      <3> QED BY <2>1, <3>1 DEF Mixed
    <2>2. CASE ~ Mixed
      <3>1. Head(todo).do = "journal" /\ Arg.entry.type # "MKNOD"
        BY <2>2 DEF Changing, Arg
      <3>2. initialize_journal_entry
        BY <3>1, StepOf
      <3>3. Arg.entry \in Range(log')
        BY <1>2, <2>0, <3>2 DEF e
      <3> QED BY <3>1, <3>3 DEF Mixed
    <2> QED BY <2>1, <2>2
  <1>7. PICK parts : DiskGets(parts)
    BY <1>3
  <1>8. ASSUME NEW n \in promised
        PROVE  /\ dict[n].ino \in Inodes \ {0} /\ dict[n].mode = "file"
               /\ FileKept(mem', n, dict[n].ino) /\ FileKept(disk', n, dict[n].ino)
    <2>1. n \in Names /\ n \in DOMAIN dict /\ n \in DOMAIN call.dict /\ call.dict[n] = dict[n]
      BY DEF NInv
    <2>2. /\ dict[n].ino \in Inodes \ {0} /\ dict[n].mode = "file" /\ FileKept(disk, n, dict[n].ino)
      BY DEF Kept, PromisesKept
    <2>3. FileKept(mem', n, dict[n].ino)
      BY <1>4, <2>1, <2>2, CallKeeps
    <2> QED BY <1>7, <2>2, <2>3, DiskKept
  <1>9. PromisesKept'
    BY <1>5, <1>8 DEF PromisesKept
  <1>10. 0 \in mem'.bits /\ 0 \in disk'.bits
    BY <1>4, <1>7, DiskKept DEF PageType, Kept
  <1>11. Kept'
    BY <1>1, <1>3, <1>6, <1>9, <1>10 DEF Kept, LogKept
  <1>12. Changing'
    BY <1>1, <1>3, <1>5, <1>6 DEF Changing
  <1> QED BY <1>5, <1>11, <1>12

-----------------------------------------------------------------------------
(***************************************************************************)
(* Every step keeps the invariant.                                         *)
(***************************************************************************)
LEMMA StepKeeps ==
    ASSUME NInv, CalmInv, Kept, Where, Steps, ~ torn'
    PROVE  Kept' /\ Where'
  <1>1. todo # <<>>
    BY StepOf
  <1>2. CASE proc = "replaying" /\ call = NoCall /\ ~ Mixed /\ Redoing(todo, <<>>)
    <2>1. (\A e \in Range(log) : EntryKept(e)) /\ PromisesKept /\ 0 \in mem.bits /\ log # <<>>
      BY <1>2 DEF Kept, LogKept, Redoing
    <2>2. /\ Gentle /\ Frame
          /\ \/ log' = log /\ Redoing(todo, <<>>)'
             \/ log' = Tail(log) /\ todo' = <<>>
      <3>1. PICK rest : rest = <<>>
        OBVIOUS
      <3>2. Redoing(todo, rest) /\ IsSeq(rest)
        BY <1>2, <3>1, NilIs
      <3>3. /\ Gentle /\ Frame
            /\ \/ log' = log /\ Redoing(todo, rest)'
               \/ log' = Tail(log) /\ todo' = rest
        BY <2>1, <3>2, RedoStep
      <3> QED BY <3>1, <3>3 DEF Redoing
    <2>3. Kept' /\ ~ Mixed'
      BY <1>2, <2>1, <2>2, KeptOn
    <2> QED BY <1>2, <2>2, <2>3 DEF Where, Frame
  <1>3. CASE proc = "mounted" /\ call.op = "call" /\ Calling
    <2>1. \A m \in promised : m \in DOMAIN call.dict /\ call.dict[m] = dict[m]
      BY <1>3 DEF Calling
    <2>2. CASE Changing
      <3>1. UNCHANGED <<proc, call, dict, promised>> /\ Kept' /\ Changing'
        BY <1>3, <2>1, <2>2, ChangingStep
      <3>2. Calling'
        BY <2>1, <3>1 DEF Calling
      <3> QED BY <1>3, <3>1, <3>2 DEF Where
    <2>3. CASE \E n \in Names, mode \in Kinds, i \in Inodes : Creation(n, mode, i) /\ Making(n, mode, i)
      <3>1. PICK n \in Names, mode \in Kinds, i \in Inodes : Creation(n, mode, i) /\ Making(n, mode, i)
        BY <2>3
      <3>2. UNCHANGED <<proc, call, dict, promised>> /\ Kept' /\ Making(n, mode, i)'
        BY <3>1, MakingStep
      <3>3. Creation(n, mode, i)'
        BY <3>1, <3>2 DEF Creation
      <3>4. Calling'
        BY <2>1, <3>2, <3>3 DEF Calling
      <3> QED BY <1>3, <3>2, <3>4 DEF Where
    <2> QED BY <1>3, <2>2, <2>3 DEF Calling
  <1> QED BY <1>1, <1>2, <1>3 DEF Where

\* A call starts, and promises are withdrawn at most.
LEMMA StartKeeps ==
    ASSUME Kept, UNCHANGED <<proc, mem, disk, log, calm, dict>>, promised' \subseteq promised,
           call = NoCall, call'.op = "call"
    PROVE  Kept'
  <1>1. \A e : EntryKept(e) => EntryKept(e)'
    BY DEF EntryKept
  <1>2. PromisesKept'
    BY DEF Kept, PromisesKept
  <1>3. Mixed' <=> Mixed
    BY DEF Mixed, NoCall
  <1>4. LogKept' /\ (calm' \/ ~ Mixed')
    BY <1>1, <1>3 DEF Kept, LogKept
  <1> QED BY <1>2, <1>4 DEF Kept

LEMMA MknodKeeps ==
    ASSUME NInv, Kept, Where, NEW n \in Names, NEW mode \in Kinds, nbtrfs_mknod(n, mode)
    PROVE  Kept' /\ Where'
  <1>0. FreeInodes(mem) # {} /\ FreeInodes(mem) \in SUBSET Nat
    BY SlotsAre DEF nbtrfs_mknod, FreeInodes
  <1>1. PICK i \in Inodes : i = Min(FreeInodes(mem)) /\ i \notin mem.bits
    BY <1>0, MinIs DEF FreeInodes
  <1> DEFINE steps == <<MknodStep(n, mode), LogStep(n, mode)>>
             file == [ino |-> i, mode |-> mode, id |-> ops]
             c == [op |-> "call", ino |-> i, dict |-> With(dict, n, file),
                   promise |-> IF mode = "file" THEN {n} ELSE {}]
  <1>2. ~ Resolves(mem, n) /\ Call(steps, c) /\ promised' = promised \ {n}
    BY <1>1 DEF nbtrfs_mknod, MknodStep, LogStep
  <1>3. /\ DOMAIN c.dict = DOMAIN dict \cup {n} /\ c.dict[n] = file
        /\ \A m \in DOMAIN dict : m # n => c.dict[m] = dict[m]
        /\ file.ino = i /\ file.mode = mode
        /\ c.op = "call" /\ c.ino = i /\ c.promise = IF mode = "file" THEN {n} ELSE {}
    BY DEF With
  <1> HIDE DEF file, c
  <1>4. /\ proc = "mounted" /\ todo' = steps /\ call' = c /\ call = NoCall
        /\ UNCHANGED <<proc, mem, disk, log, calm, dict>>
    BY <1>2 DEF Call, Idle
  <1>5. todo' = Cons(MknodStep(n, mode), ToLogMade(n, mode))
    BY <1>4, TupleIs DEF ToLogMade
  <1>6. Kept'
    BY <1>2, <1>3, <1>4, StartKeeps
  <1>7. i # 0 /\ \A m \in promised : dict[m].ino # i
    BY <1>1 DEF Kept, PromisesKept, FileKept
  <1>8. Creation(n, mode, i)'
    BY <1>2, <1>3, <1>4, <1>7 DEF Creation
  <1>9. Fresh(n, i)'
    <2>1. ~ Mixed => \A e \in Range(log) : e.name # n /\ e.ino # i
      BY <1>1, <1>2, <1>4 DEF Kept, LogKept, EntryKept, Marks
    <2> QED BY <1>3, <1>4, <2>1 DEF Fresh, Mixed, NoCall
  <1>10. Made(n, mode, i)'
    <2>1. FreeInodes(mem') # {} /\ i = Min(FreeInodes(mem'))
      BY <1>0, <1>1, <1>4
    <2> QED BY <1>5, <2>1 DEF Made
  <1>11. Making(n, mode, i)'
    BY <1>9, <1>10 DEF Making
  <1>12. \A m \in promised' : m \in DOMAIN c.dict /\ c.dict[m] = dict[m]
    BY <1>2, <1>3 DEF NInv
  <1>13. Calling'
    BY <1>4, <1>8, <1>11, <1>12 DEF Calling
  <1> QED BY <1>3, <1>4, <1>6, <1>13 DEF Where

\* The other calls start while the mount is calm: torn' is false.
LEMMA ChangeStarts ==
    ASSUME Kept, calm, NEW e, e.type # "MKNOD", NEW s, NEW c, Call(<<ToLog(e), s>>, c),
           c.op = "call", c.promise = {}, promised' \subseteq promised,
           \A m \in promised' : m \in DOMAIN c.dict /\ c.dict[m] = dict[m]
    PROVE  Kept' /\ Where'
  <1>1. /\ proc = "mounted" /\ todo' = <<ToLog(e), s>> /\ call' = c /\ call = NoCall
        /\ UNCHANGED <<proc, mem, disk, log, calm, dict>>
    BY DEF Call, Idle
  <1>2. todo' # <<>> /\ Head(todo') = ToLog(e)
    BY <1>1
  <1>3. ToLog(e).do = "journal" /\ ToLog(e).entry = e
    BY DEF ToLog
  <1>4. Changing'
    BY <1>1, <1>2, <1>3 DEF Changing
  <1>5. Calling'
    BY <1>1, <1>4 DEF Calling
  <1>6. Kept'
    BY <1>1, StartKeeps
  <1> QED BY <1>1, <1>5, <1>6 DEF Where

LEMMA ChangesKeep ==
    ASSUME NInv, Kept, Where, ~ torn'
    PROVE  /\ \A n \in Names : nbtrfs_unlink(n) => Kept' /\ Where'
           /\ \A from, to \in Names : nbtrfs_link(from, to) => Kept' /\ Where'
           /\ \A from, to \in Names : nbtrfs_rename(from, to) => Kept' /\ Where'
  <1>1. promised \subseteq DOMAIN dict
    BY DEF NInv
  <1>2. ASSUME NEW n \in Names, nbtrfs_unlink(n) PROVE Kept' /\ Where'
    <2> DEFINE e == [type |-> "UNLINK", name |-> n]
               c == [op |-> "call", dict |-> Without(dict, {n}), promise |-> {}]
    <2>1. calm /\ Call(<<ToLog(e), ToUnlink(n, FALSE)>>, c) /\ promised' = promised \ {n}
      BY <1>2 DEF nbtrfs_unlink
    <2>2. e.type # "MKNOD" /\ c.op = "call" /\ c.promise = {}
      OBVIOUS
    <2>3. \A m \in promised' : m \in DOMAIN c.dict /\ c.dict[m] = dict[m]
      BY <1>1, <2>1 DEF Without
    <2> HIDE DEF e, c
    <2> QED BY <2>1, <2>2, <2>3, ChangeStarts
  <1>3. ASSUME NEW from \in Names, NEW to \in Names, nbtrfs_link(from, to) PROVE Kept' /\ Where'
    <2> DEFINE e == [type |-> "LINK", name |-> from, to |-> to]
               D == IF from \in DOMAIN dict THEN With(dict, to, dict[from]) ELSE dict
               c == [op |-> "call", promise |-> {}, dict |-> D]
    <2>1. calm /\ Call(<<ToLog(e), ToLink(from, to, FALSE)>>, c) /\ promised' = promised \ {to}
      BY <1>3 DEF nbtrfs_link
    <2>2. e.type # "MKNOD" /\ c.op = "call" /\ c.promise = {} /\ c.dict = D
      OBVIOUS
    <2>3. \A m \in promised' : m \in DOMAIN D /\ D[m] = dict[m]
      BY <1>1, <2>1 DEF With
    <2> HIDE DEF e, c, D
    <2> QED BY <2>1, <2>2, <2>3, ChangeStarts
  <1>4. ASSUME NEW from \in Names, NEW to \in Names, nbtrfs_rename(from, to) PROVE Kept' /\ Where'
    <2> DEFINE e == [type |-> "RENAME", name |-> from, to |-> to]
               D == IF from \in DOMAIN dict /\ ~ HasLeaf(mem, to)
                    THEN Without(With(dict, to, dict[from]), {from}) ELSE dict
               c == [op |-> "call", promise |-> {}, dict |-> D]
    <2>1. calm /\ Call(<<ToLog(e), ToRename(from, to, FALSE)>>, c) /\ promised' = promised \ {from, to}
      BY <1>4 DEF nbtrfs_rename
    <2>2. e.type # "MKNOD" /\ c.op = "call" /\ c.promise = {} /\ c.dict = D
      OBVIOUS
    <2>3. \A m \in promised' : m \in DOMAIN D /\ D[m] = dict[m]
      BY <1>1, <2>1 DEF With, Without
    <2> HIDE DEF e, c, D
    <2> QED BY <2>1, <2>2, <2>3, ChangeStarts
  <1> QED BY <1>2, <1>3, <1>4

\* The call returns, and its file is promised.
LEMMA ReturnKeeps ==
    ASSUME NInv, Kept, Where, Return
    PROVE  Kept' /\ Where'
  <1>1. /\ proc = "mounted" /\ todo = <<>> /\ call.op = "call" /\ call' = NoCall /\ dict' = call.dict
        /\ promised' = promised \cup call.promise
        /\ UNCHANGED <<proc, mem, disk, log, todo, calm, torn>>
    BY DEF Return
  <1>2. Where'
    BY <1>1 DEF Where
  <1>3. Calling
    BY <1>1 DEF Where, NoCall
  <1>4. \A m \in promised : dict'[m] = dict[m]
    BY <1>1, <1>3 DEF Calling
  <1>5. ASSUME NEW n, NEW e, n \in promised PROVE HarmlessTo(e, n, dict'[n].ino) <=> HarmlessTo(e, n, dict[n].ino)
    BY <1>4, <1>5
  <1>6. CASE Changing
    <2>1. promised' = promised /\ Mixed /\ Mixed'
      BY <1>1, <1>6 DEF Changing, Mixed, NoCall
    <2>2. PromisesKept'
      BY <1>1, <1>4, <2>1 DEF Kept, PromisesKept
    <2> QED BY <1>1, <1>2, <2>1, <2>2 DEF Kept, LogKept
  <1>7. CASE \E n \in Names, mode \in Kinds, i \in Inodes : Creation(n, mode, i) /\ Making(n, mode, i)
    <2>1. PICK n \in Names, mode \in Kinds, i \in Inodes : Creation(n, mode, i) /\ Making(n, mode, i)
      BY <1>7
    <2>2. \A a, s : IsSeq(s) => Cons(a, s) # <<>> /\ IsSeq(Cons(a, s))
      BY ConsIs
    <2>3. ~ Made(n, mode, i)
      <3>1. IsSeq(ToLogMade(n, mode)) /\ IsSeq(ToAddMade(n, mode, i))
        BY StepSeqs
      <3>2. ToAddMade(n, mode, i) # <<>> /\ ToLogMade(n, mode) # <<>>
        BY <2>2, <3>1, NilIs DEF ToAddMade, ToLogMade
      <3> QED BY <1>1, <2>2, <3>1, <3>2 DEF Made
    <2>4. ASSUME NEW sub, Logged(n, mode, i, sub) PROVE FALSE
      <3> DEFINE last == ToLogEntry(n, mode, i, sub)
      <3>1. IsSeq(last) /\ last # <<>>
        BY <2>2, NilIs, StepSeqs DEF ToLogEntry
      <3> HIDE DEF last
      <3>2. ~ Redoing(todo, last)
        BY <1>1, <2>2, <3>1 DEF Redoing
      <3> QED BY <1>1, <2>2, <2>4, <3>1, <3>2 DEF Logged, last
    <2>5. /\ Written(n, mode, i)
          /\ ~ Mixed => \A e \in Range(log) : (e.name = n => e.ino = i) /\ (e.ino = i => e.mode = mode)
      BY <2>1, <2>3, <2>4 DEF Making
    <2>6. /\ promised' = promised \cup (IF mode = "file" THEN {n} ELSE {})
          /\ dict'[n].ino = i /\ dict'[n].mode = mode /\ i \in Inodes \ {0}
      BY <1>1, <2>1 DEF Creation
    <2>7. mode = "file" => FileKept(mem, n, i) /\ FileKept(disk, n, i)
      BY <2>5 DEF Written, NodeMade, FileKept
    <2>8. PromisesKept'
      <3> SUFFICES ASSUME NEW m \in promised'
                   PROVE  /\ dict'[m].ino \in Inodes \ {0} /\ dict'[m].mode = "file"
                          /\ FileKept(mem', m, dict'[m].ino) /\ FileKept(disk', m, dict'[m].ino)
        BY DEF PromisesKept
      <3>1. CASE m \in promised
        BY <1>1, <1>4, <3>1 DEF Kept, PromisesKept
      <3>2. CASE m \notin promised
        BY <1>1, <2>6, <2>7, <3>2
      <3> QED BY <3>1, <3>2
    <2>9. ASSUME ~ Mixed', NEW e \in Range(log') PROVE EntryKept(e)'
      <3>1. ~ Mixed /\ e \in Range(log)
        BY <1>1, <2>9 DEF Mixed, NoCall
      <3>2. EntryKept(e)
        BY <3>1 DEF Kept, LogKept
      <3>3. ASSUME NEW m \in promised' PROVE HarmlessTo(e, m, dict'[m].ino)
        <4>1. CASE m \in promised
          BY <1>5, <3>2, <4>1 DEF EntryKept
        <4>2. CASE m \notin promised
          BY <2>5, <2>6, <3>1, <4>2 DEF HarmlessTo
        <4> QED BY <4>1, <4>2
      <3> QED BY <1>1, <3>2, <3>3 DEF EntryKept
    <2>10. LogKept'
      BY <2>9 DEF LogKept
    <2>11. calm' \/ ~ Mixed'
      BY <1>1 DEF Kept, Mixed, NoCall
    <2> QED BY <1>1, <1>2, <2>8, <2>10, <2>11 DEF Kept
  <1> QED BY <1>3, <1>6, <1>7 DEF Calling

\* Unmount, kill, and mount with its replay.
LEMMA MountKeeps ==
    ASSUME NInv, Kept, Where, ~ torn',
           nbtrfs_destroy \/ mark_journal_synced \/ cache_sync \/ Mount \/ sync_journal \/ Kill
    PROVE  Kept' /\ Where'
  <1>1. Entries(log)
    BY DEF NInv
  <1>2. Range(<<>>) = {}
    BY DEF Range
  <1>3. ASSUME log' = <<>> PROVE ~ Mixed' /\ LogKept'
    BY <1>2, <1>3 DEF Mixed, LogKept
  <1>4. CASE nbtrfs_destroy
    <2>1. /\ proc = "mounted" /\ todo = <<>> /\ call = NoCall /\ call'.op = "destroy"
          /\ call'.mixed = Mixed /\ UNCHANGED <<proc, mem, disk, log, todo, calm, torn, dict, promised>>
      BY <1>4 DEF nbtrfs_destroy, Idle, history
    <2>2. PromisesKept' /\ (\A e : EntryKept(e) => EntryKept(e)')
      BY <2>1 DEF Kept, PromisesKept, EntryKept
    <2>3. (Mixed' <=> Mixed) /\ (Mixed' => call'.mixed)
      BY <1>2, <2>1 DEF Mixed, NoCall
    <2>4. LogKept'
      BY <2>1, <2>2, <2>3 DEF Kept, LogKept
    <2> QED BY <2>1, <2>2, <2>3, <2>4 DEF Kept, Where
  <1>5. CASE cache_sync
    <2>1. /\ call.op = "destroy" /\ disk' = mem /\ mem' = mem /\ proc' = "down" /\ call' = NoCall
          /\ UNCHANGED <<log, todo, calm, torn, dict, promised>>
      BY <1>5 DEF cache_sync, history
    <2>2. todo = <<>> /\ log = <<>>
      BY <1>5, <2>1 DEF cache_sync, Where, NoCall
    <2>3. PromisesKept'
      BY <2>1 DEF Kept, PromisesKept
    <2> QED BY <1>3, <2>1, <2>2, <2>3 DEF Kept, Where
  <1>6. CASE Mount
    <2>1. /\ proc = "down" /\ proc' = "replaying"
          /\ UNCHANGED <<mem, disk, log, todo, call, calm, torn, dict, promised>>
      BY <1>6 DEF Mount, history
    <2>2. PromisesKept' /\ (\A e : EntryKept(e) => EntryKept(e)') /\ (Mixed' <=> Mixed)
      BY <2>1 DEF Kept, PromisesKept, EntryKept, Mixed
    <2>3. LogKept'
      BY <2>1, <2>2 DEF Kept, LogKept
    <2> QED BY <2>1, <2>2, <2>3 DEF Kept, Where
  <1>7. CASE sync_journal
    <2>1. /\ proc = "replaying" /\ todo = <<>>
          /\ UNCHANGED <<mem, disk, log, call, calm, torn, dict, promised>>
      BY <1>7 DEF sync_journal, history
    <2>2. call = NoCall /\ ~ Mixed /\ ~ Mixed'
      BY <2>1 DEF Where, Mixed
    <2>3. PromisesKept'
      BY <2>1 DEF Kept, PromisesKept
    <2>4. CASE log = <<>>
      <3>1. proc' = "mounted" /\ todo' = todo /\ log' = <<>>
        BY <1>7, <2>1, <2>4 DEF sync_journal
      <3> QED BY <1>3, <2>1, <2>2, <2>3, <3>1 DEF Kept, Where
    <2>5. CASE log # <<>>
      <3>1. proc' = proc /\ todo' = sync_entry(Head(log))
        BY <1>7, <2>5 DEF sync_journal
      <3>2. Head(log).type = "MKNOD"
        BY <1>1, <2>2, <2>5, LogIs DEF Kept, LogKept, EntryKept
      <3>3. sync_entry(Head(log)) = <<ToSyncMknod(Head(log)), Mark>>
        BY <3>2 DEF sync_entry
      <3>4. todo' = Cons(ToSyncMknod(Head(log)), Cons(Mark, <<>>))
        BY <3>1, <3>3, TupleIs
      <3>5. Redoing(todo, <<>>)'
        BY <2>1, <2>2, <2>5, <3>4 DEF Redoing
      <3>6. LogKept'
        BY <2>1, <2>2, <3>1 DEF Kept, LogKept, EntryKept
      <3> QED BY <2>1, <2>2, <2>3, <3>1, <3>5, <3>6 DEF Kept, Where
    <2> QED BY <2>4, <2>5
  <1>8. CASE Kill
    <2>1. /\ proc' = "down" /\ todo' = <<>> /\ call' = NoCall /\ mem' = disk
          /\ torn' = (torn \/ Mixed) /\ UNCHANGED <<disk, log, dict, promised>>
      BY <1>8 DEF Kill
    <2>2. ~ Mixed /\ ~ Mixed'
      BY <2>1 DEF Mixed, NoCall
    <2>3. PromisesKept'
      BY <2>1 DEF Kept, PromisesKept
    <2>4. \A e : EntryKept(e) => EntryKept(e)'
      BY <2>1 DEF EntryKept
    <2>5. LogKept'
      BY <2>1, <2>2, <2>4 DEF Kept, LogKept
    <2> QED BY <2>1, <2>2, <2>3, <2>5 DEF Kept, Where
  <1>9. CASE mark_journal_synced
    <2>1. /\ call.op = "destroy" /\ log # <<>> /\ log' = Tail(log)
          /\ UNCHANGED <<proc, mem, disk, todo, call, calm, torn, dict, promised>>
      BY <1>9 DEF mark_journal_synced, history
    <2>2. proc = "mounted" /\ todo = <<>> /\ (Mixed => call.mixed)
      BY <2>1 DEF Where, NoCall
    <2>3. Range(log') \subseteq Range(log)
      BY <1>1, <2>1, LogIs
    <2>4. Mixed' => Mixed
      BY <2>1, <2>3 DEF Mixed
    <2>5. PromisesKept' /\ (\A e : EntryKept(e) => EntryKept(e)')
      BY <2>1 DEF Kept, PromisesKept, EntryKept
    <2>6. CASE log' = <<>>
      BY <1>3, <2>1, <2>2, <2>5, <2>6 DEF Kept, Where
    <2>7. CASE log' # <<>>
      <3>1. Mixed => Mixed'
        BY <2>1, <2>2, <2>7 DEF Mixed
      <3>2. LogKept'
        BY <2>3, <2>5, <3>1 DEF Kept, LogKept
      <3> QED BY <2>1, <2>2, <2>4, <2>5, <3>2 DEF Kept, Where
    <2> QED BY <2>6, <2>7
  <1> QED BY <1>4, <1>5, <1>6, <1>7, <1>8, <1>9

LEMMA SInit == Init => SInv
  <1> SUFFICES ASSUME Init PROVE Kept /\ Where
    BY DEF SInv
  <1>1. Range(<<>>) = {}
    BY DEF Range
  <1>2. mem.bits = {0} /\ disk.bits = {0}
    BY DEF Init, EmptyPages
  <1>3. ~ Mixed /\ LogKept /\ PromisesKept
    BY <1>1 DEF Init, Mixed, LogKept, PromisesKept
  <1> QED BY <1>2, <1>3 DEF Init, Kept, Where

\* torn stays.
LEMMA TornStays ==
    ASSUME NInv, [Next]_vars, torn
    PROVE  torn'
  <1>1. \A p, parts, next : Step(p, parts, next) => torn' = torn
    BY DEF Step, history
  <1>2. CASE UNCHANGED vars
    BY <1>2 DEF vars, history
  <1>3. CASE Steps
    <2>1. initialize_journal_entry => torn'
      BY DEF initialize_journal_entry, history
    <2> QED BY <1>3, <2>1, AnyStep
  <1>4. CASE \/ \E n \in Names, mode \in {"file", "dir"} : nbtrfs_mknod(n, mode)
             \/ \E n \in Names : nbtrfs_unlink(n)
             \/ \E from, to \in Names : nbtrfs_link(from, to)
             \/ \E from, to \in Names : nbtrfs_rename(from, to)
    BY <1>4 DEF nbtrfs_mknod, nbtrfs_unlink, nbtrfs_link, nbtrfs_rename
  <1>5. CASE Return \/ nbtrfs_destroy \/ mark_journal_synced \/ cache_sync \/ Mount \/ sync_journal \/ Kill
    BY <1>5 DEF Return, nbtrfs_destroy, mark_journal_synced, cache_sync, Mount, sync_journal, Kill, history
  <1> QED BY <1>2, <1>3, <1>4, <1>5 DEF Next, Steps

LEMMA SNext == NInv /\ CalmInv /\ SInv /\ [Next]_vars => SInv'
  <1> SUFFICES ASSUME NInv, CalmInv, SInv, [Next]_vars, ~ torn' PROVE Kept' /\ Where'
    BY DEF SInv
  <1>1. Kept /\ Where
    BY TornStays DEF SInv
  <1>2. CASE \E n \in Names, mode \in {"file", "dir"} : nbtrfs_mknod(n, mode)
    BY <1>1, <1>2, MknodKeeps DEF Kinds
  <1>3. CASE \/ \E n \in Names : nbtrfs_unlink(n)
             \/ \E from, to \in Names : nbtrfs_link(from, to)
             \/ \E from, to \in Names : nbtrfs_rename(from, to)
    BY <1>1, <1>3, ChangesKeep
  <1>4. CASE Return
    BY <1>1, <1>4, ReturnKeeps
  <1>5. CASE nbtrfs_destroy \/ mark_journal_synced \/ cache_sync \/ Mount \/ sync_journal \/ Kill
    BY <1>1, <1>5, MountKeeps
  <1>6. CASE Steps
    BY <1>1, <1>6, StepKeeps
  <1>7. CASE UNCHANGED vars
    <2>1. UNCHANGED <<proc, mem, disk, log, todo, call, calm, torn, dict, promised>>
      BY <1>7 DEF vars, history
    <2>2. Kept'
      <3>1. \A e : EntryKept(e) => EntryKept(e)'
        BY <2>1 DEF EntryKept
      <3>2. PromisesKept'
        BY <1>1, <2>1 DEF Kept, PromisesKept
      <3>3. Mixed' <=> Mixed
        BY <2>1 DEF Mixed
      <3> QED BY <1>1, <2>1, <3>1, <3>2, <3>3 DEF Kept, LogKept
    <2>3. Calling' <=> Calling
      <3>1. Changing' <=> Changing
        BY <2>1 DEF Changing, Mixed
      <3>2. \A n, mode, i : Creation(n, mode, i)' <=> Creation(n, mode, i)
        BY <2>1 DEF Creation
      <3>3. \A n, mode, i : Written(n, mode, i)' <=> Written(n, mode, i)
        BY <2>1 DEF Written, NodeMade, NodeKept
      <3>4. \A n, i : Fresh(n, i)' <=> Fresh(n, i)
        BY <2>1 DEF Fresh, Mixed
      <3>5. \A n, mode, i : Made(n, mode, i)' <=> Made(n, mode, i)
        BY <2>1 DEF Made, NodeMade, NodeKept, LeafMade, MadeNode
      <3>6. \A n, mode, i, sub : Logged(n, mode, i, sub)' <=> Logged(n, mode, i, sub)
        <4>1. \A i, through : MadeNode(i, through)' = MadeNode(i, through)
          BY <2>1 DEF MadeNode
        <4>2. \A rest : Redoing(todo, rest)' <=> Redoing(todo, rest)
          BY <2>1 DEF Redoing, SyncNode, Mixed
        <4> QED BY <2>1, <3>3, <4>1, <4>2 DEF Logged
      <3>7. \A n, mode, i : Making(n, mode, i)' <=> Making(n, mode, i)
        BY <2>1, <3>3, <3>4, <3>5, <3>6 DEF Making, Mixed
      <3> QED BY <2>1, <3>1, <3>2, <3>7 DEF Calling
    <2>4. Redoing(todo, <<>>)' <=> Redoing(todo, <<>>)
      BY <2>1 DEF Redoing, SyncNode, Mixed
    <2>5. Where'
      BY <1>1, <2>1, <2>3, <2>4 DEF Where, Mixed
    <2> QED BY <2>2, <2>5
  <1> QED BY <1>2, <1>3, <1>4, <1>5, <1>6, <1>7 DEF Next, Steps

-----------------------------------------------------------------------------
\* A file whose mknod returned is found after any number of kills, wraps of the
\* ring, replays and unmounts, at any step of other creations and among the marks
\* of an unmount, as long as nothing
\* but creations is in the ring or called from the first kill or wrap on: the
\* leaf, the bitmap and the inode that mknod wrote through stay on the disk, and
\* sync_entry of a creation changes nothing of another file.
THEOREM CreationsSurvive == Spec => []CreatedSurvives
  <1>1. SInv /\ NInv => CreatedSurvives
    <2> SUFFICES ASSUME SInv, NInv, ~ torn, NEW n \in promised
                 PROVE  /\ Resolves(mem, n) /\ item_search(mem, n) = dict[n].ino
                        /\ dict[n].ino \in mem.bits /\ mem.inodes[dict[n].ino].mode = "file"
      BY DEF CreatedSurvives
    <2>1. dict[n].ino # 0 /\ FileKept(mem, n, dict[n].ino)
      BY DEF SInv, Kept, PromisesKept
    <2> QED BY <2>1 DEF FileKept, LeafKept, NodeKept, Resolves, item_search
  <1>2. Init => NInv /\ CalmInv /\ SInv
    BY TypesInit, CalmInit, SInit
  <1>3. NInv /\ CalmInv /\ SInv /\ [Next]_vars => NInv' /\ CalmInv' /\ SInv'
    BY TypesNext, CalmNext, SNext
  <1> QED BY <1>1, <1>2, <1>3, PTL DEF Spec

=============================================================================
