--------------------------- MODULE NamespaceTypes ---------------------------
(***************************************************************************)
(* Type correctness of Namespace with any kills, replays and wraps of the  *)
(* ring: above all entry_count, which directory_remove_entry decreases,    *)
(* never goes below zero.                                                  *)
(***************************************************************************)
EXTENDS NamespaceProofs

-----------------------------------------------------------------------------
(* The pages, also after a kill that lost subtree roots. *)

Leaves == {leaf \in LeafType : leaf.type # "dir" => leaf.value \in Inodes}

AnyPages ==
    [inodes : [Inodes -> InodeType], bits : SUBSET Inodes, page : [Slots -> EntryType],
     count : Nat, tree : [Names -> Seq(Leaves)], subs : Seq(Inodes \cup {NoNode})]

-----------------------------------------------------------------------------
(***************************************************************************)
(* What the calls have still to do.  Executing an entry or a call takes    *)
(* ExecOK steps; before them the handler may have to log.                  *)
(***************************************************************************)
Kinds == {"file", "dir"}

EntryOK(e) ==
    \/ \E sub : e \in [type : {"MKNOD"}, name : Names, mode : Kinds, ino : Inodes, sub : {sub}]
    \/ e \in [type : {"UNLINK"}, name : Names]
    \/ e \in [type : {"LINK", "RENAME"}, name : Names, to : Names]

ExecOK(s) ==
    \/ s.do = "write"
    \/ s.do = "inode_write" /\ s.node \in InodeType
    \/ s.do = "count" /\ s.count \in Nat
    \/ s.do = "directory_add_entry" /\ s.name \in Names /\ s.ino \in Inodes /\ s.type \in Modes
    \/ s.do = "btree_delete" /\ s.name \in Names
    \/ s.do = "btree_insert" /\ s.name \in Names /\ s.leaf \in Leaves
    \/ s.do = "_unlink" /\ s.name \in Names
    \/ s.do \in {"_link", "_rename"} /\ s.name \in Names /\ s.to \in Names
    \/ /\ s.do \in {"SyncMknod", "SyncLeaf"}
       /\ {"do", "name", "mode", "ino", "sub"} \subseteq DOMAIN s
       /\ s.name \in Names /\ s.mode \in Kinds /\ s.ino \in Inodes

FrontOK(s, c) ==
    \/ ExecOK(s)
    \/ s.do = "journal" /\ EntryOK(s.entry)
    \/ s.do = "LogMknod" /\ s.name \in Names /\ s.mode \in Kinds /\ c.ino \in Inodes

\* directory_remove_entry follows at once on the look at entry_count, and _mknod
\* on the one for a free inode.
RemoveOK(s, p) == s.do = "directory_remove_entry" /\ s.name \in Names /\ p.count # 0
MknodOK(s, p) ==
    s.do = "_mknod" /\ s.name \in Names /\ s.mode \in Kinds /\ FreeInodes(p) # {}

Entries(l) == \E S : l \in Seq(S) /\ \A e \in S : EntryOK(e)
AllExec(t) == \E S : t \in Seq(S) /\ \A s \in S : ExecOK(s)
AllFront(t, c) == \E S : t \in Seq(S) /\ \A s \in S : FrontOK(s, c)

\* An entry executed again is marked in the end, and is still in the ring then.
Rest(t, c, l) ==
    \/ AllFront(t, c)
    \/ l # <<>> /\ \E f : t = Cons(Mark, f) /\ AllFront(f, c)
Executing(h, p) == AllExec(h) \/ \E s, r : h = Cons(s, r) /\ RemoveOK(s, p) /\ AllExec(r)
Following(t, c, l) == \E h, f : t = h \o f /\ AllExec(h) /\ Rest(f, c, l)

TodoOK(t, p, c, l) ==
    \/ \E h, f : t = h \o f /\ Executing(h, p) /\ Rest(f, c, l)
    \/ \E s, f : t = Cons(s, f) /\ MknodOK(s, p) /\ AllFront(f, c)

CallOK ==
    /\ call.op = "call" =>
        DOMAIN call.dict \subseteq Names /\ promised \cup call.promise \subseteq DOMAIN call.dict
    /\ call.op = "destroy" => todo = <<>> /\ proc = "mounted"

NInv ==
    /\ proc \in {"down", "replaying", "mounted"}
    /\ mem \in AnyPages /\ disk \in AnyPages
    /\ Entries(log) /\ Len(log) =< RingSize
    /\ ops \in 0 .. MaxOps /\ kills \in 0 .. MaxKills
    /\ calm \in BOOLEAN /\ torn \in BOOLEAN
    /\ promised \subseteq DOMAIN dict /\ DOMAIN dict \subseteq Names
    /\ CallOK
    /\ TodoOK(todo, mem, call, log)

-----------------------------------------------------------------------------
(***************************************************************************)
(* Lists of steps.                                                         *)
(***************************************************************************)
LEMMA ExecLists ==
    /\ AllExec(<<>>)
    /\ \A s : AllExec(s) => IsSeq(s)
    /\ \A a, s : ExecOK(a) /\ AllExec(s) => AllExec(Cons(a, s))
    /\ \A s, t : AllExec(s) /\ AllExec(t) => AllExec(s \o t)
    /\ \A s : AllExec(s) /\ s # <<>> => ExecOK(Head(s)) /\ AllExec(Tail(s)) /\ s = Cons(Head(s), Tail(s))
  <1>1. AllExec(<<>>)
    <2> DEFINE S == {}
    <2>1. <<>> \in Seq(S) /\ \A x \in S : ExecOK(x)
      OBVIOUS
    <2> HIDE DEF S
    <2> QED BY <2>1 DEF AllExec
  <1>2. \A s : AllExec(s) => IsSeq(s)
    BY DEF AllExec, IsSeq
  <1>3. ASSUME NEW s, NEW t, AllExec(s), AllExec(t) PROVE AllExec(s \o t)
    <2>1. PICK S : s \in Seq(S) /\ \A x \in S : ExecOK(x)
      BY <1>3 DEF AllExec
    <2>2. PICK T : t \in Seq(T) /\ \A x \in T : ExecOK(x)
      BY <1>3 DEF AllExec
    <2>3. s \o t \in Seq(S \cup T)
      BY <2>1, <2>2
    <2>4. \A x \in S \cup T : ExecOK(x)
      BY <2>1, <2>2
    <2> QED BY <2>3, <2>4 DEF AllExec
  <1>4. ASSUME NEW a, ExecOK(a) PROVE AllExec(<<a>>)
    <2> DEFINE S == {a}
    <2>1. <<a>> \in Seq(S) /\ \A x \in S : ExecOK(x)
      BY <1>4
    <2> HIDE DEF S
    <2> QED BY <2>1 DEF AllExec
  <1>5. \A a, s : ExecOK(a) /\ AllExec(s) => AllExec(Cons(a, s))
    BY <1>3, <1>4 DEF Cons
  <1>6. ASSUME NEW s, AllExec(s), s # <<>>
        PROVE  ExecOK(Head(s)) /\ AllExec(Tail(s)) /\ s = Cons(Head(s), Tail(s))
    <2>1. PICK S : s \in Seq(S) /\ \A x \in S : ExecOK(x)
      BY <1>6 DEF AllExec
    <2>2. Head(s) \in S /\ Tail(s) \in Seq(S) /\ s = <<Head(s)>> \o Tail(s)
      BY <1>6, <2>1
    <2> QED BY <2>1, <2>2 DEF AllExec, Cons
  <1> QED BY <1>1, <1>2, <1>3, <1>5, <1>6

LEMMA FrontLists ==
    ASSUME NEW c
    PROVE  /\ AllFront(<<>>, c)
           /\ \A s : AllExec(s) => AllFront(s, c)
           /\ \A s : AllFront(s, c) => IsSeq(s)
           /\ \A a, s : FrontOK(a, c) /\ AllFront(s, c) => AllFront(Cons(a, s), c)
           /\ \A s, t : AllFront(s, c) /\ AllFront(t, c) => AllFront(s \o t, c)
           /\ \A s : AllFront(s, c) /\ s # <<>> =>
                FrontOK(Head(s), c) /\ AllFront(Tail(s), c) /\ s = Cons(Head(s), Tail(s))
  <1>1. AllFront(<<>>, c)
    <2> DEFINE S == {}
    <2>1. <<>> \in Seq(S) /\ \A x \in S : FrontOK(x, c)
      OBVIOUS
    <2> HIDE DEF S
    <2> QED BY <2>1 DEF AllFront
  <1>2. \A s : AllFront(s, c) => IsSeq(s)
    BY DEF AllFront, IsSeq
  <1>3. ASSUME NEW s, NEW t, AllFront(s, c), AllFront(t, c) PROVE AllFront(s \o t, c)
    <2>1. PICK S : s \in Seq(S) /\ \A x \in S : FrontOK(x, c)
      BY <1>3 DEF AllFront
    <2>2. PICK T : t \in Seq(T) /\ \A x \in T : FrontOK(x, c)
      BY <1>3 DEF AllFront
    <2>3. s \o t \in Seq(S \cup T)
      BY <2>1, <2>2
    <2>4. \A x \in S \cup T : FrontOK(x, c)
      BY <2>1, <2>2
    <2> QED BY <2>3, <2>4 DEF AllFront
  <1>4. ASSUME NEW a, FrontOK(a, c) PROVE AllFront(<<a>>, c)
    <2> DEFINE S == {a}
    <2>1. <<a>> \in Seq(S) /\ \A x \in S : FrontOK(x, c)
      BY <1>4
    <2> HIDE DEF S
    <2> QED BY <2>1 DEF AllFront
  <1>5. \A a, s : FrontOK(a, c) /\ AllFront(s, c) => AllFront(Cons(a, s), c)
    BY <1>3, <1>4 DEF Cons
  <1>6. ASSUME NEW s, AllFront(s, c), s # <<>>
        PROVE  FrontOK(Head(s), c) /\ AllFront(Tail(s), c) /\ s = Cons(Head(s), Tail(s))
    <2>1. PICK S : s \in Seq(S) /\ \A x \in S : FrontOK(x, c)
      BY <1>6 DEF AllFront
    <2>2. Head(s) \in S /\ Tail(s) \in Seq(S) /\ s = <<Head(s)>> \o Tail(s)
      BY <1>6, <2>1
    <2> QED BY <2>1, <2>2 DEF AllFront, Cons
  <1>7. \A s : AllExec(s) => AllFront(s, c)
    BY DEF AllExec, AllFront, FrontOK
  <1> QED BY <1>1, <1>2, <1>3, <1>5, <1>6, <1>7

\* What todo begins with, and what follows it.
LEMMA HeadIs ==
    ASSUME NEW t, NEW p, NEW c, NEW l, TodoOK(t, p, c, l), t # <<>>
    PROVE  \/ (ExecOK(Head(t)) \/ RemoveOK(Head(t), p)) /\ Following(Tail(t), c, l)
           \/ /\ Head(t).do \in {"journal", "LogMknod"} /\ FrontOK(Head(t), c)
              /\ AllFront(Tail(t), c) /\ AllFront(t, c)
           \/ Head(t) = Mark /\ l # <<>> /\ AllFront(Tail(t), c)
           \/ MknodOK(Head(t), p) /\ AllFront(Tail(t), c)
  <1>1. \A s : AllFront(s, c) => Following(s, c, l)
    <2> TAKE s
    <2> HAVE AllFront(s, c)
    <2>1. s = <<>> \o s
      BY CatIs, FrontLists
    <2> QED BY <2>1, ExecLists DEF Following, Rest
  <1>2. CASE \E s, f : t = Cons(s, f) /\ MknodOK(s, p) /\ AllFront(f, c)
    <2>1. PICK s, f : t = Cons(s, f) /\ MknodOK(s, p) /\ AllFront(f, c)
      BY <1>2
    <2>2. Head(t) = s /\ Tail(t) = f
      BY <2>1, ConsIs, FrontLists
    <2> QED BY <2>1, <2>2
  <1>3. CASE \E h, f : t = h \o f /\ Executing(h, p) /\ Rest(f, c, l)
    <2>1. PICK h, f : t = h \o f /\ Executing(h, p) /\ Rest(f, c, l)
      BY <1>3
    <2>2. IsSeq(f) /\ IsSeq(h)
      <3>1. IsSeq(f)
        BY <2>1, ConsIs, FrontLists DEF Rest
      <3>2. IsSeq(h)
        BY <2>1, ConsIs, ExecLists DEF Executing
      <3> QED BY <3>1, <3>2
    <2>3. CASE h = <<>>
      <3>1. t = f
        BY <2>1, <2>2, <2>3, CatIs
      <3>2. CASE AllFront(f, c)
        <4>1. FrontOK(Head(t), c) /\ AllFront(Tail(t), c) /\ AllFront(t, c)
          BY <3>1, <3>2, FrontLists
        <4>2. Following(Tail(t), c, l)
          BY <1>1, <4>1
        <4> QED BY <4>1, <4>2 DEF FrontOK
      <3>3. CASE l # <<>> /\ \E g : f = Cons(Mark, g) /\ AllFront(g, c)
        <4>1. PICK g : f = Cons(Mark, g) /\ AllFront(g, c)
          BY <3>3
        <4>2. IsSeq(g)
          BY <4>1, FrontLists
        <4>3. Head(t) = Mark /\ Tail(t) = g
          BY <3>1, <4>1, <4>2, ConsIs
        <4> QED BY <3>3, <4>1, <4>3
      <3> QED BY <2>1, <3>2, <3>3 DEF Rest
    <2>4. CASE \E s, r : h = Cons(s, r) /\ AllExec(r) /\ (ExecOK(s) \/ RemoveOK(s, p))
      <3>1. PICK s, r : h = Cons(s, r) /\ AllExec(r) /\ (ExecOK(s) \/ RemoveOK(s, p))
        BY <2>4
      <3>2. IsSeq(r) /\ IsSeq(<<s>>) /\ h = <<s>> \o r
        BY <3>1, ExecLists, TupleIs DEF Cons
      <3>3. t = <<s>> \o (r \o f) /\ IsSeq(r \o f)
        BY <2>1, <2>2, <3>2, CatAssoc
      <3>4. t = Cons(s, r \o f)
        BY <3>3 DEF Cons
      <3>5. Head(t) = s /\ Tail(t) = r \o f
        BY <3>3, <3>4, ConsIs
      <3> QED BY <2>1, <3>1, <3>5 DEF Following
    <2> QED BY <2>1, <2>3, <2>4, ExecLists DEF Executing
  <1> QED BY <1>2, <1>3 DEF TodoOK

\* A step of an execution may put more steps of one before what follows.
LEMMA PushIs ==
    ASSUME NEW t, NEW p, NEW c, NEW l, NEW next, Following(t, c, l), Executing(next, p)
    PROVE  TodoOK(next \o t, p, c, l)
  <1>1. PICK h, f : t = h \o f /\ AllExec(h) /\ Rest(f, c, l)
    BY DEF Following
  <1>2. IsSeq(f) /\ IsSeq(h) /\ IsSeq(next)
    <2>1. IsSeq(f)
      BY <1>1, ConsIs, FrontLists DEF Rest
    <2>2. IsSeq(next)
      BY ConsIs, ExecLists DEF Executing
    <2> QED BY <1>1, <2>1, <2>2, ExecLists
  <1>3. next \o t = (next \o h) \o f
    BY <1>1, <1>2, CatAssoc
  <1>4. Executing(next \o h, p)
    <2>1. CASE AllExec(next)
      BY <1>1, <2>1, ExecLists DEF Executing
    <2>2. CASE \E s, r : next = Cons(s, r) /\ RemoveOK(s, p) /\ AllExec(r)
      <3>1. PICK s, r : next = Cons(s, r) /\ RemoveOK(s, p) /\ AllExec(r)
        BY <2>2
      <3>2. IsSeq(r) /\ IsSeq(<<s>>) /\ next = <<s>> \o r
        BY <3>1, ExecLists, TupleIs DEF Cons
      <3>3. next \o h = <<s>> \o (r \o h)
        BY <1>2, <3>2, CatAssoc
      <3>4. next \o h = Cons(s, r \o h) /\ AllExec(r \o h)
        BY <1>1, <3>1, <3>3, ExecLists DEF Cons
      <3> QED BY <3>1, <3>4 DEF Executing
    <2> QED BY <2>1, <2>2 DEF Executing
  <1> QED BY <1>1, <1>3, <1>4 DEF TodoOK

LEMMA FrontIsTodo ==
    ASSUME NEW t, NEW p, NEW c, NEW l, AllFront(t, c)
    PROVE  TodoOK(t, p, c, l)
  <1>1. t = <<>> \o t
    BY CatIs, FrontLists
  <1> QED BY <1>1, ExecLists DEF TodoOK, Executing, Rest

LEMMA ExecTuples ==
    ASSUME NEW a, NEW b, NEW d, ExecOK(a), ExecOK(b), ExecOK(d)
    PROVE  AllExec(<<a>>) /\ AllExec(<<a, b>>) /\ AllExec(<<a, b, d>>)
  <1> DEFINE S == {a, b, d}
  <1>1. /\ <<a>> \in Seq(S) /\ <<a, b>> \in Seq(S) /\ <<a, b, d>> \in Seq(S)
        /\ \A x \in S : ExecOK(x)
    OBVIOUS
  <1> HIDE DEF S
  <1> QED BY <1>1 DEF AllExec

LEMMA ExecSteps ==
    /\ \A parts : ExecOK(Write(parts))
    /\ \A node \in InodeType : \A through : ExecOK(ToWriteInode(node, through))
    /\ \A count \in Nat : \A parts : ExecOK(SetCount(count, parts))
    /\ \A n \in Names, i \in Inodes, type \in Modes : ExecOK(ToAddEntry(n, i, type))
    /\ \A n \in Names : \A parts : ExecOK(ToDeleteLeaf(n, parts))
    /\ \A n \in Names, leaf \in Leaves : ExecOK(ToInsertLeaf(n, leaf))
    /\ \A n \in Names : \A through : ExecOK(ToUnlink(n, through))
    /\ \A n, m \in Names : \A through : ExecOK(ToLink(n, m, through))
  BY DEF ExecOK, Write, ToWriteInode, SetCount, ToAddEntry, ToDeleteLeaf, ToInsertLeaf, ToUnlink, ToLink

-----------------------------------------------------------------------------
(***************************************************************************)
(* The pages keep their types.                                             *)
(***************************************************************************)
LEMMA PartsTyped ==
    ASSUME NEW p \in AnyPages
    PROVE  /\ \A x \in [Inodes -> InodeType] : [p EXCEPT !.inodes = x] \in AnyPages
           /\ \A x \in SUBSET Inodes : [p EXCEPT !.bits = x] \in AnyPages
           /\ \A x \in [Slots -> EntryType] : [p EXCEPT !.page = x] \in AnyPages
           /\ \A x \in Nat : [p EXCEPT !.count = x] \in AnyPages
           /\ \A x \in [Names -> Seq(Leaves)] : [p EXCEPT !.tree = x] \in AnyPages
           /\ \A x \in Seq(Inodes \cup {NoNode}) : [p EXCEPT !.subs = x] \in AnyPages
  BY DEF AnyPages

LEMMA InodesTyped ==
    ASSUME NEW p \in AnyPages, NEW i \in Inodes, NEW node \in InodeType
    PROVE  Wrote(p, i, node) \in AnyPages /\ Marked(p, i, node) \in AnyPages
  <1> DEFINE inodes == [p.inodes EXCEPT ![i] = node]
             q == [p EXCEPT !.bits = p.bits \cup {i}]
  <1>1. inodes \in [Inodes -> InodeType] /\ p.bits \cup {i} \in SUBSET Inodes
    BY DEF AnyPages
  <1>2. Wrote(p, i, node) = [p EXCEPT !.inodes = inodes] /\ Marked(p, i, node) = [q EXCEPT !.inodes = inodes]
    BY DEF AnyPages, Wrote, Marked
  <1>3. q \in AnyPages
    BY <1>1, PartsTyped
  <1> HIDE DEF q, inodes
  <1> QED BY <1>1, <1>2, <1>3, PartsTyped

LEMMA FreedTyped ==
    ASSUME NEW p \in AnyPages, NEW i
    PROVE  Freed(p, i) \in AnyPages
  <1> DEFINE inodes == [p.inodes EXCEPT ![i] = Zeroed]
             q == [p EXCEPT !.bits = p.bits \ {i}]
  <1>1. Zeroed \in InodeType
    BY SlotsAre DEF Zeroed, InodeType, Modes
  <1>2. inodes \in [Inodes -> InodeType] /\ p.bits \ {i} \in SUBSET Inodes
    BY <1>1 DEF AnyPages
  <1>3. Freed(p, i) = [q EXCEPT !.inodes = inodes]
    BY DEF AnyPages, Freed
  <1>4. q \in AnyPages
    BY <1>2, PartsTyped
  <1> HIDE DEF q, inodes
  <1> QED BY <1>2, <1>3, <1>4, PartsTyped

LEMMA EntriesTyped ==
    ASSUME NEW p \in AnyPages, NEW j, NEW n \in Names, NEW i \in Inodes
    PROVE  Removed(p, j) \in AnyPages /\ WithEntry(p, n, i) \in AnyPages
  <1> DEFINE entry == [name |-> n, ino |-> i, active |-> TRUE]
             x == [p.page EXCEPT ![j] = [p.page[j] EXCEPT !.active = FALSE]]
             k == FreeSlot(p)
             y == [p.page EXCEPT ![k] = entry]
  <1>1. p.page \in [Slots -> EntryType]
    BY DEF AnyPages
  <1>2. x \in [Slots -> EntryType]
    <2>1. j \in Slots => [p.page[j] EXCEPT !.active = FALSE] \in EntryType
      BY <1>1 DEF EntryType
    <2> QED BY <1>1, <2>1
  <1>3. entry \in EntryType
    BY DEF EntryType
  <1> HIDE DEF entry, k
  <1>4. y \in [Slots -> EntryType]
    BY <1>1, <1>3
  <1>5. Removed(p, j) = [p EXCEPT !.page = x]
    BY DEF Removed, AnyPages
  <1>6. WithEntry(p, n, i) = [p EXCEPT !.page = y]
    BY DEF WithEntry, AnyPages, entry, k
  <1> HIDE DEF x, y
  <1> QED BY <1>2, <1>4, <1>5, <1>6, PartsTyped

LEMMA LeavesTyped ==
    ASSUME NEW p \in AnyPages, NEW n \in Names, NEW leaf \in Leaves
    PROVE  /\ PushLeaf(p, n, leaf) \in AnyPages
           /\ HasLeaf(p, n) => /\ Leaf(p, n) \in Leaves
                               /\ SetLeaf(p, n, leaf) \in AnyPages
                               /\ PopLeaf(p, n) \in AnyPages
  <1>1. p.tree \in [Names -> Seq(Leaves)] /\ p.tree[n] \in Seq(Leaves)
    BY DEF AnyPages
  <1>2. /\ PushLeaf(p, n, leaf) = [p EXCEPT !.tree = [p.tree EXCEPT ![n] = <<leaf>> \o p.tree[n]]]
        /\ SetLeaf(p, n, leaf) = [p EXCEPT !.tree = [p.tree EXCEPT ![n] = <<leaf>> \o Tail(p.tree[n])]]
        /\ PopLeaf(p, n) = [p EXCEPT !.tree = [p.tree EXCEPT ![n] = Tail(p.tree[n])]]
    BY DEF PushLeaf, SetLeaf, PopLeaf, AnyPages
  <1>3. ASSUME NEW s \in Seq(Leaves)
        PROVE  [p EXCEPT !.tree = [p.tree EXCEPT ![n] = s]] \in AnyPages
    <2> DEFINE x == [p.tree EXCEPT ![n] = s]
    <2>1. x \in [Names -> Seq(Leaves)]
      BY <1>1
    <2> HIDE DEF x
    <2> QED BY <2>1, PartsTyped DEF x
  <1>4. <<leaf>> \o p.tree[n] \in Seq(Leaves)
    BY <1>1
  <1>5. PushLeaf(p, n, leaf) \in AnyPages
    BY <1>2, <1>3, <1>4
  <1>6. ASSUME HasLeaf(p, n)
        PROVE  Leaf(p, n) \in Leaves /\ SetLeaf(p, n, leaf) \in AnyPages /\ PopLeaf(p, n) \in AnyPages
    <2>1. p.tree[n] # <<>>
      BY <1>6 DEF HasLeaf
    <2>2. Head(p.tree[n]) \in Leaves /\ Tail(p.tree[n]) \in Seq(Leaves) /\ <<leaf>> \o Tail(p.tree[n]) \in Seq(Leaves)
      BY <1>1, <2>1
    <2> QED BY <1>2, <1>3, <2>2 DEF Leaf
  <1> QED BY <1>5, <1>6

LEMMA SubtreeTyped ==
    ASSUME NEW p \in AnyPages, NEW i \in Inodes
    PROVE  /\ WithSubtree(p, i) \in AnyPages /\ Len(WithSubtree(p, i).subs) \in Nat
           /\ WithSubtree(p, i).tree = p.tree
           /\ \A k \in DOMAIN p.subs : [p EXCEPT !.subs[k] = i] \in AnyPages /\ k \in Nat
           /\ Len(p.subs) + 1 \in Nat
  <1>1. p.subs \in Seq(Inodes \cup {NoNode})
    BY DEF AnyPages
  <1> DEFINE x == Append(p.subs, i)
  <1>2. x \in Seq(Inodes \cup {NoNode})
    BY <1>1
  <1>3. WithSubtree(p, i) = [p EXCEPT !.subs = x]
    BY DEF WithSubtree, AnyPages
  <1> HIDE DEF x
  <1>4. WithSubtree(p, i) \in AnyPages
    BY <1>2, <1>3, PartsTyped
  <1>5. WithSubtree(p, i).subs = x /\ WithSubtree(p, i).tree = p.tree /\ Len(x) \in Nat
    BY <1>2, <1>3 DEF AnyPages
  <1>6. ASSUME NEW k \in DOMAIN p.subs PROVE [p EXCEPT !.subs[k] = i] \in AnyPages /\ k \in Nat
    <2> DEFINE y == [p.subs EXCEPT ![k] = i]
    <2>1. y \in Seq(Inodes \cup {NoNode})
      BY <1>1
    <2>2. [p EXCEPT !.subs[k] = i] = [p EXCEPT !.subs = y]
      BY DEF AnyPages
    <2> HIDE DEF y
    <2>3. k \in Nat
      BY <1>1
    <2> QED BY <2>1, <2>2, <2>3, PartsTyped
  <1>7. Len(p.subs) + 1 \in Nat
    BY <1>1
  <1> QED BY <1>4, <1>5, <1>6, <1>7

\* A step leaves typed pages on the disk, whatever it writes.
LEMMA DiskTyped ==
    ASSUME NEW p \in AnyPages, NEW parts, NEW next, disk \in AnyPages, Step(p, parts, next)
    PROVE  disk' \in AnyPages
  <1> DEFINE subs == [k \in DOMAIN p.subs |-> IF k \in DOMAIN disk.subs THEN disk.subs[k] ELSE NoNode]
  <1>1. subs \in Seq(Inodes \cup {NoNode})
    <2>1. p.subs \in Seq(Inodes \cup {NoNode}) /\ disk.subs \in Seq(Inodes \cup {NoNode})
      BY DEF AnyPages
    <2>2. PICK m \in Nat : DOMAIN p.subs = 1 .. m
      BY <2>1
    <2>3. \A k \in DOMAIN disk.subs : disk.subs[k] \in Inodes \cup {NoNode}
      BY <2>1
    <2>4. subs \in [1 .. m -> Inodes \cup {NoNode}]
      BY <2>2, <2>3
    <2> HIDE DEF subs
    <2> QED BY <2>4
  <1>2. disk' = [f \in DOMAIN disk |->
                    IF f \in parts THEN p[f] ELSE IF f = "subs" THEN subs ELSE disk[f]]
    BY DEF Step
  <1>3. DOMAIN disk = {"inodes", "bits", "page", "count", "tree", "subs"}
    BY DEF AnyPages
  <1> HIDE DEF subs
  <1>4. /\ disk'.inodes \in {p.inodes, disk.inodes} /\ disk'.bits \in {p.bits, disk.bits}
        /\ disk'.page \in {p.page, disk.page} /\ disk'.count \in {p.count, disk.count}
        /\ disk'.tree \in {p.tree, disk.tree} /\ disk'.subs \in {p.subs, subs}
    BY <1>2, <1>3
  <1>5. /\ disk'.inodes \in [Inodes -> InodeType] /\ disk'.bits \in SUBSET Inodes
        /\ disk'.page \in [Slots -> EntryType] /\ disk'.count \in Nat
        /\ disk'.tree \in [Names -> Seq(Leaves)] /\ disk'.subs \in Seq(Inodes \cup {NoNode})
    BY <1>1, <1>4 DEF AnyPages
  <1>6. disk' = [f \in DOMAIN disk |-> disk'[f]]
    BY <1>2
  <1> QED BY <1>3, <1>5, <1>6 DEF AnyPages

\* item_search finds an inode, whatever the pages are.
LEMMA SearchTyped ==
    ASSUME NEW p \in AnyPages, NEW n \in Names
    PROVE  item_search(p, n) \in Inodes
  <1>1. CASE ~ HasLeaf(p, n)
    BY <1>1, SlotsAre DEF item_search
  <1>2. CASE HasLeaf(p, n) /\ Leaf(p, n).type # "dir"
    <2>1. Leaf(p, n) \in Leaves
      <3>1. [type |-> "none", value |-> 0] \in Leaves
        BY SlotsAre DEF Leaves, LeafType, Modes
      <3> QED BY <1>2, <3>1, LeavesTyped
    <2> QED BY <1>2, <2>1 DEF item_search, Leaves
  <1>3. CASE HasLeaf(p, n) /\ Leaf(p, n).type = "dir"
    <2> DEFINE r == SubRoot(p, Leaf(p, n).value)
    <2>1. r \in Inodes \cup {-1}
      BY DEF SubRoot, AnyPages, NoNode
    <2>2. item_search(p, n) = Max({0, r})
      BY <1>3 DEF item_search
    <2> HIDE DEF r
    <2>3. CASE r = -1
      <3>1. Max({0, -1}) = 0
        BY DEF Max
      <3> QED BY <2>2, <2>3, <3>1, SlotsAre
    <2>4. CASE r \in Inodes
      <3>1. r \in Nat
        BY <2>4, SlotsAre
      <3>2. Max({0, r}) = r
        BY <3>1 DEF Max
      <3> QED BY <2>2, <2>4, <3>2
    <2> QED BY <2>1, <2>3, <2>4
  <1> QED BY <1>1, <1>2, <1>3

-----------------------------------------------------------------------------
(***************************************************************************)
(* The steps.                                                              *)
(***************************************************************************)
LEMMA StepTyped ==
    ASSUME NInv, todo # <<>>, NEW p \in AnyPages, NEW parts, NEW next, Step(p, parts, next),
           TodoOK(next \o Tail(todo), p, call, log)
    PROVE  NInv'
  <1>1. mem' \in AnyPages /\ disk' \in AnyPages
    BY DiskTyped DEF Step, NInv
  <1>2. TodoOK(todo', mem', call', log')
    BY DEF Step
  <1>3. /\ proc' = proc /\ log' = log /\ call' = call /\ ops' = ops /\ kills' = kills
        /\ calm' = calm /\ torn' = torn /\ dict' = dict /\ promised' = promised
    BY DEF Step, history
  <1>4. CallOK'
    BY <1>3 DEF NInv, CallOK
  <1> QED BY <1>1, <1>2, <1>3, <1>4 DEF NInv

\* A step of an execution.
LEMMA ExecHead ==
    ASSUME NInv, NEW x, Doing(x), x \notin {"journal", "LogMknod", "mark", "_mknod", "directory_remove_entry"}
    PROVE  todo # <<>> /\ Arg.do = x /\ ExecOK(Arg) /\ Following(Tail(todo), call, log) /\ mem \in AnyPages
  <1>1. todo # <<>> /\ Head(todo).do = x /\ TodoOK(todo, mem, call, log) /\ mem \in AnyPages
    BY DEF Doing, NInv
  <1>2. \A s : RemoveOK(s, mem) => s.do = "directory_remove_entry"
    BY DEF RemoveOK
  <1>3. \A s : MknodOK(s, mem) => s.do = "_mknod"
    BY DEF MknodOK
  <1>4. Mark.do = "mark"
    BY DEF Mark
  <1> QED BY <1>1, <1>2, <1>3, <1>4, HeadIs DEF Arg

LEMMA ExecTyped ==
    ASSUME NInv, NEW x, Doing(x), x \notin {"journal", "LogMknod", "mark", "_mknod", "directory_remove_entry"},
           NEW p \in AnyPages, NEW parts, NEW next, Step(p, parts, next), AllExec(next)
    PROVE  NInv'
  <1>1. todo # <<>> /\ Following(Tail(todo), call, log)
    BY ExecHead
  <1>2. TodoOK(next \o Tail(todo), p, call, log)
    BY <1>1, PushIs DEF Executing
  <1> QED BY <1>1, <1>2, StepTyped

LEMMA WritesTyped ==
    ASSUME NInv, WriteBlock \/ inode_write \/ WriteCount \/ btree_delete \/ btree_insert
    PROVE  NInv'
  <1>1. CASE WriteBlock
    <2>1. Doing("write") /\ Step(mem, Arg.parts, <<>>)
      BY <1>1 DEF WriteBlock
    <2>2. mem \in AnyPages
      BY <2>1, ExecHead
    <2> QED BY <2>1, <2>2, ExecLists, ExecTyped
  <1>2. CASE inode_write
    <2> DEFINE p == Wrote(mem, Arg.node.ino, Arg.node)
    <2>1. Doing("inode_write") /\ Step(p, Through({"inodes"}, Arg.write_through), <<>>)
      BY <1>2 DEF inode_write, Wrote
    <2>2. mem \in AnyPages /\ Arg.node \in InodeType
      BY <2>1, ExecHead DEF ExecOK
    <2>3. Arg.node.ino \in Inodes
      BY <2>2 DEF InodeType
    <2>4. p \in AnyPages
      BY <2>2, <2>3, InodesTyped
    <2> QED BY <2>1, <2>4, ExecLists, ExecTyped
  <1>3. CASE WriteCount
    <2> DEFINE p == Counted(mem, Arg.count)
    <2>1. Doing("count") /\ Step(p, Arg.parts, <<>>)
      BY <1>3 DEF WriteCount, Counted
    <2>2. mem \in AnyPages /\ Arg.count \in Nat
      BY <2>1, ExecHead DEF ExecOK
    <2>3. p \in AnyPages
      BY <2>2, PartsTyped DEF Counted
    <2> QED BY <2>1, <2>3, ExecLists, ExecTyped
  <1>4. CASE btree_delete
    <2>1. Doing("btree_delete")
      BY <1>4 DEF btree_delete
    <2>2. mem \in AnyPages /\ Arg.name \in Names
      BY <2>1, ExecHead DEF ExecOK
    <2>3. [type |-> "none", value |-> 0] \in Leaves
      BY SlotsAre DEF Leaves, LeafType, Modes
    <2>4. CASE HasLeaf(mem, Arg.name)
      <3>1. Step(PopLeaf(mem, Arg.name), Arg.parts, <<>>)
        BY <1>4, <2>4 DEF btree_delete
      <3>2. PopLeaf(mem, Arg.name) \in AnyPages
        BY <2>2, <2>3, <2>4, LeavesTyped
      <3> QED BY <2>1, <3>1, <3>2, ExecLists, ExecTyped
    <2>5. CASE ~ HasLeaf(mem, Arg.name)
      <3>1. Step(mem, {}, <<>>)
        BY <1>4, <2>5 DEF btree_delete
      <3> QED BY <2>1, <2>2, <3>1, ExecLists, ExecTyped
    <2> QED BY <2>4, <2>5
  <1>5. CASE btree_insert
    <2> DEFINE p == IF HasLeaf(mem, Arg.name) THEN mem ELSE PushLeaf(mem, Arg.name, Arg.leaf)
    <2>1. Doing("btree_insert") /\ Step(p, {"tree"}, <<>>)
      BY <1>5 DEF btree_insert
    <2>2. mem \in AnyPages /\ Arg.name \in Names /\ Arg.leaf \in Leaves
      BY <2>1, ExecHead DEF ExecOK
    <2>3. p \in AnyPages
      BY <2>2, LeavesTyped
    <2> HIDE DEF p
    <2> QED BY <2>1, <2>3, ExecLists, ExecTyped
  <1> QED BY <1>1, <1>2, <1>3, <1>4, <1>5

LEMMA AddTyped ==
    ASSUME NInv, directory_add_entry
    PROVE  NInv'
  <1> DEFINE r == IF Arg.type = "dir" THEN WithSubtree(mem, Arg.ino) ELSE mem
             leaf == [type |-> Arg.type, value |-> IF Arg.type = "dir" THEN Len(r.subs) ELSE Arg.ino]
             p == WithEntry(PushLeaf(r, Arg.name, leaf), Arg.name, Arg.ino)
             next == <<SetCount(mem.count + 1, {"page", "count"}), btree_write>>
  <1>1. Doing("directory_add_entry") /\ Step(p, {"page", "count"}, next)
    BY DEF directory_add_entry
  <1>2. mem \in AnyPages /\ Arg.name \in Names /\ Arg.ino \in Inodes /\ Arg.type \in Modes
    BY <1>1, ExecHead DEF ExecOK
  <1>3. r \in AnyPages
    BY <1>2, SubtreeTyped
  <1>4. leaf \in Leaves
    <2>1. Arg.type = "dir" => Len(r.subs) \in Nat
      BY <1>2, SubtreeTyped
    <2>2. Arg.ino \in Nat
      BY <1>2, SlotsAre
    <2> HIDE DEF r
    <2> QED BY <1>2, <2>1, <2>2 DEF Leaves, LeafType
  <1> HIDE DEF r, leaf
  <1>5. p \in AnyPages
    BY <1>2, <1>3, <1>4, LeavesTyped, EntriesTyped
  <1>6. AllExec(next)
    <2>1. mem.count + 1 \in Nat
      BY <1>2 DEF AnyPages
    <2> QED BY <2>1, ExecSteps, ExecTuples DEF btree_write
  <1> HIDE DEF p, next
  <1> QED BY <1>1, <1>5, <1>6, ExecTyped

LEMMA RemoveTyped ==
    ASSUME NInv, directory_remove_entry
    PROVE  NInv'
  <1>1. todo # <<>> /\ Head(todo).do = "directory_remove_entry" /\ mem \in AnyPages
    BY DEF directory_remove_entry, Doing, NInv
  <1>2. RemoveOK(Head(todo), mem) /\ Following(Tail(todo), call, log)
    <2>1. TodoOK(todo, mem, call, log)
      BY DEF NInv
    <2> QED BY <1>1, <2>1, HeadIs DEF ExecOK, Mark, MknodOK
  <1>3. Arg.name \in Names /\ mem.count - 1 \in Nat
    BY <1>1, <1>2 DEF RemoveOK, Arg, AnyPages
  <1> DEFINE j == Min({k \in Slots : mem.page[k].name = Arg.name})
             i == mem.page[j].ino
             through == Through({"page", "count"}, Arg.write_through)
             rest == <<Write({"page", "count"}), SetCount(mem.count - 1, through)>>
             freeing == <<Write(Through({"bits"}, Arg.write_through)),
                          ToDeleteLeaf(Arg.name, {"tree"}),
                          Write(Through({"tree"}, Arg.write_through))>>
             q == Removed(mem, j)
  <1>4. \/ Step(Freed(q, i), Through({"inodes"}, Arg.write_through), freeing \o rest)
        \/ Step(q, {}, rest)
    BY DEF directory_remove_entry, CountLess
  <1> HIDE DEF j
  <1>5. AllExec(rest)
    BY <1>3, ExecSteps, ExecTuples
  <1>6. AllExec(freeing)
    BY <1>3, ExecSteps, ExecTuples
  <1> HIDE DEF rest, freeing, i
  <1>7. AllExec(freeing \o rest)
    BY <1>5, <1>6, ExecLists
  <1>8. q \in AnyPages
    BY <1>1, <1>3, SlotsAre, EntriesTyped
  <1> HIDE DEF q
  <1>9. Freed(q, i) \in AnyPages
    BY <1>8, FreedTyped
  <1>10. \A p : /\ TodoOK((freeing \o rest) \o Tail(todo), p, call, log)
                /\ TodoOK(rest \o Tail(todo), p, call, log)
    BY <1>2, <1>5, <1>7, PushIs DEF Executing
  <1>11. CASE Step(q, {}, rest)
    BY <1>1, <1>8, <1>10, <1>11, StepTyped
  <1>12. CASE Step(Freed(q, i), Through({"inodes"}, Arg.write_through), freeing \o rest)
    BY <1>1, <1>9, <1>10, <1>12, StepTyped
  <1> QED BY <1>4, <1>11, <1>12

LEMMA MknodTyped ==
    ASSUME NInv, _mknod
    PROVE  NInv'
  <1>1. todo # <<>> /\ Head(todo).do = "_mknod" /\ mem \in AnyPages
    BY DEF _mknod, Doing, NInv
  <1>2. MknodOK(Head(todo), mem) /\ AllFront(Tail(todo), call)
    <2>1. TodoOK(todo, mem, call, log)
      BY DEF NInv
    <2> QED BY <1>1, <2>1, HeadIs DEF ExecOK, Mark, RemoveOK
  <1> DEFINE i == Min(FreeInodes(mem))
             node == [mem.inodes[i] EXCEPT !.ino = i, !.mode = Arg.mode, !.refs = 1]
             p == Marked(mem, i, node)
             next == <<Write({"bits"}), ToWriteInode(node, FALSE), ToAddEntry(Arg.name, i, Arg.mode)>>
  <1>3. Step(p, {"inodes"}, next)
    BY DEF _mknod, Marked
  <1>4. i \in Inodes
    <2>1. FreeInodes(mem) \in SUBSET Nat /\ FreeInodes(mem) # {} /\ FreeInodes(mem) \subseteq Inodes
      BY <1>2, SlotsAre DEF FreeInodes, MknodOK
    <2> QED BY <2>1, MinIs
  <1> HIDE DEF i
  <1>5. Arg.name \in Names /\ Arg.mode \in Modes
    BY <1>2 DEF MknodOK, Arg, Kinds, Modes
  <1>6. node \in InodeType
    <2>1. mem.inodes[i] \in InodeType
      BY <1>1, <1>4 DEF AnyPages
    <2>2. 1 \in Nat
      OBVIOUS
    <2> QED BY <1>4, <1>5, <2>1, <2>2 DEF InodeType
  <1> HIDE DEF node
  <1>7. p \in AnyPages
    BY <1>1, <1>4, <1>6, InodesTyped
  <1>8. AllExec(next)
    BY <1>4, <1>5, <1>6, ExecSteps, ExecTuples
  <1> HIDE DEF next, p
  <1>9. AllFront(next \o Tail(todo), call)
    BY <1>2, <1>8, FrontLists
  <1> QED BY <1>1, <1>3, <1>7, <1>9, FrontIsTodo, StepTyped
LEMMA UnlinkTyped ==
    ASSUME NInv, _unlink
    PROVE  NInv'
  <1> DEFINE first == IF directory_exists_entry(mem, Arg.name)
                      THEN <<ToRemoveEntry(Arg.name, Arg.write_through)>> ELSE <<>>
             last == <<ToDeleteLeaf(Arg.name, {})>>
  <1>1. Doing("_unlink") /\ Step(mem, {}, first \o last)
    BY DEF _unlink
  <1>2. todo # <<>> /\ mem \in AnyPages /\ Arg.name \in Names /\ Following(Tail(todo), call, log)
    BY <1>1, ExecHead DEF ExecOK
  <1>3. AllExec(last)
    BY <1>2, ExecSteps, ExecTuples
  <1> HIDE DEF last
  <1>4. Executing(first \o last, mem)
    <2>1. CASE directory_exists_entry(mem, Arg.name)
      <3>1. mem.count # 0
        BY <2>1 DEF directory_exists_entry
      <3>2. RemoveOK(ToRemoveEntry(Arg.name, Arg.write_through), mem)
        BY <1>2, <3>1 DEF RemoveOK, ToRemoveEntry
      <3>3. first \o last = Cons(ToRemoveEntry(Arg.name, Arg.write_through), last)
        BY <2>1 DEF Cons
      <3> QED BY <1>3, <3>2, <3>3 DEF Executing
    <2>2. CASE ~ directory_exists_entry(mem, Arg.name)
      <3>1. first = <<>>
        BY <2>2
      <3> HIDE DEF first
      <3> QED BY <1>3, <3>1, ExecLists DEF Executing
    <2> QED BY <2>1, <2>2
  <1> HIDE DEF first
  <1>5. TodoOK((first \o last) \o Tail(todo), mem, call, log)
    BY <1>2, <1>4, PushIs
  <1> QED BY <1>1, <1>2, <1>5, StepTyped

LEMMA LinkTyped ==
    ASSUME NInv, _link
    PROVE  NInv'
  <1> DEFINE i == item_search(mem, Arg.name)
             inode == LinkCounted(mem.inodes[i])
             S == {j \in Active(mem) : mem.page[j].name = Arg.to}
             entry == mem.page[Min(S)]
             leaf == [type |-> inode.mode, value |-> IF inode.mode = "dir" THEN 0 ELSE entry.ino]
             counting == <<ToWriteInode(inode, TRUE), ToInsertLeaf(Arg.to, leaf)>>
             adding == <<ToAddEntry(Arg.to, i, inode.mode), ToWriteInode(inode, Arg.write_through)>>
  <1>1. Doing("_link")
    BY DEF _link
  <1>2. mem \in AnyPages /\ Arg.name \in Names /\ Arg.to \in Names
    BY <1>1, ExecHead DEF ExecOK
  <1>3. i \in Inodes
    BY <1>2, SearchTyped
  <1> HIDE DEF i
  <1>4. inode \in InodeType /\ inode.mode \in Modes
    <2>1. mem.inodes[i] \in InodeType
      BY <1>2, <1>3 DEF AnyPages
    <2> QED BY <2>1 DEF InodeType, LinkCounted
  <1> HIDE DEF inode
  <1>5. CASE directory_exists_entry(mem, Arg.to)
    <2>1. Step(mem, {}, counting)
      BY <1>5 DEF _link, i, inode
    <2>2. entry.ino \in Inodes
      <3>1. S # {} /\ S \in SUBSET Nat /\ S \subseteq Slots
        BY <1>5, ActiveIs, SlotsAre DEF directory_exists_entry
      <3>2. Min(S) \in Slots
        BY <3>1, MinIs
      <3> QED BY <1>2, <3>2 DEF AnyPages, EntryType
    <2> HIDE DEF entry
    <2>3. leaf \in Leaves
      <3>1. entry.ino \in Nat
        BY <2>2, SlotsAre
      <3> QED BY <1>4, <2>2, <3>1 DEF Leaves, LeafType
    <2> HIDE DEF leaf
    <2>4. AllExec(counting)
      BY <1>2, <1>4, <2>3, ExecSteps, ExecTuples
    <2> HIDE DEF counting
    <2> QED BY <1>1, <1>2, <2>1, <2>4, ExecTyped
  <1>6. CASE ~ directory_exists_entry(mem, Arg.to)
    <2>1. Step(mem, {}, adding)
      BY <1>6 DEF _link, i, inode
    <2>2. AllExec(adding)
      BY <1>2, <1>3, <1>4, ExecSteps, ExecTuples
    <2> HIDE DEF adding
    <2> QED BY <1>1, <1>2, <2>1, <2>2, ExecTyped
  <1> QED BY <1>5, <1>6

LEMMA RenameTyped ==
    ASSUME NInv, _rename
    PROVE  NInv'
  <1> DEFINE renaming == <<ToLink(Arg.name, Arg.to, Arg.write_through), ToUnlink(Arg.name, Arg.write_through)>>
             next == IF HasLeaf(mem, Arg.to) THEN <<>> ELSE renaming
  <1>1. Doing("_rename") /\ Step(mem, {}, next)
    BY DEF _rename
  <1>2. mem \in AnyPages /\ Arg.name \in Names /\ Arg.to \in Names
    BY <1>1, ExecHead DEF ExecOK
  <1>3. AllExec(renaming) /\ AllExec(<<>>)
    BY <1>2, ExecSteps, ExecTuples, ExecLists
  <1> HIDE DEF renaming
  <1>4. AllExec(next)
    BY <1>3
  <1> HIDE DEF next
  <1> QED BY <1>1, <1>2, <1>4, ExecTyped

LEMMA SyncMknodTyped ==
    ASSUME NInv, SyncMknod
    PROVE  NInv'
  <1> DEFINE node == [mem.inodes[Arg.ino] EXCEPT !.mode = Arg.mode]
             sync == [Arg EXCEPT !.do = "SyncLeaf"]
             next == <<ToWriteInode(node, TRUE), sync>>
  <1>1. Doing("SyncMknod") /\ Step(mem, {}, next)
    BY DEF SyncMknod
  <1>2. /\ mem \in AnyPages /\ Arg.name \in Names /\ Arg.ino \in Inodes /\ Arg.mode \in Kinds
        /\ {"do", "name", "mode", "ino", "sub"} \subseteq DOMAIN Arg
    BY <1>1, ExecHead DEF ExecOK
  <1>3. node \in InodeType
    <2>1. mem.inodes[Arg.ino] \in InodeType
      BY <1>2 DEF AnyPages
    <2>2. Arg.mode \in Modes
      BY <1>2 DEF Kinds, Modes
    <2> QED BY <2>1, <2>2 DEF InodeType
  <1>4. ExecOK(sync)
    <2>1. /\ sync.do = "SyncLeaf" /\ sync.name = Arg.name /\ sync.ino = Arg.ino /\ sync.mode = Arg.mode
          /\ DOMAIN sync = DOMAIN Arg
      BY <1>2
    <2> QED BY <1>2, <2>1 DEF ExecOK
  <1> HIDE DEF node, sync
  <1>5. AllExec(next)
    BY <1>3, <1>4, ExecSteps, ExecTuples
  <1> HIDE DEF next
  <1> QED BY <1>1, <1>2, <1>5, ExecTyped

LEMMA SyncLeafTyped ==
    ASSUME NInv, SyncLeaf
    PROVE  NInv'
  <1> DEFINE n == Arg.name
             new == [type |-> Arg.mode, value |-> IF Arg.mode = "dir" THEN Len(mem.subs) + 1 ELSE Arg.ino]
  <1>1. Doing("SyncLeaf") /\ Step(Synced(mem, Arg), {"tree"}, <<>>)
    BY DEF SyncLeaf
  <1>2. mem \in AnyPages /\ n \in Names /\ Arg.ino \in Inodes /\ Arg.mode \in Kinds
    BY <1>1, ExecHead DEF ExecOK
  <1>3. /\ WithSubtree(mem, Arg.ino) \in AnyPages /\ WithSubtree(mem, Arg.ino).tree = mem.tree
        /\ Len(mem.subs) + 1 \in Nat /\ Arg.ino \in Nat
    BY <1>2, SubtreeTyped, SlotsAre
  <1>4. new \in Leaves /\ \A k \in Nat : [type |-> "dir", value |-> k] \in Leaves
    BY <1>2, <1>3 DEF Leaves, LeafType, Kinds, Modes
  <1>5. Synced(mem, Arg) \in AnyPages
    <2>1. CASE ~ HasLeaf(mem, n)
      <3> DEFINE p == IF Arg.mode = "dir" THEN WithSubtree(mem, Arg.ino) ELSE mem
      <3>1. p \in AnyPages
        BY <1>2, <1>3
      <3>2. Synced(mem, Arg) = PushLeaf(p, n, new)
        BY <2>1 DEF Synced
      <3> HIDE DEF p, new
      <3> QED BY <1>2, <1>4, <3>1, <3>2, LeavesTyped
    <2>2. CASE HasLeaf(mem, n) /\ Leaf(mem, n).type # "dir"
      <3> DEFINE leaf == [Leaf(mem, n) EXCEPT !.value = Arg.ino]
      <3>1. Leaf(mem, n) \in Leaves
        BY <1>2, <1>4, <2>2, LeavesTyped
      <3>2. leaf \in Leaves
        BY <1>2, <1>3, <3>1 DEF Leaves, LeafType
      <3>3. Synced(mem, Arg) = SetLeaf(mem, n, leaf)
        BY <2>2 DEF Synced
      <3> HIDE DEF leaf
      <3> QED BY <1>2, <2>2, <3>2, <3>3, LeavesTyped
    <2>3. CASE HasLeaf(mem, n) /\ Leaf(mem, n).type = "dir" /\ SubRoot(mem, Arg.sub) # NoNode
      <3> DEFINE p == SetLeaf(mem, n, [type |-> "dir", value |-> Arg.sub])
      <3>1. Arg.sub \in DOMAIN mem.subs
        BY <2>3 DEF SubRoot
      <3>2. Arg.sub \in Nat
        BY <1>2, <3>1, SubtreeTyped
      <3>3. p \in AnyPages
        BY <1>2, <1>4, <2>3, <3>2, LeavesTyped
      <3>4. p.subs = mem.subs
        BY <1>2 DEF SetLeaf, AnyPages
      <3>5. Synced(mem, Arg) = [p EXCEPT !.subs[Arg.sub] = Arg.ino]
        BY <2>3 DEF Synced
      <3> HIDE DEF p
      <3>6. \A k \in DOMAIN p.subs : [p EXCEPT !.subs[k] = Arg.ino] \in AnyPages
        BY <1>2, <3>3, SubtreeTyped
      <3> QED BY <3>1, <3>4, <3>5, <3>6
    <2>4. CASE HasLeaf(mem, n) /\ Leaf(mem, n).type = "dir" /\ SubRoot(mem, Arg.sub) = NoNode
      <3> DEFINE p == WithSubtree(mem, Arg.ino)
                 leaf == [type |-> "dir", value |-> Len(mem.subs) + 1]
      <3>1. HasLeaf(p, n) /\ p \in AnyPages
        BY <1>3, <2>4 DEF HasLeaf
      <3>2. leaf \in Leaves
        BY <1>3, <1>4
      <3>3. Synced(mem, Arg) = SetLeaf(p, n, leaf)
        BY <2>4 DEF Synced
      <3> HIDE DEF p, leaf
      <3> QED BY <1>2, <3>1, <3>2, <3>3, LeavesTyped
    <2> QED BY <2>1, <2>2, <2>3, <2>4
  <1> HIDE DEF n, new
  <1> QED BY <1>1, <1>5, ExecLists, ExecTyped

-----------------------------------------------------------------------------
(***************************************************************************)
(* The journal.                                                            *)
(***************************************************************************)
LEMMA EntryLists ==
    ASSUME NEW l, Entries(l)
    PROVE  /\ Len(l) \in Nat
           /\ l # <<>> => EntryOK(Head(l)) /\ Entries(Tail(l)) /\ Len(Tail(l)) = Len(l) - 1
           /\ \A e : EntryOK(e) => Entries(Append(l, e)) /\ Len(Append(l, e)) = Len(l) + 1
  <1>1. PICK S : l \in Seq(S) /\ \A e \in S : EntryOK(e)
    BY DEF Entries
  <1>2. ASSUME l # <<>>
        PROVE  EntryOK(Head(l)) /\ Entries(Tail(l)) /\ Len(Tail(l)) = Len(l) - 1
    <2>1. Head(l) \in S /\ Tail(l) \in Seq(S) /\ Len(Tail(l)) = Len(l) - 1
      BY <1>1, <1>2
    <2> QED BY <1>1, <2>1 DEF Entries
  <1>3. ASSUME NEW e, EntryOK(e) PROVE Entries(Append(l, e)) /\ Len(Append(l, e)) = Len(l) + 1
    <2> DEFINE T == S \cup {e}
    <2>1. Append(l, e) \in Seq(T) /\ Len(Append(l, e)) = Len(l) + 1
      BY <1>1
    <2>2. \A x \in T : EntryOK(x)
      BY <1>1, <1>3
    <2> HIDE DEF T
    <2> QED BY <2>1, <2>2 DEF Entries
  <1> QED BY <1>1, <1>2, <1>3

\* sync_entry: one step that executes the entry, and the mark.
LEMMA SyncIs ==
    ASSUME NEW e, EntryOK(e)
    PROVE  \E s : ExecOK(s) /\ sync_entry(e) = <<s, Mark>>
  <1> DEFINE s == CASE e.type = "MKNOD" -> ToSyncMknod(e)
                    [] e.type = "UNLINK" -> ToUnlink(e.name, TRUE)
                    [] e.type = "LINK" -> ToLink(e.name, e.to, TRUE)
                    [] e.type = "RENAME" -> ToRename(e.name, e.to, TRUE)
  <1>1. sync_entry(e) = <<s, Mark>>
    BY DEF sync_entry
  <1>2. ExecOK(s)
    <2>1. CASE \E sub : e \in [type : {"MKNOD"}, name : Names, mode : Kinds, ino : Inodes, sub : {sub}]
      <3>1. PICK sub : e \in [type : {"MKNOD"}, name : Names, mode : Kinds, ino : Inodes, sub : {sub}]
        BY <2>1
      <3>2. e.type = "MKNOD" /\ e.name \in Names /\ e.mode \in Kinds /\ e.ino \in Inodes
        BY <3>1
      <3>3. s = ToSyncMknod(e)
        BY <3>2
      <3>4. ExecOK(ToSyncMknod(e))
        BY <3>2 DEF ExecOK, ToSyncMknod
      <3> QED BY <3>3, <3>4
    <2>2. CASE e \in [type : {"UNLINK"}, name : Names]
      <3>1. e.type = "UNLINK" /\ e.name \in Names
        BY <2>2
      <3>2. s = ToUnlink(e.name, TRUE)
        BY <3>1
      <3>3. ExecOK(ToUnlink(e.name, TRUE))
        BY <3>1, ExecSteps
      <3> QED BY <3>2, <3>3
    <2>3. CASE e \in [type : {"LINK", "RENAME"}, name : Names, to : Names]
      <3>1. e.type \in {"LINK", "RENAME"} /\ e.name \in Names /\ e.to \in Names
        BY <2>3
      <3>2. s = ToLink(e.name, e.to, TRUE) \/ s = ToRename(e.name, e.to, TRUE)
        BY <3>1
      <3>3. ExecOK(ToLink(e.name, e.to, TRUE)) /\ ExecOK(ToRename(e.name, e.to, TRUE))
        BY <3>1 DEF ExecOK, ToLink, ToRename
      <3> QED BY <3>2, <3>3
    <2> QED BY <2>1, <2>2, <2>3 DEF EntryOK
  <1> QED BY <1>1, <1>2
LEMMA SyncTodo ==
    ASSUME NEW e, EntryOK(e), NEW t, NEW p, NEW c, NEW l, l # <<>>, AllFront(t, c)
    PROVE  TodoOK(sync_entry(e) \o t, p, c, l)
  <1>1. PICK s : ExecOK(s) /\ sync_entry(e) = <<s, Mark>>
    BY SyncIs
  <1>2. IsSeq(t)
    BY FrontLists
  <1>3. \A a, b : <<a, b>> \o t = Cons(a, Cons(b, t))
    BY <1>2, CatIs
  <1>4. sync_entry(e) \o t = <<s>> \o Cons(Mark, t)
    BY <1>1, <1>3 DEF Cons
  <1>5. AllExec(<<s>>)
    BY <1>1, ExecTuples
  <1> QED BY <1>4, <1>5 DEF TodoOK, Executing, Rest

LEMMA MarkTyped ==
    ASSUME NInv, MarkEntry
    PROVE  NInv'
  <1>1. todo # <<>> /\ Head(todo).do = "mark" /\ TodoOK(todo, mem, call, log)
    BY DEF MarkEntry, Doing, NInv
  <1>2. log # <<>> /\ AllFront(Tail(todo), call)
    BY <1>1, HeadIs DEF ExecOK, RemoveOK, MknodOK
  <1>3. Entries(log') /\ Len(log') =< RingSize
    <2>1. Entries(log) /\ Len(log) =< RingSize
      BY DEF NInv
    <2>2. Entries(Tail(log)) /\ Len(Tail(log)) = Len(log) - 1 /\ Len(log) \in Nat
      BY <1>2, <2>1, EntryLists
    <2> QED BY <2>1, <2>2, NamespaceAssumption DEF MarkEntry
  <1>4. TodoOK(todo', mem', call', log')
    BY <1>2, FrontIsTodo DEF MarkEntry
  <1>5. CallOK'
    BY <1>1 DEF NInv, CallOK, MarkEntry, history
  <1> QED BY <1>3, <1>4, <1>5 DEF NInv, MarkEntry, history

LEMMA JournalTyped ==
    ASSUME NInv, initialize_journal_entry
    PROVE  NInv'
  <1>1. todo # <<>> /\ Head(todo).do = "journal" /\ TodoOK(todo, mem, call, log)
    BY DEF initialize_journal_entry, Doing, NInv
  <1>2. FrontOK(Head(todo), call) /\ AllFront(Tail(todo), call) /\ AllFront(todo, call)
    BY <1>1, HeadIs DEF ExecOK, RemoveOK, MknodOK, Mark
  <1>3. Entries(log) /\ Len(log) \in Nat /\ Len(log) =< RingSize
    BY EntryLists DEF NInv
  <1>4. CallOK'
    BY <1>1 DEF NInv, CallOK, initialize_journal_entry, history
  <1>5. CASE Len(log) = RingSize
    <2>1. /\ todo' = sync_entry(Head(log)) \o todo /\ calm' = FALSE /\ torn' \in BOOLEAN
          /\ UNCHANGED <<proc, mem, disk, log, call, ops, kills, dict, promised>>
      BY <1>5 DEF initialize_journal_entry
    <2>2. log # <<>>
      BY <1>5, NamespaceAssumption
    <2>3. EntryOK(Head(log))
      BY <1>3, <2>2, EntryLists
    <2>4. TodoOK(todo', mem', call', log')
      BY <1>2, <2>1, <2>2, <2>3, SyncTodo
    <2> QED BY <1>4, <2>1, <2>4 DEF NInv
  <1>6. CASE Len(log) # RingSize
    <2>1. /\ log' = Append(log, Arg.entry) /\ todo' = Tail(todo)
          /\ UNCHANGED <<proc, mem, disk, call, ops, kills, history>>
      BY <1>6 DEF initialize_journal_entry
    <2>2. EntryOK(Arg.entry)
      BY <1>1, <1>2 DEF FrontOK, ExecOK, Arg
    <2>3. Entries(log') /\ Len(log') = Len(log) + 1
      BY <1>3, <2>1, <2>2, EntryLists
    <2>4. Len(log') =< RingSize
      BY <1>3, <1>6, <2>3, NamespaceAssumption
    <2>5. TodoOK(todo', mem', call', log')
      BY <1>2, <2>1, FrontIsTodo
    <2> QED BY <1>4, <2>1, <2>3, <2>4, <2>5 DEF NInv, history
  <1> QED BY <1>5, <1>6

LEMMA LogMknodTyped ==
    ASSUME NInv, LogMknod
    PROVE  NInv'
  <1>1. todo # <<>> /\ Head(todo).do = "LogMknod" /\ TodoOK(todo, mem, call, log) /\ mem \in AnyPages
    BY DEF LogMknod, Doing, NInv
  <1>2. FrontOK(Head(todo), call) /\ AllFront(Tail(todo), call)
    BY <1>1, HeadIs DEF ExecOK, RemoveOK, MknodOK, Mark
  <1>3. Arg.name \in Names /\ Arg.mode \in Kinds /\ call.ino \in Inodes
    BY <1>1, <1>2 DEF FrontOK, ExecOK, Arg
  <1> DEFINE i == item_search(mem, Arg.name)
             sub == IF Arg.mode = "dir" THEN Leaf(mem, Arg.name).value ELSE 0
             e == [type |-> "MKNOD", name |-> Arg.name, mode |-> Arg.mode,
                   ino |-> IF Arg.mode = "dir" THEN i ELSE call.ino, sub |-> sub]
             first == IF Arg.mode = "dir" THEN <<ToWriteInode(mem.inodes[i], TRUE)>> ELSE <<>>
  <1>4. Step(mem, {}, first \o <<ToLog(e)>>)
    BY DEF LogMknod
  <1>5. i \in Inodes /\ mem.inodes[i] \in InodeType
    <2>1. i \in Inodes
      BY <1>1, <1>3, SearchTyped
    <2> QED BY <1>1, <2>1 DEF AnyPages
  <1> HIDE DEF i, sub
  <1>6. EntryOK(e)
    <2>1. e \in [type : {"MKNOD"}, name : Names, mode : Kinds, ino : Inodes, sub : {sub}]
      BY <1>3, <1>5
    <2> HIDE DEF e
    <2> QED BY <2>1 DEF EntryOK
  <1> HIDE DEF e
  <1>7. FrontOK(ToLog(e), call)
    BY <1>6 DEF FrontOK, ToLog
  <1>8. AllFront(<<ToLog(e)>>, call)
    <2>1. <<ToLog(e)>> = Cons(ToLog(e), <<>>)
      BY TupleIs
    <2>2. AllFront(Cons(ToLog(e), <<>>), call)
      BY <1>7, FrontLists
    <2> QED BY <2>1, <2>2
  <1>9. AllExec(first)
    <2>1. ExecOK(ToWriteInode(mem.inodes[i], TRUE))
      BY <1>5, ExecSteps
    <2> QED BY <2>1, ExecTuples, ExecLists
  <1> HIDE DEF first
  <1>10. AllFront((first \o <<ToLog(e)>>) \o Tail(todo), call)
    BY <1>2, <1>8, <1>9, FrontLists
  <1> QED BY <1>1, <1>4, <1>10, FrontIsTodo, StepTyped

-----------------------------------------------------------------------------
(***************************************************************************)
(* The calls, the mount and the kill.                                      *)
(***************************************************************************)
LEMMA CallTyped ==
    ASSUME NInv, NEW steps, NEW c, Call(steps, c), c.op = "call",
           DOMAIN c.dict \subseteq Names, promised' \subseteq promised,
           promised' \cup c.promise \subseteq DOMAIN c.dict, TodoOK(steps, mem, c, log),
           torn' \in BOOLEAN
    PROVE  NInv'
  <1>1. /\ todo' = steps /\ call' = c /\ ops < MaxOps /\ ops' = ops + 1
        /\ UNCHANGED <<proc, mem, disk, log, kills, calm, dict>>
    BY DEF Call
  <1>2. ops' \in 0 .. MaxOps
    BY <1>1, NamespaceAssumption DEF NInv
  <1>3. CallOK'
    BY <1>1 DEF CallOK
  <1>4. TodoOK(todo', mem', call', log')
    BY <1>1
  <1>5. promised' \subseteq DOMAIN dict'
    BY <1>1 DEF NInv
  <1> QED BY <1>1, <1>2, <1>3, <1>4, <1>5 DEF NInv

\* Two steps, the first of which is logged.
LEMMA LoggedTodo ==
    ASSUME NEW e, EntryOK(e), NEW s, ExecOK(s), NEW p, NEW c, NEW l
    PROVE  TodoOK(<<ToLog(e), s>>, p, c, l)
  <1>1. <<ToLog(e), s>> = Cons(ToLog(e), Cons(s, <<>>))
    BY TupleIs
  <1>2. FrontOK(ToLog(e), c) /\ FrontOK(s, c)
    BY DEF FrontOK, ToLog
  <1> DEFINE r == Cons(s, <<>>)
  <1>3. AllFront(r, c)
    BY <1>2, FrontLists
  <1> HIDE DEF r
  <1>4. AllFront(Cons(ToLog(e), r), c)
    BY <1>2, <1>3, FrontLists
  <1>5. AllFront(<<ToLog(e), s>>, c)
    BY <1>1, <1>4 DEF r
  <1> QED BY <1>5, FrontIsTodo

LEMMA CallsTyped ==
    ASSUME NInv
    PROVE  /\ \A n \in Names, mode \in Kinds : nbtrfs_mknod(n, mode) => NInv'
           /\ \A n \in Names : nbtrfs_unlink(n) => NInv'
           /\ \A from, to \in Names : nbtrfs_link(from, to) => NInv'
           /\ \A from, to \in Names : nbtrfs_rename(from, to) => NInv'
  <1>1. promised \subseteq DOMAIN dict /\ DOMAIN dict \subseteq Names
    BY DEF NInv
  <1>2. ASSUME NEW n \in Names, NEW mode \in Kinds, nbtrfs_mknod(n, mode) PROVE NInv'
    <2> DEFINE i == Min(FreeInodes(mem))
               E == With(dict, n, [ino |-> i, mode |-> mode, id |-> ops])
               steps == <<MknodStep(n, mode), LogStep(n, mode)>>
               c == [op |-> "call", ino |-> i, dict |-> E, promise |-> IF mode = "file" THEN {n} ELSE {}]
    <2>1. FreeInodes(mem) # {} /\ Call(steps, c) /\ promised' = promised \ {n} /\ torn' \in BOOLEAN
      BY <1>2 DEF nbtrfs_mknod, MknodStep, LogStep, NInv
    <2>2. i \in Inodes
      <3>1. FreeInodes(mem) \in SUBSET Nat /\ FreeInodes(mem) \subseteq Inodes
        BY SlotsAre DEF FreeInodes
      <3> QED BY <2>1, <3>1, MinIs
    <2>3. DOMAIN E = DOMAIN dict \cup {n}
      BY DEF With
    <2> HIDE DEF E, i
    <2>4. c.op = "call" /\ c.ino = i /\ c.dict = E /\ c.promise \subseteq {n}
      OBVIOUS
    <2> HIDE DEF c
    <2>5. TodoOK(steps, mem, c, log)
      <3>1. steps = Cons(MknodStep(n, mode), Cons(LogStep(n, mode), <<>>))
        BY TupleIs
      <3>2. MknodOK(MknodStep(n, mode), mem)
        BY <2>1 DEF MknodOK, MknodStep
      <3>3. FrontOK(LogStep(n, mode), c)
        BY <2>2, <2>4 DEF FrontOK, LogStep
      <3>4. AllFront(Cons(LogStep(n, mode), <<>>), c)
        BY <3>3, FrontLists
      <3> HIDE DEF steps
      <3> QED BY <3>1, <3>2, <3>4 DEF TodoOK
    <2>6. DOMAIN c.dict \subseteq Names /\ promised' \subseteq promised /\ promised' \cup c.promise \subseteq DOMAIN c.dict
      BY <1>1, <2>1, <2>3, <2>4
    <2> HIDE DEF steps
    <2> QED BY <2>1, <2>4, <2>5, <2>6, CallTyped
  <1>3. ASSUME NEW n \in Names, nbtrfs_unlink(n) PROVE NInv'
    <2> DEFINE e == [type |-> "UNLINK", name |-> n]
               C == Without(dict, {n})
               c == [op |-> "call", dict |-> C, promise |-> {}]
               steps == <<ToLog(e), ToUnlink(n, FALSE)>>
    <2>1. Call(steps, c) /\ promised' = promised \ {n} /\ torn' \in BOOLEAN
      BY <1>3 DEF nbtrfs_unlink
    <2>2. EntryOK(e) /\ ExecOK(ToUnlink(n, FALSE))
      BY ExecSteps DEF EntryOK
    <2> HIDE DEF e
    <2>3. TodoOK(steps, mem, c, log)
      BY <2>2, LoggedTodo
    <2>4. DOMAIN C = DOMAIN dict \ {n}
      BY DEF Without
    <2> HIDE DEF C, steps
    <2>5. c.op = "call" /\ c.dict = C /\ c.promise = {}
      OBVIOUS
    <2> HIDE DEF c
    <2>6. DOMAIN c.dict \subseteq Names /\ promised' \subseteq promised /\ promised' \cup c.promise \subseteq DOMAIN c.dict
      BY <1>1, <2>1, <2>4, <2>5
    <2> QED BY <2>1, <2>3, <2>5, <2>6, CallTyped
  <1>4. ASSUME NEW from \in Names, NEW to \in Names, nbtrfs_link(from, to) PROVE NInv'
    <2> DEFINE e == [type |-> "LINK", name |-> from, to |-> to]
               E == IF from \in DOMAIN dict THEN With(dict, to, dict[from]) ELSE dict
               c == [op |-> "call", promise |-> {}, dict |-> E]
               steps == <<ToLog(e), ToLink(from, to, FALSE)>>
    <2>1. Call(steps, c) /\ promised' = promised \ {to} /\ torn' \in BOOLEAN
      BY <1>4 DEF nbtrfs_link
    <2>2. EntryOK(e) /\ ExecOK(ToLink(from, to, FALSE))
      BY ExecSteps DEF EntryOK
    <2> HIDE DEF e
    <2>3. TodoOK(steps, mem, c, log)
      BY <2>2, LoggedTodo
    <2>4. DOMAIN E \subseteq DOMAIN dict \cup {to} /\ DOMAIN dict \subseteq DOMAIN E
      BY DEF With
    <2> HIDE DEF E, steps
    <2>5. c.op = "call" /\ c.dict = E /\ c.promise = {}
      OBVIOUS
    <2> HIDE DEF c
    <2>6. DOMAIN c.dict \subseteq Names /\ promised' \subseteq promised /\ promised' \cup c.promise \subseteq DOMAIN c.dict
      BY <1>1, <2>1, <2>4, <2>5
    <2> QED BY <2>1, <2>3, <2>5, <2>6, CallTyped
  <1>5. ASSUME NEW from \in Names, NEW to \in Names, nbtrfs_rename(from, to) PROVE NInv'
    <2> DEFINE e == [type |-> "RENAME", name |-> from, to |-> to]
               E == IF from \in DOMAIN dict /\ ~ HasLeaf(mem, to)
                    THEN Without(With(dict, to, dict[from]), {from}) ELSE dict
               c == [op |-> "call", promise |-> {}, dict |-> E]
               steps == <<ToLog(e), ToRename(from, to, FALSE)>>
    <2>1. Call(steps, c) /\ promised' = promised \ {from, to} /\ torn' \in BOOLEAN
      BY <1>5 DEF nbtrfs_rename
    <2>2. EntryOK(e) /\ ExecOK(ToRename(from, to, FALSE))
      <3>1. EntryOK(e)
        BY DEF EntryOK
      <3>2. ExecOK(ToRename(from, to, FALSE))
        BY DEF ExecOK, ToRename
      <3> QED BY <3>1, <3>2
    <2> HIDE DEF e
    <2>3. TodoOK(steps, mem, c, log)
      BY <2>2, LoggedTodo
    <2>4. DOMAIN E \subseteq DOMAIN dict \cup {to} /\ DOMAIN dict \ {from} \subseteq DOMAIN E
      BY DEF With, Without
    <2> HIDE DEF E, steps
    <2>5. c.op = "call" /\ c.dict = E /\ c.promise = {}
      OBVIOUS
    <2> HIDE DEF c
    <2>6. DOMAIN c.dict \subseteq Names /\ promised' \subseteq promised /\ promised' \cup c.promise \subseteq DOMAIN c.dict
      BY <1>1, <2>1, <2>4, <2>5
    <2> QED BY <2>1, <2>3, <2>5, <2>6, CallTyped
  <1> QED BY <1>2, <1>3, <1>4, <1>5

LEMMA NilTodo == \A p, c, l : TodoOK(<<>>, p, c, l)
  BY FrontLists, FrontIsTodo

LEMMA TypesInit == Init => NInv
  <1> SUFFICES ASSUME Init PROVE NInv
    OBVIOUS
  <1>1. Zeroed \in InodeType /\ RootInode \in InodeType /\ NoEntry \in EntryType
    BY SlotsAre DEF Zeroed, RootInode, NoEntry, InodeType, EntryType, Modes
  <1>2. EmptyPages \in AnyPages
    BY <1>1, SlotsAre DEF AnyPages, EmptyPages
  <1>3. Entries(<<>>) /\ Len(<<>>) =< RingSize
    <2> DEFINE S == {}
    <2>1. <<>> \in Seq(S) /\ \A e \in S : EntryOK(e)
      OBVIOUS
    <2> HIDE DEF S
    <2>2. Entries(<<>>)
      BY <2>1 DEF Entries
    <2> QED BY <2>2, NamespaceAssumption
  <1>4. DOMAIN dict = {}
    BY DEF Init
  <1>5. CallOK
    BY DEF Init, CallOK, NoCall
  <1>6. TodoOK(todo, mem, call, log)
    BY NilTodo DEF Init
  <1>7. ops \in 0 .. MaxOps /\ kills \in 0 .. MaxKills
    BY NamespaceAssumption DEF Init
  <1>8. Entries(log) /\ Len(log) =< RingSize
    BY <1>3 DEF Init
  <1>9. promised \subseteq DOMAIN dict /\ DOMAIN dict \subseteq Names
    BY <1>4 DEF Init
  <1> QED BY <1>2, <1>5, <1>6, <1>7, <1>8, <1>9 DEF Init, NInv

LEMMA MountTyped ==
    ASSUME NInv,
           Return \/ nbtrfs_destroy \/ mark_journal_synced \/ cache_sync \/ Mount \/ sync_journal \/ Kill
    PROVE  NInv'
  <1>1. CASE Return
    <2>1. /\ call.op = "call" /\ call' = NoCall /\ dict' = call.dict /\ promised' = promised \cup call.promise
          /\ UNCHANGED <<proc, mem, disk, log, todo, ops, kills, calm, torn>> /\ todo = <<>>
      BY <1>1 DEF Return
    <2>2. promised' \subseteq DOMAIN dict' /\ DOMAIN dict' \subseteq Names
      BY <2>1 DEF NInv, CallOK
    <2>3. CallOK'
      BY <2>1 DEF CallOK, NoCall
    <2>4. TodoOK(todo', mem', call', log')
      BY <2>1, NilTodo
    <2> QED BY <2>1, <2>2, <2>3, <2>4 DEF NInv
  <1>2. CASE nbtrfs_destroy
    <2>1. /\ todo = <<>> /\ proc = "mounted" /\ ops < MaxOps /\ ops' = ops + 1 /\ call'.op = "destroy"
          /\ UNCHANGED <<proc, mem, disk, log, todo, kills, history>>
      BY <1>2 DEF nbtrfs_destroy, Idle
    <2>2. ops' \in 0 .. MaxOps
      BY <2>1, NamespaceAssumption DEF NInv
    <2>3. CallOK' /\ TodoOK(todo', mem', call', log')
      BY <2>1, NilTodo DEF CallOK
    <2> QED BY <2>1, <2>2, <2>3 DEF NInv, history
  <1>3. CASE cache_sync
    <2>1. /\ call.op = "destroy" /\ disk' = mem /\ proc' = "down" /\ call' = NoCall
          /\ UNCHANGED <<mem, log, todo, ops, kills, history>>
      BY <1>3 DEF cache_sync
    <2>2. todo = <<>>
      BY <2>1 DEF NInv, CallOK
    <2>3. CallOK' /\ TodoOK(todo', mem', call', log')
      BY <2>1, <2>2, NilTodo DEF CallOK, NoCall
    <2> QED BY <2>1, <2>3 DEF NInv, history
  <1>4. CASE Mount
    <2>1. /\ proc = "down" /\ proc' = "replaying"
          /\ UNCHANGED <<mem, disk, log, todo, call, ops, kills, history>>
      BY <1>4 DEF Mount
    <2> QED BY <2>1 DEF NInv, CallOK, history
  <1>5. CASE sync_journal
    <2>1. todo = <<>> /\ UNCHANGED <<mem, disk, log, call, ops, kills, history>>
      BY <1>5 DEF sync_journal
    <2>2. CASE log = <<>>
      <3>1. proc' = "mounted" /\ todo' = todo
        BY <1>5, <2>2 DEF sync_journal
      <3> QED BY <2>1, <3>1 DEF NInv, CallOK, history
    <2>3. CASE log # <<>>
      <3>1. todo' = sync_entry(Head(log)) /\ proc' = proc
        BY <1>5, <2>3 DEF sync_journal
      <3> DEFINE nil == <<>>
      <3>2. EntryOK(Head(log))
        BY <2>3, EntryLists DEF NInv
      <3>3. sync_entry(Head(log)) \o <<>> = sync_entry(Head(log))
        <4>1. PICK s : sync_entry(Head(log)) = <<s, Mark>>
          BY <3>2, SyncIs
        <4>2. <<s, Mark>> \in Seq({s, Mark})
          OBVIOUS
        <4> QED BY <4>1, <4>2
      <3>4. TodoOK(todo', mem', call', log')
        <4>1. AllFront(nil, call)
          BY FrontLists
        <4> HIDE DEF nil
        <4>2. TodoOK(sync_entry(Head(log)) \o nil, mem, call, log)
          BY <2>3, <3>2, <4>1, SyncTodo
        <4> QED BY <2>1, <3>1, <3>3, <4>2 DEF nil
      <3>5. CallOK'
        BY <1>5, <2>1, <3>1 DEF NInv, CallOK, history, sync_journal
      <3> QED BY <2>1, <3>1, <3>4, <3>5 DEF NInv, history
    <2> QED BY <2>2, <2>3
  <1>6. CASE Kill
    <2>1. /\ kills < MaxKills /\ kills' = kills + 1 /\ proc' = "down" /\ todo' = <<>> /\ call' = NoCall
          /\ mem' = disk /\ calm' = FALSE /\ UNCHANGED <<disk, log, ops, dict, promised>>
          /\ torn' \in BOOLEAN
      BY <1>6 DEF Kill
    <2>2. kills' \in 0 .. MaxKills
      BY <2>1, NamespaceAssumption DEF NInv
    <2>3. CallOK' /\ TodoOK(todo', mem', call', log')
      BY <2>1, NilTodo DEF CallOK, NoCall
    <2> QED BY <2>1, <2>2, <2>3 DEF NInv
  <1>7. CASE mark_journal_synced
    <2>1. /\ call.op = "destroy" /\ log # <<>> /\ log' = Tail(log)
          /\ UNCHANGED <<proc, mem, disk, todo, call, ops, kills, history>>
      BY <1>7 DEF mark_journal_synced
    <2>2. Entries(log') /\ Len(log') =< RingSize
      <3>1. Entries(log) /\ Len(log) =< RingSize
        BY DEF NInv
      <3>2. Entries(Tail(log)) /\ Len(Tail(log)) = Len(log) - 1 /\ Len(log) \in Nat
        BY <2>1, <3>1, EntryLists
      <3> QED BY <2>1, <3>1, <3>2, NamespaceAssumption
    <2>3. todo = <<>>
      BY <2>1 DEF NInv, CallOK
    <2>4. CallOK' /\ TodoOK(todo', mem', call', log')
      BY <2>1, <2>3, NilTodo DEF NInv, CallOK, history
    <2> QED BY <2>1, <2>2, <2>4 DEF NInv, history
  <1> QED BY <1>1, <1>2, <1>3, <1>4, <1>5, <1>6, <1>7

LEMMA TypesNext == NInv /\ [Next]_vars => NInv'
  <1> SUFFICES ASSUME NInv, [Next]_vars PROVE NInv'
    OBVIOUS
  <1>1. CASE \/ \E n \in Names, mode \in {"file", "dir"} : nbtrfs_mknod(n, mode)
             \/ \E n \in Names : nbtrfs_unlink(n)
             \/ \E from, to \in Names : nbtrfs_link(from, to)
             \/ \E from, to \in Names : nbtrfs_rename(from, to)
    BY <1>1, CallsTyped DEF Kinds
  <1>2. CASE Return \/ nbtrfs_destroy \/ mark_journal_synced \/ cache_sync \/ Mount \/ sync_journal \/ Kill
    BY <1>2, MountTyped
  <1>3. CASE WriteBlock \/ inode_write \/ WriteCount \/ btree_delete \/ btree_insert
    BY <1>3, WritesTyped
  <1>4. CASE directory_add_entry \/ directory_remove_entry
    BY <1>4, AddTyped, RemoveTyped
  <1>5. CASE _mknod \/ _unlink \/ _link \/ _rename
    BY <1>5, MknodTyped, UnlinkTyped, LinkTyped, RenameTyped
  <1>6. CASE SyncMknod \/ SyncLeaf \/ MarkEntry \/ initialize_journal_entry \/ LogMknod
    BY <1>6, SyncMknodTyped, SyncLeafTyped, MarkTyped, JournalTyped, LogMknodTyped
  <1>7. CASE UNCHANGED vars
    BY <1>7 DEF vars, history, NInv, CallOK
  <1> QED BY <1>1, <1>2, <1>3, <1>4, <1>5, <1>6, <1>7 DEF Next

\* The pages keep their types and entry_count never goes below zero, although a
\* kill or a wrap of the ring may leave it smaller than the number of entries in
\* use: directory_exists_entry looks at it before directory_remove_entry.
THEOREM NamespaceTyped == Spec => []TypeOK
  <1>1. NInv => TypeOK
    <2> SUFFICES ASSUME NInv PROVE TypeOK
      OBVIOUS
    <2>1. ASSUME NEW p \in AnyPages PROVE PagesOK(p)
      <3>1. ASSUME NEW n \in Names PROVE p.tree[n] \in Seq([type : Modes, value : Nat])
        <4> DEFINE T == [type : Modes, value : Nat]
        <4>1. p.tree[n] \in Seq(Leaves)
          BY <2>1 DEF AnyPages
        <4>2. Leaves \subseteq T
          BY DEF Leaves, LeafType
        <4> HIDE DEF T
        <4>3. Seq(Leaves) \subseteq Seq(T)
          BY <4>2
        <4>4. p.tree[n] \in Seq(T)
          BY <4>1, <4>3
        <4> QED BY <4>4 DEF T
      <3> QED BY <2>1, <3>1 DEF AnyPages, PagesOK, InodeType, EntryType
    <2> QED BY <2>1 DEF NInv, TypeOK
  <1> QED BY <1>1, TypesInit, TypesNext, PTL DEF Spec
=============================================================================
