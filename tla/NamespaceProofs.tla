-------------------------- MODULE NamespaceProofs ---------------------------
(***************************************************************************)
(* Until the first kill or wrap of the ring the names of a directory are   *)
(* the map the calls made: the tree, the directory page and the inodes     *)
(* agree with it, for any number of names, inodes, slots and calls.        *)
(***************************************************************************)
EXTENDS Namespace, FiniteSetTheorems, WellFoundedInduction, TLAPS

-----------------------------------------------------------------------------
(***************************************************************************)
(* What the pages p say of a dictionary D of names.                        *)
(***************************************************************************)
Files == [ino : Inodes \ {0}, mode : {"file", "dir"}, id : 0 .. MaxOps]
InodeType == [ino : Inodes, mode : Modes, refs : Nat, ptr : {0, 1}]
EntryType == [name : Names \cup {"none"}, ino : Inodes, active : BOOLEAN]
LeafType == [type : Modes, value : Nat]

Pages ==
    [inodes : [Inodes -> InodeType], bits : SUBSET Inodes, page : [Slots -> EntryType],
     count : Nat, tree : [Names -> Seq(LeafType)], subs : Seq(Inodes)]

\* The pages, while no kill has lost a subtree root.
PageType(p) == p \in Pages /\ 0 \in p.bits

\* Two names of one inode are names of one file.
DictOK(D) ==
    /\ DOMAIN D \subseteq Names
    /\ \A n \in DOMAIN D : D[n] \in Files
    /\ \A n, m \in DOMAIN D : D[n].ino = D[m].ino => D[n].id = D[m].id

\* The leaf of a name leads to its file.
LeafIs(p, leaf, file) ==
    /\ leaf.type = file.mode
    /\ file.mode = "file" => leaf.value = file.ino
    /\ file.mode = "dir" => leaf.value \in DOMAIN p.subs /\ p.subs[leaf.value] = file.ino

TreeIsAt(p, D, n) ==
    /\ n \in DOMAIN D => HasLeaf(p, n) /\ p.tree[n] = <<Leaf(p, n)>> /\ LeafIs(p, Leaf(p, n), D[n])
    /\ n \notin DOMAIN D => ~ HasLeaf(p, n)
TreeIs(p, D) == \A n \in Names : TreeIsAt(p, D, n)

\* The tree while a name goes: its leaf is there or not.
TreeBut(p, D, n) ==
    /\ \A m \in Names \ {n} : TreeIsAt(p, D, m)
    /\ HasLeaf(p, n) => p.tree[n] = <<Leaf(p, n)>>

\* The active entries are those of the names, and no entry of the same name,
\* active or not, is before them: directory_remove_entry takes the first.
EntriesAre(p, D) ==
    /\ \A k \in Active(p) :
        /\ p.page[k].name \in DOMAIN D /\ p.page[k].ino = D[p.page[k].name].ino
        /\ \A j \in Slots : j < k => p.page[j].name # p.page[k].name
    /\ \A n \in DOMAIN D : \E k \in Active(p) : p.page[k].name = n

\* entry_count and the number of entries, which differ inside a call.
CountIs(p, more) == p.count = Cardinality(Active(p)) + more

\* The inodes of the names are marked, and reference_count of one with several
\* names is more than 1.
NodesAre(p, D) ==
    /\ \A n \in DOMAIN D :
        /\ D[n].ino \in p.bits
        /\ p.inodes[D[n].ino].ino = D[n].ino
        /\ p.inodes[D[n].ino].mode = D[n].mode
        /\ p.inodes[D[n].ino].refs # 0
    /\ \A n, m \in DOMAIN D : n # m /\ D[n].ino = D[m].ino => p.inodes[D[n].ino].refs # 1

Listing(p, D) == TreeIs(p, D) /\ EntriesAre(p, D) /\ CountIs(p, 0)
Agree(p, D) == Listing(p, D) /\ NodesAre(p, D)

-----------------------------------------------------------------------------
(***************************************************************************)
(* How far a call is, with td still to be done, and what the pages p are   *)
(* then, relative to the names D before.                                   *)
(***************************************************************************)
Logs(td, rest) == td # <<>> /\ td = Cons(Head(td), rest) /\ Head(td).do = "journal"

AddStep(n, file) == ToAddEntry(n, file.ino, file.mode)

\* directory_add_entry.
Adding(p, td, D, n, file, rest) ==
    \/ td = Cons(AddStep(n, file), rest) /\ Listing(p, D)
    \/ /\ td = Cons(SetCount(p.count + 1, {"page", "count"}), Cons(btree_write, rest))
       /\ TreeIs(p, With(D, n, file)) /\ EntriesAre(p, With(D, n, file)) /\ CountIs(p, -1)
    \/ td = Cons(btree_write, rest) /\ Listing(p, With(D, n, file))

MknodStep(n, mode) == [do |-> "_mknod", name |-> n, mode |-> mode]
LogStep(n, mode) == [do |-> "LogMknod", name |-> n, mode |-> mode]

\* nbtrfs_mknod of name n, with a new inode.
Creating(p, td, D, n, file) ==
    LET logging == Cons(LogStep(n, file.mode), <<>>)
        node(through) == ToWriteInode(p.inodes[file.ino], through)
    IN  \/ /\ td = Cons(MknodStep(n, file.mode), logging)
           /\ Agree(p, D)
           /\ FreeInodes(p) # {} /\ file.ino = Min(FreeInodes(p))
        \/ /\ NodesAre(p, With(D, n, file))
           /\ \/ /\ td = Cons(Write({"bits"}), Cons(node(FALSE), Cons(AddStep(n, file), logging)))
                 /\ Listing(p, D)
              \/ td = Cons(node(FALSE), Cons(AddStep(n, file), logging)) /\ Listing(p, D)
              \/ Adding(p, td, D, n, file, logging)
              \/ /\ Listing(p, With(D, n, file))
                 /\ \/ td = logging
                    \/ td # <<>> /\ Head(td) = node(TRUE) /\ Logs(Tail(td), <<>>) /\ td = Cons(Head(td), Tail(td))
                    \/ Logs(td, <<>>)

\* _link of name to to the file of from, before rest.
Linking(p, td, D, from, to, rest) ==
    LET written == Cons(ToWriteInode(LinkCounted(p.inodes[D[from].ino]), FALSE), rest)
    IN  /\ NodesAre(p, D)
        /\ \/ td = Cons(ToLink(from, to, FALSE), rest) /\ Listing(p, D)
           \/ Adding(p, td, D, to, D[from], written)
           \/ td = written /\ Listing(p, With(D, to, D[from]))

\* _unlink of name n.
Unlinking(p, td, D, n) ==
    LET last == Cons(ToDeleteLeaf(n, {}), <<>>)
        counting == Cons(SetCount(p.count - 1, {}), last)
        writing == Cons(Write({"page", "count"}), counting)
        after == Without(D, {n})
    IN  \/ /\ Agree(p, D)
           /\ \/ td = Cons(ToUnlink(n, FALSE), <<>>)
              \/ td = Cons(ToRemoveEntry(n, FALSE), last)
        \/ /\ TreeBut(p, after, n) /\ EntriesAre(p, after) /\ NodesAre(p, after)
           /\ \/ /\ CountIs(p, 1)
                 /\ \/ td = Cons(Write({}), Cons(ToDeleteLeaf(n, {"tree"}), Cons(Write({}), writing)))
                    \/ td = Cons(ToDeleteLeaf(n, {"tree"}), Cons(Write({}), writing))
                    \/ td = Cons(Write({}), writing)
                    \/ td = writing
                    \/ td = counting
              \/ CountIs(p, 0) /\ td = last

RenameStep(from, to) == ToRename(from, to, FALSE)

\* The call c in progress, on names that were D when it started.
CallInProgress(p, td, c, D) ==
    \/ td = <<>> /\ Agree(p, c.dict)
    \/ \E n \in Names, file \in Files :
        /\ n \notin DOMAIN D
        /\ c.dict = With(D, n, file)
        /\ Creating(p, td, D, n, file)
    \/ \E n \in DOMAIN D :
        /\ c.dict = Without(D, {n})
        /\ \/ Unlinking(p, td, D, n)
           \/ Logs(td, Cons(ToUnlink(n, FALSE), <<>>)) /\ Agree(p, D)
    \/ \E from \in DOMAIN D, to \in Names \ DOMAIN D :
        /\ c.dict = With(D, to, D[from])
        /\ \/ Linking(p, td, D, from, to, <<>>)
           \/ Logs(td, Cons(ToLink(from, to, FALSE), <<>>)) /\ Agree(p, D)
    \/ \E from \in DOMAIN D, to \in Names \ DOMAIN D :
        /\ c.dict = Without(With(D, to, D[from]), {from})
        /\ \/ Linking(p, td, D, from, to, Cons(ToUnlink(from, FALSE), <<>>))
           \/ Unlinking(p, td, With(D, to, D[from]), from)
    \/ \E from \in DOMAIN D, to \in Names :
        /\ from # to
        /\ c.dict = IF to \in DOMAIN D THEN D ELSE Without(With(D, to, D[from]), {from})
        /\ Agree(p, D)
        /\ \/ td = Cons(RenameStep(from, to), <<>>)
           \/ Logs(td, Cons(RenameStep(from, to), <<>>))

Calm ==
    /\ PageType(mem)
    /\ DictOK(dict)
    /\ ops \in 0 .. MaxOps
    /\ \/ /\ call = NoCall /\ todo = <<>> /\ Agree(mem, dict)
          /\ proc # "mounted" => log = <<>>
       \/ call.op = "destroy" /\ proc = "mounted" /\ todo = <<>> /\ Agree(mem, dict)
       \/ /\ call.op = "call" /\ proc = "mounted"
          /\ DictOK(call.dict)
          /\ CallInProgress(mem, todo, call, dict)

CalmInv == calm => Calm
-----------------------------------------------------------------------------
(***************************************************************************)
(* Lists of steps.                                                         *)
(***************************************************************************)
IsSeq(s) == \E S : s \in Seq(S)

LEMMA ConsIs ==
    ASSUME NEW a, NEW s, IsSeq(s)
    PROVE  /\ IsSeq(Cons(a, s)) /\ Cons(a, s) # <<>>
           /\ Head(Cons(a, s)) = a /\ Tail(Cons(a, s)) = s
  <1>1. PICK S : s \in Seq(S)
    BY DEF IsSeq
  <1>2. s \in Seq(S \cup {a}) /\ <<a>> \in Seq(S \cup {a})
    BY <1>1
  <1>3. Cons(a, s) \in Seq(S \cup {a})
    BY <1>2 DEF Cons
  <1> QED BY <1>1, <1>2, <1>3 DEF IsSeq, Cons

LEMMA NilIs == IsSeq(<<>>)
  BY DEF IsSeq

LEMMA CatIs ==
    ASSUME NEW s, IsSeq(s)
    PROVE  /\ <<>> \o s = s
           /\ \A a : <<a>> = Cons(a, <<>>)
           /\ \A a : <<a>> \o s = Cons(a, s)
           /\ \A a, b : <<a, b>> \o s = Cons(a, Cons(b, s))
           /\ \A a, b, c : <<a, b, c>> \o s = Cons(a, Cons(b, Cons(c, s)))
  <1>1. PICK S : s \in Seq(S)
    BY DEF IsSeq
  <1>2. ASSUME NEW a, NEW b PROVE <<a, b>> \o s = Cons(a, Cons(b, s))
    <2> DEFINE T == S \cup {a, b}
    <2>1. s \in Seq(T) /\ <<a>> \in Seq(T) /\ <<b>> \in Seq(T) /\ <<a, b>> \in Seq(T)
      BY <1>1
    <2>2. <<b>> \o s \in Seq(T) /\ <<a>> \o (<<b>> \o s) \in Seq(T) /\ <<a, b>> \o s \in Seq(T)
      BY <2>1
    <2> DEFINE r == <<b>> \o s
    <2>3. <<a, b>> \o s = <<a>> \o r
      <3>1. Len(<<a, b>> \o s) = Len(<<a>> \o r)
        BY <2>1, <2>2
      <3>2. ASSUME NEW i \in 1 .. Len(<<a, b>> \o s)
            PROVE  (<<a, b>> \o s)[i] = (<<a>> \o r)[i]
        <4>1. CASE i \in {1, 2}
          BY <2>1, <2>2, <4>1
        <4>2. CASE i > 2
          BY <2>1, <2>2, <4>2
        <4> QED BY <4>1, <4>2
      <3> DEFINE x == <<a, b>> \o s
                 y == <<a>> \o r
      <3>3. x \in Seq(T) /\ y \in Seq(T) /\ Len(x) = Len(y) /\ \A i \in 1 .. Len(x) : x[i] = y[i]
        BY <2>2, <3>1, <3>2
      <3> HIDE DEF x, y
      <3>4. x = y
        BY <3>3
      <3> QED BY <3>4 DEF x, y
    <2> QED BY <2>3 DEF Cons
  <1>3. ASSUME NEW a, NEW b, NEW c PROVE <<a, b, c>> \o s = Cons(a, Cons(b, Cons(c, s)))
    <2> DEFINE T == S \cup {a, b, c}
               r == <<b, c>> \o s
    <2>1. s \in Seq(T) /\ <<a>> \in Seq(T) /\ <<b, c>> \in Seq(T) /\ <<a, b, c>> \in Seq(T)
      BY <1>1
    <2>2. r \in Seq(T) /\ <<a>> \o r \in Seq(T) /\ <<a, b, c>> \o s \in Seq(T)
      BY <2>1
    <2>3. <<a, b, c>> \o s = <<a>> \o r
      <3>1. Len(<<a, b, c>> \o s) = Len(<<a>> \o r)
        BY <2>1, <2>2
      <3>2. ASSUME NEW i \in 1 .. Len(<<a, b, c>> \o s)
            PROVE  (<<a, b, c>> \o s)[i] = (<<a>> \o r)[i]
        <4>1. CASE i \in {1, 2, 3}
          BY <2>1, <2>2, <4>1
        <4>2. CASE i > 3
          BY <2>1, <2>2, <4>2
        <4> QED BY <4>1, <4>2
      <3> QED BY <2>2, <3>1, <3>2
    <2>4. r = Cons(b, Cons(c, s))
      BY <1>2
    <2> QED BY <2>3, <2>4 DEF Cons
  <1>4. <<>> \o s = s /\ \A a : <<a>> \o s = Cons(a, s)
    BY <1>1 DEF Cons
  <1>5. \A a : <<a>> = Cons(a, <<>>)
    BY DEF Cons
  <1> QED BY <1>2, <1>3, <1>4, <1>5

LEMMA TupleIs ==
    ASSUME NEW a, NEW b
    PROVE  IsSeq(<<a>>) /\ <<a>> = Cons(a, <<>>) /\ <<a, b>> = Cons(a, Cons(b, <<>>))
  <1>1. <<a>> \in Seq({a}) /\ <<a, b>> \in Seq({a, b})
    OBVIOUS
  <1>2. <<a, b>> \o <<>> = <<a, b>>
    BY <1>1
  <1> DEFINE nil == <<>>
  <1> HIDE DEF nil
  <1>3. \A x, y : <<x, y>> \o nil = Cons(x, Cons(y, nil))
    BY NilIs, CatIs DEF nil
  <1>4. <<a, b>> \o nil = Cons(a, Cons(b, nil)) /\ <<a>> = Cons(a, <<>>)
    BY <1>3 DEF Cons
  <1> QED BY <1>1, <1>2, <1>4 DEF IsSeq, nil

LEMMA CatAssoc ==
    ASSUME NEW s, NEW t, NEW u, IsSeq(s), IsSeq(t), IsSeq(u)
    PROVE  (s \o t) \o u = s \o (t \o u) /\ IsSeq(s \o t)
  <1>1. PICK S : s \in Seq(S)
    BY DEF IsSeq
  <1>2. PICK T : t \in Seq(T)
    BY DEF IsSeq
  <1>3. PICK U : u \in Seq(U)
    BY DEF IsSeq
  <1> DEFINE A == S \cup T \cup U
  <1>4. s \in Seq(A) /\ t \in Seq(A) /\ u \in Seq(A)
    BY <1>1, <1>2, <1>3
  <1> QED BY <1>4 DEF IsSeq

-----------------------------------------------------------------------------
(***************************************************************************)
(* What the code reads from pages that agree with the names.               *)
(***************************************************************************)
LEMMA MinIs ==
    ASSUME NEW S \in SUBSET Nat, S # {}
    PROVE  Min(S) \in S /\ \A k \in S : Min(S) =< k
  <1> DEFINE R == OpToRel(<, Nat)
  <1>1. IsWellFoundedOn(R, Nat)
    BY NatLessThanWellFounded
  <1> HIDE DEF R
  <1>2. PICK x \in S : \A y \in S : ~(<<y, x>> \in R)
    BY <1>1, WFMin
  <1>3. \A y \in S : ~(y < x)
    BY <1>2 DEF OpToRel, R
  <1>4. \A y \in S : x =< y
    BY <1>3
  <1> QED BY <1>4 DEF Min

LEMMA SlotsAre ==
    /\ Slots \in SUBSET Nat /\ IsFiniteSet(Slots) /\ Cardinality(Slots) = NSlots
    /\ Inodes \in SUBSET Nat /\ 0 \in Inodes
  <1>1. NSlots \in Nat /\ NInodes \in Nat /\ NInodes # 0
    BY NamespaceAssumption
  <1>2. IsFiniteSet(1 .. NSlots) /\ Cardinality(1 .. NSlots) = NSlots
    BY <1>1, FS_Interval
  <1> QED BY <1>1, <1>2 DEF Slots, Inodes

LEMMA ActiveIs ==
    ASSUME NEW p
    PROVE  /\ Active(p) \in SUBSET Slots /\ IsFiniteSet(Active(p)) /\ Cardinality(Active(p)) \in Nat
           /\ \A k \in Slots : k \in Active(p) => ActiveBefore(p, k) # Cardinality(Active(p))
           /\ \A k \in Slots : k \in Active(p) => ActiveBefore(p, k) < Cardinality(Active(p))
  <1>1. Active(p) \in SUBSET Slots
    BY DEF Active
  <1>2. IsFiniteSet(Active(p)) /\ Cardinality(Active(p)) \in Nat
    BY <1>1, SlotsAre, FS_Subset, FS_CardinalityType
  <1>3. ASSUME NEW k \in Slots, k \in Active(p)
        PROVE  ActiveBefore(p, k) < Cardinality(Active(p))
    <2> DEFINE B == {j \in Active(p) : j < k}
    <2>1. B \in SUBSET Active(p) /\ k \notin B
      BY <1>1, <1>3, SlotsAre
    <2> HIDE DEF B
    <2>2. /\ IsFiniteSet(B) /\ Cardinality(B) =< Cardinality(Active(p))
          /\ Cardinality(Active(p)) = Cardinality(B) => Active(p) = B
      BY <1>2, <2>1, FS_Subset
    <2>3. Cardinality(B) \in Nat
      BY <2>2, FS_CardinalityType
    <2>4. Cardinality(B) < Cardinality(Active(p))
      BY <1>2, <1>3, <2>1, <2>2, <2>3
    <2> QED BY <2>4 DEF ActiveBefore, B
  <1>4. \A k \in Slots : k \in Active(p) => ActiveBefore(p, k) # Cardinality(Active(p))
    BY <1>2, <1>3
  <1> QED BY <1>1, <1>2, <1>3, <1>4

\* Path lookup finds exactly the names.
LEMMA TreeReads ==
    ASSUME NEW p, NEW D, PageType(p), DictOK(D), TreeIs(p, D), NEW n \in Names
    PROVE  /\ HasLeaf(p, n) <=> n \in DOMAIN D
           /\ Resolves(p, n) <=> n \in DOMAIN D
           /\ n \in DOMAIN D => item_search(p, n) = D[n].ino /\ Leaf(p, n).type = D[n].mode
  <1>1. HasLeaf(p, n) <=> n \in DOMAIN D
    BY DEF TreeIs, TreeIsAt
  <1>2. ASSUME n \in DOMAIN D
        PROVE  Resolves(p, n) /\ item_search(p, n) = D[n].ino /\ Leaf(p, n).type = D[n].mode
    <2>1. /\ D[n].ino \in Nat /\ D[n].ino > 0 /\ D[n].mode \in {"file", "dir"}
      BY <1>2, NamespaceAssumption DEF DictOK, Files, Inodes
    <2>2. LeafIs(p, Leaf(p, n), D[n]) /\ HasLeaf(p, n)
      BY <1>2 DEF TreeIs, TreeIsAt
    <2>3. CASE D[n].mode = "file"
      BY <2>1, <2>2, <2>3 DEF LeafIs, Resolves, item_search
    <2>4. CASE D[n].mode = "dir"
      <3>1. SubRoot(p, Leaf(p, n).value) = D[n].ino
        BY <2>2, <2>4 DEF LeafIs, SubRoot
      <3>2. Max({0, D[n].ino}) = D[n].ino
        BY <2>1 DEF Max
      <3> QED BY <2>1, <2>2, <2>4, <3>1, <3>2 DEF LeafIs, Resolves, item_search, NoNode
    <2> QED BY <2>1, <2>3, <2>4
  <1>3. Resolves(p, n) => n \in DOMAIN D
    BY <1>1 DEF Resolves
  <1> QED BY <1>1, <1>2, <1>3

LEMMA EntryReads ==
    ASSUME NEW p, NEW D, EntriesAre(p, D), CountIs(p, 0), NEW n \in Names
    PROVE  directory_exists_entry(p, n) <=> n \in DOMAIN D
  <1>1. ASSUME n \in DOMAIN D PROVE directory_exists_entry(p, n)
    <2>1. PICK k \in Active(p) : p.page[k].name = n
      BY <1>1 DEF EntriesAre
    <2>2. Cardinality(Active(p)) # 0
      BY <2>1, ActiveIs, FS_EmptySet
    <2>3. p.count # 0
      BY <2>2, ActiveIs DEF CountIs
    <2> QED BY <2>1, <2>3 DEF directory_exists_entry
  <1>2. directory_exists_entry(p, n) => n \in DOMAIN D
    BY DEF directory_exists_entry, EntriesAre
  <1> QED BY <1>1, <1>2

\* A name more always fits, in the first inactive entry.
LEMMA FreeSlotIs ==
    ASSUME NEW p, NEW D, PageType(p), DictOK(D), EntriesAre(p, D), CountIs(p, 0),
           NEW n \in Names, n \notin DOMAIN D
    PROVE  /\ FreeSlot(p) \in Slots \ Active(p)
           /\ \A j \in Slots : j < FreeSlot(p) => j \in Active(p)
  <1> DEFINE F == {k \in Slots : ~ p.page[k].active \/ ActiveBefore(p, k) = p.count}
  <1>1. \A k \in Slots : k \in F <=> k \notin Active(p) \/ ActiveBefore(p, k) = Cardinality(Active(p))
    <2>1. p.count = Cardinality(Active(p))
      BY ActiveIs DEF CountIs
    <2>2. \A k \in Slots : k \in Active(p) <=> p.page[k].active
      BY DEF Active
    <2> QED BY <2>1, <2>2
  <1>2. F = Slots \ Active(p)
    BY <1>1, ActiveIs
  <1>3. F # {}
    <2> SUFFICES ASSUME Slots \subseteq Active(p) PROVE FALSE
      BY <1>2
    <2> DEFINE T == Names \ {n}
               f == [k \in Slots |-> p.page[k].name]
    <2>1. f \in [Slots -> T]
      <3>1. ASSUME NEW k \in Slots PROVE p.page[k].name \in T
        BY DEF EntriesAre, DictOK
      <3> QED BY <3>1
    <2>2. IsFiniteSet(T) /\ Cardinality(T) < Cardinality(Slots)
      <3>1. IsFiniteSet(T) /\ Cardinality(T) = Cardinality(Names) - 1
        BY NamesAssumption, FS_RemoveElement
      <3>2. Cardinality(Names) \in Nat /\ NSlots \in Nat
        BY NamesAssumption, NamespaceAssumption, FS_CardinalityType
      <3> HIDE DEF T
      <3> QED BY <3>1, <3>2, NamesAssumption, SlotsAre
    <2> HIDE DEF T, f
    <2>3. PICK x, y \in Slots : x # y /\ f[x] = f[y]
      BY <2>1, <2>2, SlotsAre, FS_PigeonHole
    <2>4. p.page[x].name = p.page[y].name /\ (x < y \/ y < x)
      BY <2>3, SlotsAre DEF f
    <2> QED BY <2>4 DEF EntriesAre
  <1>4. F \in SUBSET Nat
    BY SlotsAre
  <1> HIDE DEF F
  <1>5. Min(F) \in F /\ \A k \in F : Min(F) =< k
    BY <1>3, <1>4, MinIs
  <1>6. FreeSlot(p) = Min(F)
    BY DEF FreeSlot, F
  <1>7. ASSUME NEW j \in Slots, j < Min(F) PROVE j \in Active(p)
    BY <1>2, <1>4, <1>5, <1>7, SlotsAre
  <1> QED BY <1>2, <1>5, <1>6, <1>7

-----------------------------------------------------------------------------
(***************************************************************************)
(* What the steps do to the pages.                                         *)
(***************************************************************************)
LEMMA WithIs ==
    ASSUME NEW D, NEW n, NEW file
    PROVE  /\ DOMAIN With(D, n, file) = DOMAIN D \cup {n}
           /\ With(D, n, file)[n] = file
           /\ \A m \in DOMAIN D : m # n => With(D, n, file)[m] = D[m]
           /\ \A S : DOMAIN Without(D, S) = DOMAIN D \ S
           /\ \A S : \A m \in DOMAIN D \ S : Without(D, S)[m] = D[m]
  BY DEF With, Without

\* Each part of the agreement is about some of the pages.
LEMMA SameTree ==
    ASSUME NEW p, NEW q, q.tree = p.tree, q.subs = p.subs, NEW D, NEW n
    PROVE  /\ TreeIs(p, D) => TreeIs(q, D)
           /\ TreeBut(p, D, n) => TreeBut(q, D, n)
  BY DEF TreeIs, TreeBut, TreeIsAt, LeafIs, HasLeaf, Leaf

LEMMA SameEntries ==
    ASSUME NEW p, NEW q, q.page = p.page, NEW D
    PROVE  Active(q) = Active(p) /\ (EntriesAre(p, D) => EntriesAre(q, D))
  <1>1. Active(q) = Active(p)
    BY DEF Active
  <1> QED BY <1>1 DEF EntriesAre

LEMMA SameNodes ==
    ASSUME NEW p, NEW q, q.inodes = p.inodes, q.bits = p.bits, NEW D, NodesAre(p, D)
    PROVE  NodesAre(q, D)
  BY DEF NodesAre

\* directory_add_entry: the subtree root, the leaf and the entry.
Subtree(p, file) == IF file.mode = "dir" THEN WithSubtree(p, file.ino) ELSE p
NewLeaf(p, file) ==
    [type |-> file.mode, value |-> IF file.mode = "dir" THEN Len(Subtree(p, file).subs) ELSE file.ino]
Added(p, n, file) == WithEntry(PushLeaf(Subtree(p, file), n, NewLeaf(p, file)), n, file.ino)

LEMMA SubtreeIs ==
    ASSUME NEW p, PageType(p), NEW file \in Files
    PROVE  LET r == Subtree(p, file) IN
           /\ r \in Pages
           /\ r.inodes = p.inodes /\ r.bits = p.bits /\ r.page = p.page /\ r.count = p.count /\ r.tree = p.tree
           /\ DOMAIN p.subs \subseteq DOMAIN r.subs /\ \A k \in DOMAIN p.subs : r.subs[k] = p.subs[k]
           /\ NewLeaf(p, file) \in LeafType /\ LeafIs(r, NewLeaf(p, file), file)
  <1>1. /\ file.ino \in Inodes /\ file.ino \in Nat /\ file.mode \in {"file", "dir"} /\ file.mode \in Modes
    BY SlotsAre DEF Files, Modes
  <1>2. p \in Pages /\ p.subs \in Seq(Inodes)
    BY DEF PageType, Pages
  <1>3. CASE file.mode = "dir"
    <2> DEFINE s == Append(p.subs, file.ino)
    <2>1. /\ s \in Seq(Inodes) /\ Len(s) \in DOMAIN s /\ s[Len(s)] = file.ino /\ Len(s) \in Nat
          /\ DOMAIN p.subs \subseteq DOMAIN s /\ \A k \in DOMAIN p.subs : s[k] = p.subs[k]
      BY <1>1, <1>2
    <2>2. Subtree(p, file) = [p EXCEPT !.subs = s]
      BY <1>3 DEF Subtree, WithSubtree
    <2> HIDE DEF s
    <2>3. /\ Subtree(p, file) \in Pages /\ Subtree(p, file).subs = s
          /\ Subtree(p, file).inodes = p.inodes /\ Subtree(p, file).bits = p.bits
          /\ Subtree(p, file).page = p.page /\ Subtree(p, file).count = p.count
          /\ Subtree(p, file).tree = p.tree
      BY <1>2, <2>1, <2>2 DEF Pages
    <2>4. NewLeaf(p, file) = [type |-> "dir", value |-> Len(s)]
      BY <1>3, <2>3 DEF NewLeaf
    <2> QED BY <1>1, <1>3, <2>1, <2>3, <2>4 DEF LeafType, LeafIs
  <1>4. CASE file.mode = "file"
    BY <1>1, <1>2, <1>4 DEF Subtree, NewLeaf, LeafType, LeafIs
  <1> QED BY <1>1, <1>3, <1>4

LEMMA AddedIs ==
    ASSUME NEW p, NEW D, PageType(p), DictOK(D), Listing(p, D),
           NEW n \in Names, n \notin DOMAIN D, NEW file \in Files
    PROVE  LET q == Added(p, n, file) E == With(D, n, file) IN
           /\ PageType(q)
           /\ TreeIs(q, E) /\ EntriesAre(q, E) /\ CountIs(q, -1)
           /\ q.inodes = p.inodes /\ q.bits = p.bits /\ q.count = p.count
  <1> DEFINE r == Subtree(p, file)
             leaf == NewLeaf(p, file)
             t == PushLeaf(r, n, leaf)
             s == FreeSlot(t)
             entry == [name |-> n, ino |-> file.ino, active |-> TRUE]
             q == Added(p, n, file)
             E == With(D, n, file)
  <1>1. /\ r \in Pages /\ r.inodes = p.inodes /\ r.bits = p.bits /\ r.page = p.page /\ r.count = p.count
        /\ r.tree = p.tree
        /\ DOMAIN p.subs \subseteq DOMAIN r.subs /\ \A k \in DOMAIN p.subs : r.subs[k] = p.subs[k]
        /\ leaf \in LeafType /\ LeafIs(r, leaf, file)
    BY SubtreeIs
  <1>2. /\ EntriesAre(p, D) /\ TreeIs(p, D) /\ CountIs(p, 0) /\ p.tree[n] = <<>>
    BY DEF Listing, TreeIs, TreeIsAt, HasLeaf
  <1>3. /\ t \in Pages /\ t.inodes = p.inodes /\ t.bits = p.bits /\ t.page = p.page /\ t.count = p.count
        /\ t.subs = r.subs /\ t.tree = [p.tree EXCEPT ![n] = <<leaf>>]
    <2> HIDE DEF r, leaf
    <2>1. <<leaf>> \o r.tree[n] = <<leaf>> /\ <<leaf>> \in Seq(LeafType)
      BY <1>1, <1>2
    <2>2. t = [r EXCEPT !.tree = [r.tree EXCEPT ![n] = <<leaf>>]]
      BY <1>1, <2>1 DEF PushLeaf, Pages
    <2>3. [r.tree EXCEPT ![n] = <<leaf>>] \in [Names -> Seq(LeafType)]
      BY <1>1, <2>1 DEF Pages
    <2> HIDE DEF t
    <2> QED BY <1>1, <2>2, <2>3 DEF Pages
  <1> HIDE DEF r, leaf, t
  <1>4. FreeSlot(t) = FreeSlot(p)
    <2>1. Active(t) = Active(p)
      BY <1>3, SameEntries
    <2>2. \A k : ActiveBefore(t, k) = ActiveBefore(p, k)
      BY <2>1 DEF ActiveBefore
    <2> QED BY <1>3, <2>2 DEF FreeSlot
  <1>5. s \in Slots /\ s \notin Active(p) /\ \A j \in Slots : j < s => j \in Active(p)
    BY <1>2, <1>4, FreeSlotIs
  <1>6. entry \in EntryType
    BY DEF EntryType, Files
  <1>7. q = [t EXCEPT !.page = [p.page EXCEPT ![s] = entry]]
    BY <1>3 DEF Added, WithEntry, t, r, leaf, Pages
  <1>8. [p.page EXCEPT ![s] = entry] \in [Slots -> EntryType]
        /\ \A k \in Slots : [p.page EXCEPT ![s] = entry][k] = IF k = s THEN entry ELSE p.page[k]
    BY <1>5, <1>6 DEF PageType, Pages
  <1> HIDE DEF entry, s, q, E
  <1>9. /\ q \in Pages /\ q.inodes = p.inodes /\ q.bits = p.bits /\ q.count = p.count
        /\ q.subs = r.subs /\ q.tree = [p.tree EXCEPT ![n] = <<leaf>>]
        /\ q.page = [p.page EXCEPT ![s] = entry]
    BY <1>3, <1>7, <1>8 DEF Pages
  <1>10. PageType(q)
    BY <1>9 DEF PageType
  <1>11. /\ DOMAIN E = DOMAIN D \cup {n} /\ E[n] = file /\ \A m \in DOMAIN D : E[m] = D[m]
    <2>1. DOMAIN E = DOMAIN D \cup {n} /\ E[n] = file /\ \A m \in DOMAIN D : m # n => E[m] = D[m]
      BY DEF E, With
    <2> QED BY <2>1
  <1>12. TreeIs(q, E)
    <2> SUFFICES ASSUME NEW m \in Names PROVE TreeIsAt(q, E, m)
      BY DEF TreeIs
    <2>1. p.tree \in [Names -> Seq(LeafType)]
      BY DEF PageType, Pages
    <2>2. CASE m = n
      <3>1. q.tree[m] = <<leaf>> /\ Leaf(q, m) = leaf
        BY <1>9, <2>1, <2>2 DEF Leaf
      <3>2. LeafIs(q, leaf, E[m])
        BY <1>1, <1>9, <1>11, <2>2 DEF LeafIs
      <3> QED BY <1>11, <2>2, <3>1, <3>2 DEF TreeIsAt, HasLeaf
    <2>3. CASE m # n
      <3>1. q.tree[m] = p.tree[m] /\ Leaf(q, m) = Leaf(p, m)
        BY <1>9, <2>1, <2>3 DEF Leaf
      <3>2. TreeIsAt(p, D, m)
        BY <1>2 DEF TreeIs
      <3>3. \A k \in DOMAIN p.subs : k \in DOMAIN q.subs /\ q.subs[k] = p.subs[k]
        BY <1>1, <1>9
      <3> QED BY <1>11, <2>3, <3>1, <3>2, <3>3 DEF TreeIsAt, HasLeaf, LeafIs
    <2> QED BY <2>2, <2>3
  <1>13. Active(q) = Active(p) \cup {s}
    <2>1. entry.active = TRUE
      BY DEF entry
    <2> QED BY <1>5, <1>8, <1>9, <2>1 DEF Active
  <1>14. EntriesAre(q, E)
    <2>1. entry.name = n /\ entry.ino = file.ino
      BY DEF entry
    <2>2. ASSUME NEW k \in Active(q)
          PROVE  q.page[k].name \in DOMAIN E /\ q.page[k].ino = E[q.page[k].name].ino
      BY <1>2, <1>5, <1>8, <1>9, <1>11, <1>13, <2>1, <2>2, ActiveIs DEF EntriesAre
    <2>3. ASSUME NEW k \in Active(q), NEW j \in Slots, j < k
          PROVE  q.page[j].name # q.page[k].name
      <3>1. CASE k = s
        <4>1. j \in Active(p) /\ j # s
          BY <1>5, <2>3, <3>1, SlotsAre
        <4>2. p.page[j].name \in DOMAIN D
          BY <1>2, <4>1 DEF EntriesAre
        <4> QED BY <1>5, <1>8, <1>9, <2>1, <3>1, <4>1, <4>2
      <3>2. CASE k # s
        <4>1. k \in Active(p) /\ k \in Slots
          BY <1>13, <2>3, <3>2, ActiveIs
        <4>2. p.page[k].name \in DOMAIN D /\ p.page[j].name # p.page[k].name
          BY <1>2, <2>3, <4>1 DEF EntriesAre
        <4> QED BY <1>8, <1>9, <2>1, <3>2, <4>1, <4>2
      <3> QED BY <3>1, <3>2
    <2>4. ASSUME NEW m \in DOMAIN E PROVE \E k \in Active(q) : q.page[k].name = m
      <3>1. CASE m = n
        BY <1>5, <1>8, <1>9, <1>13, <2>1, <3>1
      <3>2. CASE m # n
        <4>1. PICK k \in Active(p) : p.page[k].name = m
          BY <1>2, <1>11, <3>2 DEF EntriesAre
        <4>2. k \in Slots /\ k # s
          BY <1>5, ActiveIs
        <4> QED BY <1>8, <1>9, <1>13, <4>1, <4>2
      <3> QED BY <3>1, <3>2
    <2> QED BY <2>2, <2>3, <2>4 DEF EntriesAre
  <1>15. CountIs(q, -1)
    <2>1. Cardinality(Active(q)) = Cardinality(Active(p)) + 1
      <3>1. IsFiniteSet(Active(p))
        BY ActiveIs
      <3> QED BY <1>5, <1>13, <3>1, FS_AddElement
    <2>2. Cardinality(Active(p)) \in Nat
      BY ActiveIs
    <2> QED BY <1>2, <1>9, <2>1, <2>2 DEF CountIs
  <1> QED BY <1>9, <1>10, <1>12, <1>14, <1>15 DEF q, E

\* directory_remove_entry makes the entry of the name inactive, although it
\* takes the first one with that name.
FirstEntry(p, n) == Min({k \in Slots : p.page[k].name = n})

LEMMA RemovedIs ==
    ASSUME NEW p, NEW D, PageType(p), DictOK(D), Agree(p, D), NEW n \in DOMAIN D
    PROVE  LET q == Removed(p, FirstEntry(p, n)) C == Without(D, {n}) IN
           /\ p.page[FirstEntry(p, n)].ino = D[n].ino
           /\ PageType(q) /\ EntriesAre(q, C) /\ CountIs(q, 1) /\ NodesAre(q, C)
           /\ q.tree = p.tree /\ q.subs = p.subs /\ q.inodes = p.inodes /\ q.bits = p.bits
           /\ q.count = p.count /\ p.count - 1 \in Nat
  <1> DEFINE S == {k \in Slots : p.page[k].name = n}
             j == FirstEntry(p, n)
             q == Removed(p, j)
             C == Without(D, {n})
  <1>1. EntriesAre(p, D) /\ CountIs(p, 0) /\ NodesAre(p, D)
    BY DEF Agree, Listing
  <1>2. PICK a \in Active(p) : p.page[a].name = n
    BY <1>1 DEF EntriesAre
  <1>3. a \in Slots /\ a \in S /\ S \in SUBSET Nat
    BY <1>2, ActiveIs, SlotsAre
  <1> HIDE DEF S
  <1>4. Min(S) \in S /\ Min(S) =< a
    BY <1>3, MinIs
  <1>5. j = a
    <2>1. j = Min(S) /\ j \in Slots /\ p.page[j].name = n
      BY <1>4 DEF FirstEntry, S
    <2>2. ~(j < a)
      BY <1>1, <1>2, <2>1 DEF EntriesAre
    <2> QED BY <1>3, <1>4, <2>1, <2>2, SlotsAre
  <1> HIDE DEF j
  <1>6. p.page[j].ino = D[n].ino
    BY <1>1, <1>2, <1>5 DEF EntriesAre
  <1> DEFINE entry == [p.page[j] EXCEPT !.active = FALSE]
             page == [p.page EXCEPT ![j] = entry]
  <1>7. entry \in EntryType /\ entry.active = FALSE /\ entry.name = n
    BY <1>2, <1>3, <1>5 DEF PageType, Pages, EntryType
  <1> HIDE DEF entry
  <1>8. page \in [Slots -> EntryType] /\ \A k \in Slots : page[k] = IF k = j THEN entry ELSE p.page[k]
    BY <1>3, <1>5, <1>7 DEF PageType, Pages
  <1>9. q = [p EXCEPT !.page = page]
    BY DEF Removed, entry, PageType, Pages
  <1> HIDE DEF page, q, C
  <1>10. /\ q \in Pages /\ q.page = page /\ q.tree = p.tree /\ q.subs = p.subs /\ q.inodes = p.inodes
         /\ q.bits = p.bits /\ q.count = p.count
    BY <1>8, <1>9 DEF PageType, Pages
  <1>11. PageType(q)
    BY <1>10 DEF PageType
  <1>12. Active(q) = Active(p) \ {j}
    BY <1>7, <1>8, <1>10 DEF Active
  <1>13. DOMAIN C = DOMAIN D \ {n} /\ \A m \in DOMAIN C : C[m] = D[m]
    BY DEF C, Without
  <1>14. EntriesAre(q, C)
    <2>1. ASSUME NEW k \in Active(q)
          PROVE  /\ k \in Active(p) /\ k \in Slots /\ k # j /\ q.page[k] = p.page[k]
                 /\ p.page[k].name # n
      <3>1. k \in Active(p) /\ k \in Slots /\ k # j
        BY <1>12, <2>1, ActiveIs
      <3>2. p.page[k].name # n
        BY <1>1, <1>2, <1>3, <1>5, <3>1, SlotsAre DEF EntriesAre
      <3> QED BY <1>8, <1>10, <3>1, <3>2
    <2>2. ASSUME NEW k \in Active(q)
          PROVE  q.page[k].name \in DOMAIN C /\ q.page[k].ino = C[q.page[k].name].ino
      BY <1>1, <1>13, <2>1, <2>2 DEF EntriesAre
    <2>3. ASSUME NEW k \in Active(q), NEW i \in Slots, i < k
          PROVE  q.page[i].name # q.page[k].name
      <3>1. p.page[i].name # p.page[k].name
        BY <1>1, <2>1, <2>3 DEF EntriesAre
      <3> QED BY <1>7, <1>8, <1>10, <2>1, <2>3, <3>1
    <2>4. ASSUME NEW m \in DOMAIN C PROVE \E k \in Active(q) : q.page[k].name = m
      <3>1. PICK k \in Active(p) : p.page[k].name = m
        BY <1>1, <1>13 DEF EntriesAre
      <3>2. k # j
        BY <1>2, <1>5, <1>13, <3>1
      <3> QED BY <1>8, <1>10, <1>12, <3>1, <3>2, ActiveIs
    <2> QED BY <2>2, <2>3, <2>4 DEF EntriesAre
  <1>15. CountIs(q, 1) /\ p.count - 1 \in Nat
    <2>1. IsFiniteSet(Active(p)) /\ Cardinality(Active(p)) \in Nat
      BY ActiveIs
    <2>2. Cardinality(Active(q)) = Cardinality(Active(p)) - 1
      BY <1>2, <1>5, <1>12, <2>1, FS_RemoveElement
    <2>3. Cardinality(Active(q)) \in Nat
      BY ActiveIs
    <2> QED BY <1>1, <1>10, <2>1, <2>2, <2>3 DEF CountIs
  <1>16. NodesAre(q, C)
    BY <1>1, <1>10, <1>13 DEF NodesAre
  <1> QED BY <1>6, <1>10, <1>11, <1>14, <1>15, <1>16 DEF j, q, C

\* inode_free of an inode that had one name.
LEMMA FreedIs ==
    ASSUME NEW p, NEW C, PageType(p), DictOK(C), NodesAre(p, C), NEW i \in Inodes, i # 0,
           \A m \in DOMAIN C : C[m].ino # i
    PROVE  LET q == Freed(p, i) IN
           /\ PageType(q) /\ NodesAre(q, C)
           /\ q.tree = p.tree /\ q.subs = p.subs /\ q.page = p.page /\ q.count = p.count
  <1> DEFINE q == Freed(p, i)
             bits == p.bits \ {i}
             inodes == [p.inodes EXCEPT ![i] = Zeroed]
  <1>1. Zeroed \in InodeType
    BY SlotsAre DEF Zeroed, InodeType, Modes
  <1>2. /\ inodes \in [Inodes -> InodeType] /\ \A k \in Inodes : k # i => inodes[k] = p.inodes[k]
        /\ bits \in SUBSET Inodes /\ 0 \in bits
    BY <1>1 DEF PageType, Pages
  <1>3. q = [[p EXCEPT !.bits = bits] EXCEPT !.inodes = inodes]
    BY DEF Freed, PageType, Pages
  <1> HIDE DEF inodes, q
  <1>4. /\ q \in Pages /\ q.bits = bits /\ q.inodes = inodes /\ q.tree = p.tree /\ q.subs = p.subs
        /\ q.page = p.page /\ q.count = p.count
    BY <1>2, <1>3 DEF PageType, Pages
  <1>5. \A m \in DOMAIN C : C[m].ino \in Inodes
    BY DEF DictOK, Files
  <1>6. NodesAre(q, C)
    BY <1>2, <1>4, <1>5 DEF NodesAre
  <1> QED BY <1>2, <1>4, <1>6 DEF PageType, q

\* btree_delete.
LEMMA PoppedIs ==
    ASSUME NEW p, NEW C, PageType(p), NEW n \in Names, n \notin DOMAIN C, TreeBut(p, C, n)
    PROVE  /\ ~ HasLeaf(p, n) => TreeIs(p, C)
           /\ HasLeaf(p, n) =>
                LET q == PopLeaf(p, n) IN
                /\ PageType(q) /\ TreeBut(q, C, n) /\ TreeIs(q, C)
                /\ q.subs = p.subs /\ q.page = p.page /\ q.count = p.count
                /\ q.inodes = p.inodes /\ q.bits = p.bits
  <1>1. ~ HasLeaf(p, n) => TreeIs(p, C)
    BY DEF TreeBut, TreeIs, TreeIsAt
  <1>2. ASSUME HasLeaf(p, n)
        PROVE  LET q == PopLeaf(p, n) IN
                /\ PageType(q) /\ TreeBut(q, C, n) /\ TreeIs(q, C)
                /\ q.subs = p.subs /\ q.page = p.page /\ q.count = p.count
                /\ q.inodes = p.inodes /\ q.bits = p.bits
    <2> DEFINE q == PopLeaf(p, n)
               tree == [p.tree EXCEPT ![n] = <<>>]
    <2>1. Tail(p.tree[n]) = <<>>
      <3>1. p.tree[n] = <<Leaf(p, n)>>
        BY <1>2 DEF TreeBut
      <3>2. \A x : Tail(<<x>>) = <<>>
        OBVIOUS
      <3> QED BY <3>1, <3>2
    <2>2. tree \in [Names -> Seq(LeafType)] /\ tree[n] = <<>> /\ \A m \in Names : m # n => tree[m] = p.tree[m]
      BY DEF PageType, Pages
    <2>3. q = [p EXCEPT !.tree = tree]
      BY <2>1 DEF PopLeaf, PageType, Pages
    <2> HIDE DEF tree, q
    <2>4. /\ q \in Pages /\ q.tree = tree /\ q.bits = p.bits /\ q.inodes = p.inodes /\ q.subs = p.subs
          /\ q.page = p.page /\ q.count = p.count
      BY <2>2, <2>3 DEF PageType, Pages
    <2>5. ASSUME NEW m \in Names \ {n} PROVE TreeIsAt(q, C, m)
      BY <2>2, <2>4, <2>5 DEF TreeBut, TreeIsAt, HasLeaf, Leaf, LeafIs
    <2>6. ~ HasLeaf(q, n)
      BY <2>2, <2>4 DEF HasLeaf
    <2>7. TreeBut(q, C, n)
      BY <2>5, <2>6 DEF TreeBut
    <2>8. TreeIs(q, C)
      BY <2>5, <2>6 DEF TreeIs, TreeIsAt
    <2> QED BY <2>4, <2>7, <2>8 DEF PageType, q
  <1> QED BY <1>1, <1>2

\* entry_count is set; an inode is written to its place, and perhaps marked.
Counted(p, count) == [p EXCEPT !.count = count]
Wrote(p, i, node) == [p EXCEPT !.inodes[i] = node]
Marked(p, i, node) == [p EXCEPT !.bits = @ \cup {i}, !.inodes[i] = node]

LEMMA CountedIs ==
    ASSUME NEW p, PageType(p), NEW count \in Nat
    PROVE  LET q == Counted(p, count) IN
           /\ PageType(q) /\ q.count = count
           /\ q.tree = p.tree /\ q.subs = p.subs /\ q.page = p.page
           /\ q.inodes = p.inodes /\ q.bits = p.bits
  BY DEF PageType, Pages, Counted

LEMMA InodeWrittenIs ==
    ASSUME NEW p, PageType(p), NEW node \in InodeType, NEW i, node.ino = i
    PROVE  /\ LET q == Wrote(p, i, node) IN
              /\ PageType(q) /\ q.inodes = [p.inodes EXCEPT ![i] = node]
              /\ q.tree = p.tree /\ q.subs = p.subs /\ q.page = p.page /\ q.count = p.count
              /\ q.bits = p.bits
              /\ p.inodes[i] = node => q = p
           /\ LET q == Marked(p, i, node) IN
              /\ PageType(q) /\ q.inodes = [p.inodes EXCEPT ![i] = node]
              /\ q.tree = p.tree /\ q.subs = p.subs /\ q.page = p.page /\ q.count = p.count
              /\ q.bits = p.bits \cup {i}
  <1> DEFINE inodes == [p.inodes EXCEPT ![i] = node]
             bits == p.bits \cup {i}
  <1>1. /\ inodes \in [Inodes -> InodeType] /\ bits \in SUBSET Inodes /\ 0 \in bits
        /\ p.inodes[i] = node => inodes = p.inodes
    BY DEF PageType, Pages, InodeType
  <1>2. /\ Wrote(p, i, node) = [p EXCEPT !.inodes = inodes]
        /\ Marked(p, i, node) = [[p EXCEPT !.bits = bits] EXCEPT !.inodes = inodes]
    BY DEF PageType, Pages, Wrote, Marked
  <1> HIDE DEF inodes, bits
  <1>3. [p EXCEPT !.inodes = p.inodes] = p
    BY DEF PageType, Pages
  <1>4. LET q == [p EXCEPT !.inodes = inodes] IN
              /\ PageType(q) /\ q.inodes = inodes
              /\ q.tree = p.tree /\ q.subs = p.subs /\ q.page = p.page /\ q.count = p.count
              /\ q.bits = p.bits
    BY <1>1 DEF PageType, Pages
  <1>5. LET q == [[p EXCEPT !.bits = bits] EXCEPT !.inodes = inodes] IN
              /\ PageType(q) /\ q.inodes = inodes
              /\ q.tree = p.tree /\ q.subs = p.subs /\ q.page = p.page /\ q.count = p.count
              /\ q.bits = bits
    BY <1>1 DEF PageType, Pages
  <1> QED BY <1>1, <1>2, <1>3, <1>4, <1>5 DEF inodes, bits

\* _mknod marks the lowest free inode and fills it in.
LEMMA NewNodeIs ==
    ASSUME NEW p, PageType(p), FreeInodes(p) # {}, NEW file \in Files, file.ino = Min(FreeInodes(p))
    PROVE  LET node == [p.inodes[file.ino] EXCEPT !.ino = file.ino, !.mode = file.mode, !.refs = 1] IN
           /\ file.ino \in Inodes /\ file.ino \notin p.bits
           /\ node \in InodeType /\ node.ino = file.ino /\ node.mode = file.mode /\ node.refs = 1
  <1>1. file.ino \in Inodes /\ file.ino \notin p.bits /\ file.mode \in {"file", "dir"}
    <2>1. FreeInodes(p) \in SUBSET Nat
      BY SlotsAre DEF FreeInodes
    <2>2. Min(FreeInodes(p)) \in FreeInodes(p)
      BY <2>1, MinIs
    <2> QED BY <2>2 DEF FreeInodes, Files
  <1>2. p.inodes[file.ino] \in InodeType
    BY <1>1 DEF PageType, Pages
  <1>3. file.mode \in Modes /\ 1 \in Nat
    BY <1>1 DEF Modes
  <1> QED BY <1>1, <1>2, <1>3 DEF InodeType

LEMMA MknodIs ==
    ASSUME NEW p, NEW D, PageType(p), DictOK(D), Agree(p, D),
           NEW n \in Names, n \notin DOMAIN D, NEW file \in Files, file.ino \notin p.bits,
           NEW node \in InodeType, node.ino = file.ino, node.mode = file.mode, node.refs = 1
    PROVE  LET q == Marked(p, file.ino, node) IN
           /\ q.inodes[file.ino] = node
           /\ PageType(q) /\ Listing(q, D) /\ NodesAre(q, With(D, n, file))
  <1> DEFINE q == Marked(p, file.ino, node)
  <1>1. file.ino \in Inodes
    BY DEF Files
  <1>3. /\ PageType(q) /\ q.inodes = [p.inodes EXCEPT ![file.ino] = node]
        /\ q.tree = p.tree /\ q.subs = p.subs /\ q.page = p.page /\ q.count = p.count
        /\ q.bits = p.bits \cup {file.ino}
    BY InodeWrittenIs
  <1> HIDE DEF q
  <1>4. Listing(q, D)
    <2>1. TreeIs(q, D)
      BY <1>3, SameTree DEF Agree, Listing
    <2>2. Active(q) = Active(p) /\ EntriesAre(q, D)
      BY <1>3, SameEntries DEF Agree, Listing
    <2> QED BY <1>3, <2>1, <2>2 DEF Agree, Listing, CountIs
  <1>5. \A k \in Inodes : q.inodes[k] = IF k = file.ino THEN node ELSE p.inodes[k]
    BY <1>1, <1>3 DEF PageType, Pages
  <1>6. NodesAre(q, With(D, n, file))
    <2> DEFINE E == With(D, n, file)
    <2>1. DOMAIN E = DOMAIN D \cup {n} /\ E[n] = file /\ \A m \in DOMAIN D : m # n => E[m] = D[m]
      BY DEF With
    <2> HIDE DEF E
    <2>2. \A m \in DOMAIN D : D[m].ino \in Inodes /\ D[m].ino \in p.bits
      BY DEF DictOK, Files, Agree, NodesAre
    <2>3. ASSUME NEW m \in DOMAIN D
          PROVE  /\ E[m] = D[m] /\ E[m].ino # file.ino /\ q.inodes[E[m].ino] = p.inodes[D[m].ino]
                 /\ E[m].ino \in q.bits
      BY <1>1, <1>3, <1>5, <2>1, <2>2
    <2>4. ASSUME NEW m \in DOMAIN E
          PROVE  /\ E[m].ino \in q.bits /\ q.inodes[E[m].ino].ino = E[m].ino
                 /\ q.inodes[E[m].ino].mode = E[m].mode /\ q.inodes[E[m].ino].refs # 0
      <3>1. CASE m = n
        <4>1. E[m] = file /\ q.inodes[file.ino] = node /\ file.ino \in q.bits
          BY <1>1, <1>3, <1>5, <2>1, <3>1
        <4> QED BY <4>1
      <3>2. CASE m \in DOMAIN D
        BY <2>3, <3>2 DEF Agree, NodesAre
      <3> QED BY <2>1, <3>1, <3>2
    <2>5. ASSUME NEW m \in DOMAIN E, NEW k \in DOMAIN E, m # k, E[m].ino = E[k].ino
          PROVE  q.inodes[E[m].ino].refs # 1
      <3>1. m \in DOMAIN D /\ k \in DOMAIN D
        BY <2>1, <2>3, <2>5
      <3> QED BY <2>3, <2>5, <3>1 DEF Agree, NodesAre
    <2>6. NodesAre(q, E)
      BY <2>4, <2>5 DEF NodesAre
    <2> QED BY <2>6 DEF E
  <1> QED BY <1>1, <1>3, <1>4, <1>5, <1>6 DEF q

\* _link counts the new name.
LEMMA CountedNodeIs ==
    ASSUME NEW p, NEW D, PageType(p), DictOK(D), NodesAre(p, D), NEW from \in DOMAIN D
    PROVE  LET i == D[from].ino node == LinkCounted(p.inodes[i]) IN
           /\ i \in Inodes /\ p.inodes[i] \in InodeType /\ node \in InodeType
           /\ node.ino = i /\ node.mode = D[from].mode /\ node.refs = p.inodes[i].refs + 1
  <1> DEFINE i == D[from].ino
  <1>1. i \in Inodes
    BY DEF DictOK, Files
  <1>2. p.inodes[i] \in InodeType /\ p.inodes[i].ino = i /\ p.inodes[i].mode = D[from].mode
    BY <1>1 DEF NodesAre, PageType, Pages
  <1> HIDE DEF i
  <1>3. LET node == LinkCounted(p.inodes[i]) IN
        /\ node \in InodeType
        /\ node.ino = i /\ node.mode = D[from].mode /\ node.refs = p.inodes[i].refs + 1
    BY <1>2 DEF LinkCounted, InodeType
  <1> QED BY <1>1, <1>2, <1>3 DEF i

LEMMA LinkedIs ==
    ASSUME NEW p, NEW D, PageType(p), DictOK(D), NodesAre(p, D),
           NEW from \in DOMAIN D, NEW to, to \notin DOMAIN D, NEW node \in InodeType,
           node.ino = D[from].ino, node.mode = D[from].mode, node.refs = p.inodes[D[from].ino].refs + 1
    PROVE  LET q == Wrote(p, D[from].ino, node) IN
           /\ PageType(q) /\ NodesAre(q, With(D, to, D[from]))
           /\ q.tree = p.tree /\ q.subs = p.subs /\ q.page = p.page /\ q.count = p.count
  <1> DEFINE i == D[from].ino
             q == Wrote(p, i, node)
             E == With(D, to, D[from])
  <1>1. \A m \in DOMAIN D : D[m].ino \in Inodes
    BY DEF DictOK, Files
  <1>2. /\ i \in Inodes /\ p.inodes[i] \in InodeType /\ p.inodes[i].ino = i /\ p.inodes[i].refs # 0
        /\ p.inodes[i].mode = D[from].mode
    BY <1>1 DEF NodesAre, PageType, Pages
  <1> HIDE DEF i
  <1>3. node.ino = i /\ node.mode = D[from].mode /\ node.refs = p.inodes[i].refs + 1
    BY DEF i
  <1>4. node.refs # 0 /\ node.refs # 1
    BY <1>2, <1>3 DEF InodeType
  <1>5. /\ PageType(q) /\ q.inodes = [p.inodes EXCEPT ![i] = node]
        /\ q.tree = p.tree /\ q.subs = p.subs /\ q.page = p.page /\ q.count = p.count
        /\ q.bits = p.bits
    BY <1>3, InodeWrittenIs
  <1> HIDE DEF q, E
  <1>6. \A k \in Inodes : q.inodes[k] = IF k = i THEN node ELSE p.inodes[k]
    BY <1>2, <1>5 DEF PageType, Pages
  <1>7. DOMAIN E = DOMAIN D \cup {to} /\ E[to] = D[from] /\ \A m \in DOMAIN D : m # to => E[m] = D[m]
    BY DEF E, With
  <1>8. \A m \in DOMAIN E : \E k \in DOMAIN D : E[m] = D[k] /\ (m # to => m = k)
    BY <1>7
  <1>9. ASSUME NEW m \in DOMAIN E
        PROVE  /\ E[m].ino \in q.bits /\ q.inodes[E[m].ino].ino = E[m].ino
               /\ q.inodes[E[m].ino].mode = E[m].mode /\ q.inodes[E[m].ino].refs # 0
    <2>1. PICK k \in DOMAIN D : E[m] = D[k]
      BY <1>8
    <2>2. /\ D[k].ino \in Inodes /\ D[k].ino \in p.bits /\ p.inodes[D[k].ino].ino = D[k].ino
          /\ p.inodes[D[k].ino].mode = D[k].mode /\ p.inodes[D[k].ino].refs # 0
      BY <1>1 DEF NodesAre
    <2> QED BY <1>2, <1>3, <1>4, <1>5, <1>6, <2>1, <2>2
  <1>10. ASSUME NEW m \in DOMAIN E, NEW l \in DOMAIN E, m # l, E[m].ino = E[l].ino
         PROVE  q.inodes[E[m].ino].refs # 1
    <2>1. CASE E[m].ino = i
      BY <1>2, <1>4, <1>6, <2>1
    <2>2. CASE E[m].ino # i
      <3>1. m # to /\ l # to
        BY <1>7, <1>10, <2>2 DEF i
      <3>2. m \in DOMAIN D /\ l \in DOMAIN D /\ E[m] = D[m] /\ E[l] = D[l]
        BY <1>7, <3>1
      <3>3. p.inodes[D[m].ino].refs # 1
        BY <1>10, <3>2 DEF NodesAre
      <3> QED BY <1>1, <1>6, <2>2, <3>2, <3>3
    <2> QED BY <2>1, <2>2
  <1>11. NodesAre(q, E)
    BY <1>9, <1>10 DEF NodesAre
  <1> QED BY <1>3, <1>5, <1>11 DEF q, E, i

-----------------------------------------------------------------------------
(***************************************************************************)
(* The steps of a call.  Which one is taken is what todo begins with.      *)
(***************************************************************************)
Steps ==
    \/ WriteBlock \/ inode_write \/ WriteCount \/ btree_delete \/ btree_insert
    \/ directory_add_entry \/ directory_remove_entry
    \/ _mknod \/ _unlink \/ _link \/ _rename
    \/ SyncMknod \/ SyncLeaf \/ MarkEntry \/ initialize_journal_entry \/ LogMknod

LEMMA StepOf ==
    ASSUME Steps
    PROVE  /\ todo # <<>>
           /\ Head(todo).do = "write" => WriteBlock
           /\ Head(todo).do = "inode_write" => inode_write
           /\ Head(todo).do = "count" => WriteCount
           /\ Head(todo).do = "btree_delete" => btree_delete
           /\ Head(todo).do = "directory_add_entry" => directory_add_entry
           /\ Head(todo).do = "directory_remove_entry" => directory_remove_entry
           /\ Head(todo).do = "_mknod" => _mknod
           /\ Head(todo).do = "_unlink" => _unlink
           /\ Head(todo).do = "_link" => _link
           /\ Head(todo).do = "_rename" => _rename
           /\ Head(todo).do = "journal" => initialize_journal_entry
           /\ Head(todo).do = "LogMknod" => LogMknod
           /\ Head(todo).do = "SyncMknod" => SyncMknod
           /\ Head(todo).do = "SyncLeaf" => SyncLeaf
           /\ Head(todo).do = "mark" => MarkEntry
  <1>1. WriteBlock => Doing("write")
    BY DEF WriteBlock
  <1>2. inode_write => Doing("inode_write")
    BY DEF inode_write
  <1>3. WriteCount => Doing("count")
    BY DEF WriteCount
  <1>4. btree_delete => Doing("btree_delete")
    BY DEF btree_delete
  <1>5. btree_insert => Doing("btree_insert")
    BY DEF btree_insert
  <1>6. directory_add_entry => Doing("directory_add_entry")
    BY DEF directory_add_entry
  <1>7. directory_remove_entry => Doing("directory_remove_entry")
    BY DEF directory_remove_entry
  <1>8. _mknod => Doing("_mknod")
    BY DEF _mknod
  <1>9. _unlink => Doing("_unlink")
    BY DEF _unlink
  <1>10. _link => Doing("_link")
    BY DEF _link
  <1>11. _rename => Doing("_rename")
    BY DEF _rename
  <1>12. SyncMknod => Doing("SyncMknod")
    BY DEF SyncMknod
  <1>13. SyncLeaf => Doing("SyncLeaf")
    BY DEF SyncLeaf
  <1>14. MarkEntry => Doing("mark")
    BY DEF MarkEntry
  <1>15. initialize_journal_entry => Doing("journal")
    BY DEF initialize_journal_entry
  <1>16. LogMknod => Doing("LogMknod")
    BY DEF LogMknod
  <1>17. \A x : Doing(x) => todo # <<>> /\ Head(todo).do = x
    BY DEF Doing
  <1> QED BY <1>1, <1>2, <1>3, <1>4, <1>5, <1>6, <1>7, <1>8, <1>9, <1>10, <1>11, <1>12, <1>13,
             <1>14, <1>15, <1>16, <1>17 DEF Steps

\* A call in progress stays the same one, and may only add its entry to the log.
Same == UNCHANGED <<proc, call, ops, dict>> /\ log' \in {log, Append(log, Arg.entry)}

\* What the steps do, given what todo begins with.
LEMMA WriteBlockIs ==
    ASSUME Steps, NEW parts, NEW rest, IsSeq(rest), todo = Cons(Write(parts), rest)
    PROVE  mem' = mem /\ todo' = rest /\ Same
  <1>1. Head(todo) = Write(parts) /\ Tail(todo) = rest
    BY ConsIs
  <1>2. WriteBlock
    BY <1>1, StepOf DEF Write
  <1>3. mem' = mem /\ todo' = <<>> \o rest /\ Same
    BY <1>1, <1>2 DEF WriteBlock, Step, Same, history
  <1> QED BY <1>3, CatIs

LEMMA InodeWriteIs ==
    ASSUME Steps, NEW node, NEW through, NEW rest, IsSeq(rest), todo = Cons(ToWriteInode(node, through), rest)
    PROVE  mem' = Wrote(mem, node.ino, node) /\ todo' = rest /\ Same
  <1>1. Head(todo) = ToWriteInode(node, through) /\ Tail(todo) = rest
    BY ConsIs
  <1>2. inode_write /\ Arg.node = node
    BY <1>1, StepOf DEF ToWriteInode, Arg
  <1>3. mem' = Wrote(mem, node.ino, node) /\ todo' = <<>> \o rest /\ Same
    BY <1>1, <1>2 DEF inode_write, Step, Same, history, Wrote
  <1> QED BY <1>3, CatIs

LEMMA WriteCountIs ==
    ASSUME Steps, NEW count, NEW parts, NEW rest, IsSeq(rest), todo = Cons(SetCount(count, parts), rest)
    PROVE  mem' = Counted(mem, count) /\ todo' = rest /\ Same
  <1>1. Head(todo) = SetCount(count, parts) /\ Tail(todo) = rest
    BY ConsIs
  <1>2. WriteCount /\ Arg.count = count
    BY <1>1, StepOf DEF SetCount, Arg
  <1>3. mem' = Counted(mem, count) /\ todo' = <<>> \o rest /\ Same
    BY <1>1, <1>2 DEF WriteCount, Step, Same, history, Counted
  <1> QED BY <1>3, CatIs

LEMMA DeleteLeafIs ==
    ASSUME Steps, NEW n, NEW parts, NEW rest, IsSeq(rest), todo = Cons(ToDeleteLeaf(n, parts), rest)
    PROVE  /\ mem' = IF HasLeaf(mem, n) THEN PopLeaf(mem, n) ELSE mem
           /\ todo' = rest /\ Same
  <1>1. Head(todo) = ToDeleteLeaf(n, parts) /\ Tail(todo) = rest
    BY ConsIs
  <1>2. btree_delete /\ Arg.name = n
    BY <1>1, StepOf DEF ToDeleteLeaf, Arg
  <1>3. /\ mem' = IF HasLeaf(mem, n) THEN PopLeaf(mem, n) ELSE mem
        /\ todo' = <<>> \o rest /\ Same
    BY <1>1, <1>2 DEF btree_delete, Step, Same, history
  <1> QED BY <1>3, CatIs

LEMMA JournalIs ==
    ASSUME Steps, calm', NEW rest, IsSeq(rest), Logs(todo, rest)
    PROVE  mem' = mem /\ todo' = rest /\ Same
  <1>1. Head(todo).do = "journal" /\ Tail(todo) = rest
    <2>1. todo = Cons(Head(todo), rest) /\ Head(todo).do = "journal"
      BY DEF Logs
    <2>2. Tail(Cons(Head(todo), rest)) = rest
      BY ConsIs
    <2> QED BY <2>1, <2>2
  <1>2. initialize_journal_entry
    BY <1>1, StepOf
  <1> QED BY <1>1, <1>2 DEF initialize_journal_entry, Same, history

LEMMA AddEntryIs ==
    ASSUME Steps, NEW n, NEW file, NEW rest, IsSeq(rest), todo = Cons(AddStep(n, file), rest)
    PROVE  /\ mem' = Added(mem, n, file)
           /\ todo' = Cons(SetCount(mem.count + 1, {"page", "count"}), Cons(btree_write, rest))
           /\ Same
  <1>1. Head(todo) = ToAddEntry(n, file.ino, file.mode) /\ Tail(todo) = rest
    BY ConsIs DEF AddStep
  <1>2. directory_add_entry /\ Arg.name = n /\ Arg.ino = file.ino /\ Arg.type = file.mode
    BY <1>1, StepOf DEF ToAddEntry, Arg
  <1>3. /\ mem' = Added(mem, n, file)
        /\ todo' = <<SetCount(mem.count + 1, {"page", "count"}), btree_write>> \o rest /\ Same
    BY <1>1, <1>2 DEF directory_add_entry, Step, Same, history, Added, NewLeaf, Subtree
  <1> QED BY <1>3, CatIs

-----------------------------------------------------------------------------
(***************************************************************************)
(* The phases of a call.                                                   *)
(***************************************************************************)
LEMMA DictWith ==
    ASSUME NEW D, DictOK(D), NEW n, NEW to \in Names
    PROVE  /\ DictOK(Without(D, {n}))
           /\ \A from \in DOMAIN D : to \notin DOMAIN D => DictOK(With(D, to, D[from]))
           /\ \A file \in Files :
                to \notin DOMAIN D /\ (\A m \in DOMAIN D : D[m].ino # file.ino) => DictOK(With(D, to, file))
  <1>1. DictOK(Without(D, {n}))
    <2> DEFINE C == Without(D, {n})
    <2>1. DOMAIN C = DOMAIN D \ {n} /\ \A m \in DOMAIN C : C[m] = D[m]
      BY DEF Without
    <2> HIDE DEF C
    <2>2. DictOK(C)
      BY <2>1 DEF DictOK
    <2> QED BY <2>2 DEF C
  <1>2. ASSUME NEW from \in DOMAIN D, to \notin DOMAIN D PROVE DictOK(With(D, to, D[from]))
    <2> DEFINE E == With(D, to, D[from])
    <2>1. DOMAIN E = DOMAIN D \cup {to} /\ E[to] = D[from] /\ \A m \in DOMAIN D : m # to => E[m] = D[m]
      BY DEF With
    <2>2. \A m \in DOMAIN E : \E k \in DOMAIN D : E[m] = D[k]
      BY <1>2, <2>1
    <2> HIDE DEF E
    <2>3. DictOK(E)
      BY <2>1, <2>2 DEF DictOK
    <2> QED BY <2>3 DEF E
  <1>3. ASSUME NEW file \in Files, to \notin DOMAIN D, \A m \in DOMAIN D : D[m].ino # file.ino
        PROVE  DictOK(With(D, to, file))
    <2> DEFINE E == With(D, to, file)
    <2>1. DOMAIN E = DOMAIN D \cup {to} /\ E[to] = file /\ \A m \in DOMAIN D : m # to => E[m] = D[m]
      BY DEF With
    <2> HIDE DEF E
    <2>2. DictOK(E)
      BY <1>3, <2>1 DEF DictOK
    <2> QED BY <2>2 DEF E
  <1> QED BY <1>1, <1>2, <1>3

\* Pages with the same tree and entries list the same names.
LEMMA SameListing ==
    ASSUME NEW p, NEW q, NEW D, Listing(p, D),
           q.tree = p.tree, q.subs = p.subs, q.page = p.page, q.count = p.count
    PROVE  Listing(q, D)
  <1>1. TreeIs(q, D)
    BY SameTree DEF Listing
  <1>2. Active(q) = Active(p) /\ EntriesAre(q, D)
    BY SameEntries DEF Listing
  <1> QED BY <1>1, <1>2 DEF Listing, CountIs

\* directory_add_entry ends with the name added.
LEMMA AddingStep ==
    ASSUME Steps, NEW D, NEW n \in Names, NEW file \in Files, NEW rest,
           PageType(mem), DictOK(D), n \notin DOMAIN D, IsSeq(rest), Adding(mem, todo, D, n, file, rest)
    PROVE  /\ PageType(mem') /\ mem'.inodes = mem.inodes /\ mem'.bits = mem.bits /\ Same
           /\ \/ Adding(mem', todo', D, n, file, rest)
              \/ todo' = rest /\ Listing(mem', With(D, n, file))
  <1> DEFINE E == With(D, n, file)
  <1>1. CASE todo = Cons(AddStep(n, file), rest) /\ Listing(mem, D)
    <2>1. /\ mem' = Added(mem, n, file) /\ Same
          /\ todo' = Cons(SetCount(mem.count + 1, {"page", "count"}), Cons(btree_write, rest))
      BY <1>1, AddEntryIs
    <2>2. /\ PageType(mem') /\ TreeIs(mem', E) /\ EntriesAre(mem', E) /\ CountIs(mem', -1)
          /\ mem'.inodes = mem.inodes /\ mem'.bits = mem.bits /\ mem'.count = mem.count
      BY <1>1, <2>1, AddedIs
    <2> QED BY <2>1, <2>2 DEF Adding
  <1>2. CASE /\ todo = Cons(SetCount(mem.count + 1, {"page", "count"}), Cons(btree_write, rest))
             /\ TreeIs(mem, E) /\ EntriesAre(mem, E) /\ CountIs(mem, -1)
    <2>1. mem' = Counted(mem, mem.count + 1) /\ todo' = Cons(btree_write, rest) /\ Same
      BY <1>2, ConsIs, WriteCountIs
    <2>2. mem.count + 1 \in Nat /\ mem.count \in Nat
      BY DEF PageType, Pages
    <2>3. /\ PageType(mem') /\ mem'.count = mem.count + 1 /\ mem'.tree = mem.tree /\ mem'.subs = mem.subs
          /\ mem'.page = mem.page /\ mem'.inodes = mem.inodes /\ mem'.bits = mem.bits
      BY <2>1, <2>2, CountedIs
    <2> HIDE DEF E
    <2>4. TreeIs(mem', E)
      BY <1>2, <2>3, SameTree
    <2>5. Active(mem') = Active(mem) /\ EntriesAre(mem', E)
      BY <1>2, <2>3, SameEntries
    <2>6. CountIs(mem', 0)
      <3>1. Cardinality(Active(mem)) \in Nat
        BY ActiveIs
      <3> QED BY <1>2, <2>2, <2>3, <2>5, <3>1 DEF CountIs
    <2> QED BY <2>1, <2>3, <2>4, <2>5, <2>6 DEF Adding, Listing, E
  <1>3. CASE todo = Cons(btree_write, rest) /\ Listing(mem, E)
    BY <1>3, WriteBlockIs DEF btree_write
  <1> QED BY <1>1, <1>2, <1>3 DEF Adding

\* nbtrfs_mknod ends with the name added.
LEMMA CreatingStep ==
    ASSUME Steps, calm', NEW D, NEW n \in Names, NEW file \in Files,
           PageType(mem), DictOK(D), n \notin DOMAIN D, DictOK(With(D, n, file)),
           Creating(mem, todo, D, n, file)
    PROVE  /\ PageType(mem') /\ Same
           /\ \/ Creating(mem', todo', D, n, file)
              \/ todo' = <<>> /\ Agree(mem', With(D, n, file))
  <1> DEFINE E == With(D, n, file)
             logging == Cons(LogStep(n, file.mode), <<>>)
             node(through) == ToWriteInode(mem.inodes[file.ino], through)
  <1>1. IsSeq(logging) /\ IsSeq(Cons(AddStep(n, file), logging))
    BY ConsIs, NilIs
  <1>2. IsSeq(Cons(node(FALSE), Cons(AddStep(n, file), logging)))
    BY <1>1, ConsIs
  <1>3. n \in DOMAIN E /\ E[n] = file
    BY DEF With
  <1>4. CASE /\ todo = Cons(MknodStep(n, file.mode), logging) /\ Agree(mem, D)
             /\ FreeInodes(mem) # {} /\ file.ino = Min(FreeInodes(mem))
    <2> DEFINE new == [mem.inodes[file.ino] EXCEPT !.ino = file.ino, !.mode = file.mode, !.refs = 1]
    <2>1. Head(todo) = MknodStep(n, file.mode) /\ Tail(todo) = logging
      BY <1>1, <1>4, ConsIs
    <2>2. _mknod /\ Arg.name = n /\ Arg.mode = file.mode
      BY <2>1, StepOf DEF MknodStep, Arg
    <2>3. /\ mem' = Marked(mem, file.ino, new) /\ Same
          /\ todo' = <<Write({"bits"}), ToWriteInode(new, FALSE), AddStep(n, file)>> \o logging
      BY <1>4, <2>1, <2>2 DEF _mknod, Step, Same, history, Marked, AddStep
    <2>4. /\ file.ino \in Inodes /\ file.ino \notin mem.bits
          /\ new \in InodeType /\ new.ino = file.ino /\ new.mode = file.mode /\ new.refs = 1
      BY <1>4, NewNodeIs
    <2> HIDE DEF new
    <2>5. /\ mem'.inodes[file.ino] = new /\ PageType(mem') /\ Listing(mem', D) /\ NodesAre(mem', E)
      BY <1>4, <2>3, <2>4, MknodIs
    <2>6. todo' = Cons(Write({"bits"}), Cons(ToWriteInode(new, FALSE), Cons(AddStep(n, file), logging)))
      <3> HIDE DEF logging
      <3>1. \A a, b, c : <<a, b, c>> \o logging = Cons(a, Cons(b, Cons(c, logging)))
        BY <1>1, CatIs
      <3> QED BY <2>3, <3>1
    <2> QED BY <2>3, <2>5, <2>6 DEF Creating
  <1>5. CASE NodesAre(mem, E)
    <2>1. /\ file.ino \in Inodes /\ mem.inodes[file.ino] \in InodeType
          /\ mem.inodes[file.ino].ino = file.ino
      BY <1>3, <1>5 DEF NodesAre, PageType, Pages, Files
    <2>2. Wrote(mem, mem.inodes[file.ino].ino, mem.inodes[file.ino]) = mem
      BY <2>1, InodeWrittenIs
    <2> HIDE DEF E
    <2>3. CASE todo = Cons(Write({"bits"}), Cons(node(FALSE), Cons(AddStep(n, file), logging))) /\ Listing(mem, D)
      <3>1. mem' = mem /\ todo' = Cons(node(FALSE), Cons(AddStep(n, file), logging)) /\ Same
        BY <1>2, <2>3, WriteBlockIs
      <3> QED BY <1>5, <2>3, <3>1 DEF Creating, E
    <2>4. CASE todo = Cons(node(FALSE), Cons(AddStep(n, file), logging)) /\ Listing(mem, D)
      <3>1. mem' = mem /\ todo' = Cons(AddStep(n, file), logging) /\ Same
        BY <1>1, <2>2, <2>4, InodeWriteIs
      <3> QED BY <1>5, <2>4, <3>1 DEF Creating, Adding, E
    <2>5. CASE Adding(mem, todo, D, n, file, logging)
      <3> HIDE DEF logging
      <3>1. /\ PageType(mem') /\ mem'.inodes = mem.inodes /\ mem'.bits = mem.bits /\ Same
            /\ \/ Adding(mem', todo', D, n, file, logging)
               \/ todo' = logging /\ Listing(mem', E)
        BY <1>1, <2>5, AddingStep DEF E
      <3>2. NodesAre(mem', E)
        BY <1>5, <3>1, SameNodes
      <3> QED BY <3>1, <3>2 DEF Creating, E, logging
    <2>6. CASE Listing(mem, E) /\ todo = logging
      <3> DEFINE e == [type |-> "MKNOD", name |-> n, mode |-> file.mode,
                       ino |-> IF file.mode = "dir" THEN file.ino ELSE call.ino,
                       sub |-> IF file.mode = "dir" THEN Leaf(mem, n).value ELSE 0]
      <3>1. Head(todo) = LogStep(n, file.mode) /\ Tail(todo) = <<>>
        BY <2>6, NilIs, ConsIs
      <3>2. LogMknod /\ Arg.name = n /\ Arg.mode = file.mode
        BY <3>1, StepOf DEF LogStep, Arg
      <3>3. item_search(mem, n) = file.ino
        BY <1>3, <2>6, TreeReads DEF Listing, E
      <3>4. /\ mem' = mem /\ Same
            /\ todo' = ((IF file.mode = "dir" THEN <<node(TRUE)>> ELSE <<>>) \o <<ToLog(e)>>) \o <<>>
        BY <3>1, <3>2, <3>3 DEF LogMknod, Step, Same, history
      <3> HIDE DEF e, node
      <3>5. Logs(Cons(ToLog(e), <<>>), <<>>) /\ IsSeq(Cons(ToLog(e), <<>>)) /\ <<ToLog(e)>> = Cons(ToLog(e), <<>>)
        <4>1. Head(Cons(ToLog(e), <<>>)) = ToLog(e) /\ Cons(ToLog(e), <<>>) # <<>> /\ IsSeq(Cons(ToLog(e), <<>>))
          BY NilIs, ConsIs
        <4>2. ToLog(e).do = "journal"
          BY DEF ToLog
        <4> QED BY <4>1, <4>2, NilIs, CatIs DEF Logs
      <3>6. CASE file.mode = "dir"
        <4>1. todo' = (<<node(TRUE)>> \o <<ToLog(e)>>) \o <<>>
          BY <3>4, <3>6
        <4>2. IsSeq(<<node(TRUE)>>)
          BY TupleIs
        <4>3. todo' = <<node(TRUE)>> \o (<<ToLog(e)>> \o <<>>)
          BY <3>5, <4>1, <4>2, NilIs, CatAssoc
        <4>4. todo' = Cons(node(TRUE), Cons(ToLog(e), <<>>))
          BY <3>5, <4>3, NilIs, CatIs
        <4>5. todo' # <<>> /\ Head(todo') = node(TRUE) /\ Tail(todo') = Cons(ToLog(e), <<>>)
          BY <3>5, <4>4, ConsIs
        <4> QED BY <1>5, <2>6, <3>4, <3>5, <4>4, <4>5 DEF Creating, E, node
      <3>7. CASE file.mode # "dir"
        <4>1. todo' = (<<>> \o <<ToLog(e)>>) \o <<>>
          BY <3>4, <3>7
        <4>2. todo' = Cons(ToLog(e), <<>>)
          BY <3>5, <4>1, NilIs, CatIs, CatAssoc
        <4> QED BY <1>5, <2>6, <3>4, <3>5, <4>2 DEF Creating, E
      <3> QED BY <3>6, <3>7
    <2>7. CASE /\ Listing(mem, E) /\ todo # <<>> /\ Head(todo) = node(TRUE)
               /\ Logs(Tail(todo), <<>>) /\ todo = Cons(Head(todo), Tail(todo))
      <3>1. IsSeq(Tail(todo))
        <4>1. Tail(todo) = Cons(Head(Tail(todo)), <<>>)
          BY <2>7 DEF Logs
        <4> QED BY <4>1, NilIs, ConsIs
      <3>2. todo = Cons(node(TRUE), Tail(todo))
        BY <2>7
      <3>3. mem' = mem /\ todo' = Tail(todo) /\ Same
        BY <2>2, <3>1, <3>2, InodeWriteIs
      <3> QED BY <1>5, <2>7, <3>3 DEF Creating, E
    <2>8. CASE Listing(mem, E) /\ Logs(todo, <<>>)
      BY <1>5, <2>8, NilIs, JournalIs DEF Agree, E
    <2> QED BY <1>4, <2>3, <2>4, <2>5, <2>6, <2>7, <2>8 DEF Creating, E
  <1> QED BY <1>4, <1>5 DEF Creating

\* _link ends with the name added and counted.
LEMMA LinkingStep ==
    ASSUME Steps, NEW D, NEW from \in DOMAIN D, NEW to \in Names \ DOMAIN D, NEW rest,
           PageType(mem), DictOK(D), IsSeq(rest), Linking(mem, todo, D, from, to, rest)
    PROVE  /\ PageType(mem') /\ Same
           /\ \/ Linking(mem', todo', D, from, to, rest)
              \/ todo' = rest /\ Agree(mem', With(D, to, D[from]))
  <1> DEFINE E == With(D, to, D[from])
             file == D[from]
             node == LinkCounted(mem.inodes[file.ino])
             written == Cons(ToWriteInode(node, FALSE), rest)
  <1>1. NodesAre(mem, D) /\ from \in Names /\ file \in Files /\ to \notin DOMAIN D
    BY DEF Linking, DictOK
  <1>2. /\ file.ino \in Inodes /\ mem.inodes[file.ino] \in InodeType /\ node \in InodeType
        /\ node.ino = file.ino /\ node.mode = file.mode /\ node.refs = mem.inodes[file.ino].refs + 1
    BY <1>1, CountedNodeIs
  <1> HIDE DEF node
  <1>3. IsSeq(written)
    BY ConsIs
  <1> HIDE DEF written, E, file
  <1>4. CASE todo = Cons(ToLink(from, to, FALSE), rest) /\ Listing(mem, D)
    <2>1. Head(todo) = ToLink(from, to, FALSE) /\ Tail(todo) = rest
      BY <1>4, ConsIs
    <2>2. _link /\ Arg.name = from /\ Arg.to = to /\ Arg.write_through = FALSE
      BY <2>1, StepOf DEF ToLink, Arg
    <2>3. item_search(mem, from) = file.ino
      BY <1>1, <1>4, TreeReads DEF Listing, file
    <2>4. ~ directory_exists_entry(mem, to)
      BY <1>1, <1>4, EntryReads DEF Listing
    <2>5. LinkCounted(mem.inodes[file.ino]).mode = file.mode
      BY <1>2 DEF node
    <2>6. /\ mem' = mem /\ Same
          /\ todo' = <<AddStep(to, file), ToWriteInode(node, FALSE)>> \o rest
      BY <2>1, <2>2, <2>3, <2>4, <2>5 DEF _link, Step, Same, history, AddStep, node
    <2>7. \A a, b : <<a, b>> \o rest = Cons(a, Cons(b, rest))
      BY CatIs
    <2>8. todo' = Cons(AddStep(to, file), written)
      BY <2>6, <2>7 DEF written
    <2> QED BY <1>1, <1>4, <2>6, <2>8 DEF Linking, Adding, written, node, file
  <1>5. CASE Adding(mem, todo, D, to, file, written)
    <2>1. /\ PageType(mem') /\ mem'.inodes = mem.inodes /\ mem'.bits = mem.bits /\ Same
          /\ \/ Adding(mem', todo', D, to, file, written)
             \/ todo' = written /\ Listing(mem', E)
      BY <1>1, <1>3, <1>5, AddingStep DEF E, file
    <2>2. NodesAre(mem', D)
      BY <1>1, <2>1, SameNodes
    <2>3. written = Cons(ToWriteInode(LinkCounted(mem'.inodes[D[from].ino]), FALSE), rest)
      BY <2>1 DEF written, node, file
    <2> QED BY <2>1, <2>2, <2>3 DEF Linking, E, file
  <1>6. CASE todo = written /\ Listing(mem, E)
    <2>1. mem' = Wrote(mem, node.ino, node) /\ todo' = rest /\ Same
      BY <1>6, InodeWriteIs DEF written
    <2>2. mem' = Wrote(mem, D[from].ino, node)
      BY <1>2, <2>1 DEF file
    <2>3. /\ PageType(mem') /\ NodesAre(mem', E)
          /\ mem'.tree = mem.tree /\ mem'.subs = mem.subs /\ mem'.page = mem.page /\ mem'.count = mem.count
      BY <1>1, <1>2, <2>2, LinkedIs DEF file, E
    <2>4. Listing(mem', E)
      BY <1>6, <2>3, SameListing
    <2> QED BY <2>1, <2>3, <2>4 DEF Agree, E
  <1> QED BY <1>4, <1>5, <1>6 DEF Linking, written, node, file, E

\* directory_remove_entry makes the entry inactive and, of a file with no other
\* name, frees the inode.
LEMMA RemoveEntryIs ==
    ASSUME Steps, NEW D, NEW n \in DOMAIN D, NEW last, IsSeq(last),
           PageType(mem), DictOK(D), Agree(mem, D), todo = Cons(ToRemoveEntry(n, FALSE), last)
    PROVE  LET C == Without(D, {n})
               writing == Cons(Write({"page", "count"}), Cons(SetCount(mem.count - 1, {}), last))
           IN  /\ PageType(mem') /\ mem'.count = mem.count /\ Same
               /\ TreeBut(mem', C, n) /\ EntriesAre(mem', C) /\ NodesAre(mem', C) /\ CountIs(mem', 1)
               /\ \/ todo' = Cons(Write({}), Cons(ToDeleteLeaf(n, {"tree"}), Cons(Write({}), writing)))
                  \/ todo' = writing
  <1> DEFINE C == Without(D, {n})
             j == FirstEntry(mem, n)
             i == D[n].ino
             q == Removed(mem, j)
             rest == <<Write({"page", "count"}), SetCount(mem.count - 1, {})>>
             freeing == <<Write({}), ToDeleteLeaf(n, {"tree"}), Write({})>>
             writing == Cons(Write({"page", "count"}), Cons(SetCount(mem.count - 1, {}), last))
  <1>1. Head(todo) = ToRemoveEntry(n, FALSE) /\ Tail(todo) = last
    BY ConsIs
  <1>2. directory_remove_entry /\ Arg.name = n /\ Arg.write_through = FALSE
    BY <1>1, StepOf DEF ToRemoveEntry, Arg
  <1>3. /\ mem.page[j].ino = i
        /\ PageType(q) /\ EntriesAre(q, C) /\ CountIs(q, 1) /\ NodesAre(q, C)
        /\ q.tree = mem.tree /\ q.subs = mem.subs /\ q.inodes = mem.inodes /\ q.bits = mem.bits
        /\ q.count = mem.count /\ mem.count - 1 \in Nat
    BY RemovedIs
  <1>4. \A parts : Through(parts, FALSE) = {}
    BY DEF Through
  <1>5. j = Min({k \in Slots : mem.page[k].name = n}) /\ CountLess(mem) = mem.count - 1
    BY DEF FirstEntry, CountLess
  <1> HIDE DEF j
  <1>6. /\ \/ /\ mem.inodes[i].refs = 1
              /\ mem' = Freed(q, i) /\ todo' = (freeing \o rest) \o last
           \/ mem.inodes[i].refs # 1 /\ mem' = q /\ todo' = rest \o last
        /\ Same
    BY <1>1, <1>2, <1>3, <1>4, <1>5 DEF directory_remove_entry, Step, Same, history
  <1>7. DictOK(C) /\ DOMAIN C = DOMAIN D \ {n} /\ \A m \in DOMAIN C : C[m] = D[m]
    <2>1. n \in Names
      BY DEF DictOK
    <2>2. DictOK(C)
      BY <2>1, DictWith
    <2> QED BY <2>2 DEF Without
  <1> HIDE DEF C, q, i
  <1>8. TreeBut(mem, C, n)
    <2>1. \A m \in Names \ {n} : TreeIsAt(mem, C, m)
      BY <1>7 DEF Agree, Listing, TreeIs, TreeIsAt
    <2>2. n \in Names
      BY DEF DictOK
    <2>3. HasLeaf(mem, n) => mem.tree[n] = <<Leaf(mem, n)>>
      BY <2>2 DEF Agree, Listing, TreeIs, TreeIsAt
    <2> QED BY <2>1, <2>3 DEF TreeBut
  <1>9. rest \o last = writing /\ IsSeq(writing)
    <2>1. \A a, b : <<a, b>> \o last = Cons(a, Cons(b, last))
      BY CatIs
    <2>2. IsSeq(writing)
      BY ConsIs
    <2> QED BY <2>1, <2>2
  <1>10. CASE mem.inodes[i].refs = 1
    <2>1. mem' = Freed(q, i) /\ todo' = (freeing \o rest) \o last /\ Same
      BY <1>6, <1>10
    <2>2. \A m \in DOMAIN C : C[m].ino # i
      BY <1>7, <1>10 DEF Agree, NodesAre, i
    <2>3. i \in Inodes /\ i # 0
      BY DEF DictOK, Files, i
    <2>4. /\ PageType(mem') /\ NodesAre(mem', C)
          /\ mem'.tree = q.tree /\ mem'.subs = q.subs /\ mem'.page = q.page /\ mem'.count = q.count
      BY <1>3, <1>7, <2>1, <2>2, <2>3, FreedIs
    <2>5. TreeBut(mem', C, n)
      BY <1>3, <1>8, <2>4, SameTree
    <2>6. EntriesAre(mem', C) /\ CountIs(mem', 1)
      <3>1. Active(mem') = Active(q) /\ EntriesAre(mem', C)
        BY <1>3, <2>4, SameEntries
      <3> QED BY <1>3, <2>4, <3>1 DEF CountIs
    <2>7. todo' = Cons(Write({}), Cons(ToDeleteLeaf(n, {"tree"}), Cons(Write({}), writing)))
      <3>1. IsSeq(freeing) /\ IsSeq(rest)
        <4>1. \A a, b, c : <<a, b, c>> \in Seq({a, b, c})
          OBVIOUS
        <4>2. \A a, b : <<a, b>> \in Seq({a, b})
          OBVIOUS
        <4> QED BY <4>1, <4>2 DEF IsSeq
      <3> HIDE DEF freeing, rest, writing
      <3>2. (freeing \o rest) \o last = freeing \o (rest \o last)
        BY <3>1, CatAssoc
      <3>3. \A a, b, c : <<a, b, c>> \o writing = Cons(a, Cons(b, Cons(c, writing)))
        BY <1>9, CatIs
      <3>4. todo' = freeing \o writing
        BY <1>9, <2>1, <3>2
      <3> QED BY <3>3, <3>4 DEF freeing
    <2> QED BY <1>3, <2>1, <2>4, <2>5, <2>6, <2>7 DEF C
  <1>11. CASE mem.inodes[i].refs # 1
    <2>1. mem' = q /\ todo' = writing /\ Same
      BY <1>6, <1>9, <1>11
    <2>2. TreeBut(mem', C, n)
      BY <1>3, <1>8, <2>1, SameTree
    <2> QED BY <1>3, <2>1, <2>2 DEF C
  <1> QED BY <1>10, <1>11

\* _unlink ends with the name removed.
LEMMA UnlinkingStep ==
    ASSUME Steps, NEW D, NEW n \in DOMAIN D,
           PageType(mem), DictOK(D), Unlinking(mem, todo, D, n)
    PROVE  /\ PageType(mem') /\ Same
           /\ \/ Unlinking(mem', todo', D, n)
              \/ todo' = <<>> /\ Agree(mem', Without(D, {n}))
  <1> DEFINE C == Without(D, {n})
             last == Cons(ToDeleteLeaf(n, {}), <<>>)
             counting == Cons(SetCount(mem.count - 1, {}), last)
             writing == Cons(Write({"page", "count"}), counting)
             gone(p) == TreeBut(p, C, n) /\ EntriesAre(p, C) /\ NodesAre(p, C)
  <1>1. n \in Names /\ n \notin DOMAIN C
    BY DEF DictOK, Without
  <1>2. /\ IsSeq(last) /\ IsSeq(counting) /\ IsSeq(writing) /\ IsSeq(Cons(Write({}), writing))
        /\ IsSeq(Cons(ToDeleteLeaf(n, {"tree"}), Cons(Write({}), writing)))
    BY NilIs, ConsIs
  <1>3. CASE Agree(mem, D) /\ todo = Cons(ToUnlink(n, FALSE), <<>>)
    <2>1. Head(todo) = ToUnlink(n, FALSE) /\ Tail(todo) = <<>>
      BY <1>3, NilIs, ConsIs
    <2>2. _unlink /\ Arg.name = n /\ Arg.write_through = FALSE
      BY <2>1, StepOf DEF ToUnlink, Arg
    <2>3. directory_exists_entry(mem, n)
      BY <1>1, <1>3, EntryReads DEF Agree, Listing
    <2>4. /\ mem' = mem /\ Same
          /\ todo' = (<<ToRemoveEntry(n, FALSE)>> \o <<ToDeleteLeaf(n, {})>>) \o <<>>
      BY <2>1, <2>2, <2>3 DEF _unlink, Step, Same, history
    <2>5. todo' = Cons(ToRemoveEntry(n, FALSE), last)
      <3>1. \A a, b : (<<a>> \o <<b>>) \o <<>> = Cons(a, Cons(b, <<>>))
        <4> TAKE a, b
        <4>1. IsSeq(<<a>>) /\ IsSeq(<<b>>) /\ <<b>> = Cons(b, <<>>)
          BY TupleIs
        <4>2. (<<a>> \o <<b>>) \o <<>> = <<a>> \o (<<b>> \o <<>>)
          BY <4>1, NilIs, CatAssoc
        <4>3. <<b>> \o <<>> = <<b>>
          <5>1. <<b>> \in Seq({b})
            OBVIOUS
          <5> QED BY <5>1
        <4>4. \A x : <<x>> \o <<b>> = Cons(x, <<b>>)
          BY <4>1, CatIs
        <4> QED BY <4>1, <4>2, <4>3, <4>4
      <3> QED BY <2>4, <3>1
    <2> QED BY <1>3, <2>4, <2>5 DEF Unlinking
  <1>4. CASE Agree(mem, D) /\ todo = Cons(ToRemoveEntry(n, FALSE), last)
    <2> HIDE DEF last
    <2>1. /\ PageType(mem') /\ mem'.count = mem.count /\ Same
          /\ gone(mem') /\ CountIs(mem', 1)
          /\ \/ todo' = Cons(Write({}), Cons(ToDeleteLeaf(n, {"tree"}), Cons(Write({}), writing)))
             \/ todo' = writing
      BY <1>2, <1>4, RemoveEntryIs
    <2> QED BY <2>1 DEF Unlinking, last
  <1> HIDE DEF C
  <1>5. CASE gone(mem) /\ CountIs(mem, 0) /\ todo = last
    <2>1. /\ mem' = IF HasLeaf(mem, n) THEN PopLeaf(mem, n) ELSE mem
          /\ todo' = <<>> /\ Same
      BY <1>5, NilIs, DeleteLeafIs
    <2>2. /\ PageType(mem') /\ TreeIs(mem', C)
          /\ mem'.page = mem.page /\ mem'.count = mem.count
          /\ mem'.inodes = mem.inodes /\ mem'.bits = mem.bits
      BY <1>1, <1>5, <2>1, PoppedIs
    <2>3. Active(mem') = Active(mem) /\ EntriesAre(mem', C)
      BY <1>5, <2>2, SameEntries
    <2>4. NodesAre(mem', C)
      BY <1>5, <2>2, SameNodes
    <2>5. CountIs(mem', 0)
      BY <1>5, <2>2, <2>3 DEF CountIs
    <2> QED BY <2>1, <2>2, <2>3, <2>4, <2>5 DEF Agree, Listing, C
  <1>6. CASE gone(mem) /\ CountIs(mem, 1)
    <2>1. CASE todo = Cons(Write({}), Cons(ToDeleteLeaf(n, {"tree"}), Cons(Write({}), writing)))
      <3>1. mem' = mem /\ todo' = Cons(ToDeleteLeaf(n, {"tree"}), Cons(Write({}), writing)) /\ Same
        BY <1>2, <2>1, WriteBlockIs
      <3> QED BY <1>6, <3>1 DEF Unlinking, C
    <2>2. CASE todo = Cons(ToDeleteLeaf(n, {"tree"}), Cons(Write({}), writing))
      <3>1. /\ mem' = IF HasLeaf(mem, n) THEN PopLeaf(mem, n) ELSE mem
            /\ todo' = Cons(Write({}), writing) /\ Same
        BY <1>2, <2>2, DeleteLeafIs
      <3>2. /\ PageType(mem') /\ TreeBut(mem', C, n)
            /\ mem'.page = mem.page /\ mem'.count = mem.count
            /\ mem'.inodes = mem.inodes /\ mem'.bits = mem.bits
        BY <1>1, <1>6, <3>1, PoppedIs
      <3>3. Active(mem') = Active(mem) /\ EntriesAre(mem', C)
        BY <1>6, <3>2, SameEntries
      <3>4. NodesAre(mem', C)
        BY <1>6, <3>2, SameNodes
      <3>5. CountIs(mem', 1)
        BY <1>6, <3>2, <3>3 DEF CountIs
      <3> QED BY <3>1, <3>2, <3>3, <3>4, <3>5 DEF Unlinking, C
    <2>3. CASE todo = Cons(Write({}), writing)
      <3>1. mem' = mem /\ todo' = writing /\ Same
        BY <1>2, <2>3, WriteBlockIs
      <3> QED BY <1>6, <3>1 DEF Unlinking, C
    <2>4. CASE todo = writing
      <3>1. mem' = mem /\ todo' = counting /\ Same
        BY <1>2, <2>4, WriteBlockIs
      <3> QED BY <1>6, <3>1 DEF Unlinking, C
    <2>5. CASE todo = counting
      <3>1. mem' = Counted(mem, mem.count - 1) /\ todo' = last /\ Same
        BY <1>2, <2>5, WriteCountIs
      <3>2. Cardinality(Active(mem)) \in Nat /\ mem.count \in Nat /\ mem.count = Cardinality(Active(mem)) + 1
        BY <1>6, ActiveIs DEF CountIs, PageType, Pages
      <3>3. mem.count - 1 \in Nat
        BY <3>2
      <3>4. /\ PageType(mem') /\ mem'.count = mem.count - 1 /\ mem'.tree = mem.tree /\ mem'.subs = mem.subs
            /\ mem'.page = mem.page /\ mem'.inodes = mem.inodes /\ mem'.bits = mem.bits
        BY <3>1, <3>3, CountedIs
      <3>5. TreeBut(mem', C, n)
        BY <1>6, <3>4, SameTree
      <3>6. Active(mem') = Active(mem) /\ EntriesAre(mem', C)
        BY <1>6, <3>4, SameEntries
      <3>7. NodesAre(mem', C)
        BY <1>6, <3>4, SameNodes
      <3>8. CountIs(mem', 0)
        BY <3>2, <3>4, <3>6 DEF CountIs
      <3> QED BY <3>1, <3>4, <3>5, <3>6, <3>7, <3>8 DEF Unlinking, C
    <2> QED BY <1>3, <1>4, <1>5, <1>6, <2>1, <2>2, <2>3, <2>4, <2>5 DEF Unlinking, C
  <1> QED BY <1>3, <1>4, <1>5, <1>6 DEF Unlinking, C

-----------------------------------------------------------------------------
(***************************************************************************)
(* The calls.                                                              *)
(***************************************************************************)
LEMMA LogsIs ==
    ASSUME NEW e, NEW rest, IsSeq(rest)
    PROVE  Logs(Cons(ToLog(e), rest), rest)
  <1>1. Cons(ToLog(e), rest) # <<>> /\ Head(Cons(ToLog(e), rest)) = ToLog(e)
    BY ConsIs
  <1>2. ToLog(e).do = "journal"
    BY DEF ToLog
  <1> QED BY <1>1, <1>2 DEF Logs

\* A call with nothing left to do has done what it is to achieve.
LEMMA CallDone ==
    ASSUME NEW p, NEW c, NEW D, CallInProgress(p, <<>>, c, D)
    PROVE  Agree(p, c.dict)
  <1>1. \A a, s : IsSeq(s) => IsSeq(Cons(a, s)) /\ Cons(a, s) # <<>>
    BY ConsIs
  <1>2. \A n, file, rest : IsSeq(rest) => ~ Adding(p, <<>>, D, n, file, rest)
    BY <1>1 DEF Adding
  <1>3. \A rest : ~ Logs(<<>>, rest)
    BY DEF Logs
  <1>4. \A n, file : ~ Creating(p, <<>>, D, n, file)
    BY <1>1, <1>2, <1>3, NilIs DEF Creating
  <1>5. \A from, to, rest : IsSeq(rest) => ~ Linking(p, <<>>, D, from, to, rest)
    BY <1>1, <1>2 DEF Linking
  <1>6. \A E, n : ~ Unlinking(p, <<>>, E, n)
    BY <1>1, NilIs DEF Unlinking
  <1> QED BY <1>1, <1>3, <1>4, <1>5, <1>6, NilIs DEF CallInProgress

\* A step of a call.
LEMMA CallStep ==
    ASSUME Steps, calm', PageType(mem), DictOK(dict), call.op = "call", DictOK(call.dict),
           CallInProgress(mem, todo, call, dict)
    PROVE  PageType(mem') /\ Same /\ CallInProgress(mem', todo', call, dict)
  <1>1. todo # <<>>
    BY StepOf
  <1>2. CASE \E n \in Names, file \in Files :
                /\ n \notin DOMAIN dict
                /\ call.dict = With(dict, n, file)
                /\ Creating(mem, todo, dict, n, file)
    <2>1. PICK n \in Names, file \in Files :
                /\ n \notin DOMAIN dict
                /\ call.dict = With(dict, n, file)
                /\ Creating(mem, todo, dict, n, file)
      BY <1>2
    <2>2. /\ PageType(mem') /\ Same
          /\ \/ Creating(mem', todo', dict, n, file)
             \/ todo' = <<>> /\ Agree(mem', With(dict, n, file))
      BY <2>1, CreatingStep
    <2> QED BY <2>1, <2>2 DEF CallInProgress
  <1>3. CASE \E n \in DOMAIN dict :
                /\ call.dict = Without(dict, {n})
                /\ \/ Unlinking(mem, todo, dict, n)
                   \/ Logs(todo, Cons(ToUnlink(n, FALSE), <<>>)) /\ Agree(mem, dict)
    <2>1. PICK n \in DOMAIN dict :
                /\ call.dict = Without(dict, {n})
                /\ \/ Unlinking(mem, todo, dict, n)
                   \/ Logs(todo, Cons(ToUnlink(n, FALSE), <<>>)) /\ Agree(mem, dict)
      BY <1>3
    <2>2. CASE Unlinking(mem, todo, dict, n)
      <3>1. /\ PageType(mem') /\ Same
            /\ Unlinking(mem', todo', dict, n) \/ (todo' = <<>> /\ Agree(mem', Without(dict, {n})))
        BY <2>2, UnlinkingStep
      <3> QED BY <2>1, <3>1 DEF CallInProgress
    <2>3. CASE Logs(todo, Cons(ToUnlink(n, FALSE), <<>>)) /\ Agree(mem, dict)
      <3>1. IsSeq(Cons(ToUnlink(n, FALSE), <<>>))
        BY NilIs, ConsIs
      <3>2. mem' = mem /\ todo' = Cons(ToUnlink(n, FALSE), <<>>) /\ Same
        BY <2>3, <3>1, JournalIs
      <3>3. Unlinking(mem', todo', dict, n)
        BY <2>3, <3>2 DEF Unlinking
      <3> QED BY <2>1, <3>2, <3>3 DEF CallInProgress
    <2> QED BY <2>1, <2>2, <2>3
  <1>4. CASE \E from \in DOMAIN dict, to \in Names \ DOMAIN dict :
                /\ call.dict = With(dict, to, dict[from])
                /\ \/ Linking(mem, todo, dict, from, to, <<>>)
                   \/ Logs(todo, Cons(ToLink(from, to, FALSE), <<>>)) /\ Agree(mem, dict)
    <2>1. PICK from \in DOMAIN dict, to \in Names \ DOMAIN dict :
                /\ call.dict = With(dict, to, dict[from])
                /\ \/ Linking(mem, todo, dict, from, to, <<>>)
                   \/ Logs(todo, Cons(ToLink(from, to, FALSE), <<>>)) /\ Agree(mem, dict)
      BY <1>4
    <2>2. CASE Linking(mem, todo, dict, from, to, <<>>)
      <3>1. /\ PageType(mem') /\ Same
            /\ \/ Linking(mem', todo', dict, from, to, <<>>)
               \/ todo' = <<>> /\ Agree(mem', With(dict, to, dict[from]))
        BY <2>2, NilIs, LinkingStep
      <3> QED BY <2>1, <3>1 DEF CallInProgress
    <2>3. CASE Logs(todo, Cons(ToLink(from, to, FALSE), <<>>)) /\ Agree(mem, dict)
      <3>1. IsSeq(Cons(ToLink(from, to, FALSE), <<>>))
        BY NilIs, ConsIs
      <3>2. mem' = mem /\ todo' = Cons(ToLink(from, to, FALSE), <<>>) /\ Same
        BY <2>3, <3>1, JournalIs
      <3>3. Linking(mem', todo', dict, from, to, <<>>)
        BY <2>3, <3>2 DEF Linking, Agree
      <3> QED BY <2>1, <3>2, <3>3 DEF CallInProgress
    <2> QED BY <2>1, <2>2, <2>3
  <1>5. CASE \E from \in DOMAIN dict, to \in Names \ DOMAIN dict :
                /\ call.dict = Without(With(dict, to, dict[from]), {from})
                /\ \/ Linking(mem, todo, dict, from, to, Cons(ToUnlink(from, FALSE), <<>>))
                   \/ Unlinking(mem, todo, With(dict, to, dict[from]), from)
    <2>1. PICK from \in DOMAIN dict, to \in Names \ DOMAIN dict :
                /\ call.dict = Without(With(dict, to, dict[from]), {from})
                /\ \/ Linking(mem, todo, dict, from, to, Cons(ToUnlink(from, FALSE), <<>>))
                   \/ Unlinking(mem, todo, With(dict, to, dict[from]), from)
      BY <1>5
    <2> DEFINE E == With(dict, to, dict[from])
               unlinking == Cons(ToUnlink(from, FALSE), <<>>)
    <2>2. DictOK(E) /\ from \in DOMAIN E /\ IsSeq(unlinking)
      <3>1. DictOK(E)
        BY DictWith
      <3>2. from \in DOMAIN E
        BY DEF With
      <3>3. IsSeq(unlinking)
        BY NilIs, ConsIs
      <3> QED BY <3>1, <3>2, <3>3
    <2> HIDE DEF E, unlinking
    <2>3. CASE Linking(mem, todo, dict, from, to, unlinking)
      <3>1. /\ PageType(mem') /\ Same
            /\ \/ Linking(mem', todo', dict, from, to, unlinking)
               \/ todo' = unlinking /\ Agree(mem', E)
        BY <2>2, <2>3, LinkingStep DEF E
      <3>2. CASE Linking(mem', todo', dict, from, to, unlinking)
        BY <2>1, <3>1, <3>2 DEF CallInProgress, unlinking
      <3>3. CASE todo' = unlinking /\ Agree(mem', E)
        <4>1. Unlinking(mem', todo', E, from)
          BY <3>3 DEF Unlinking, unlinking
        <4> QED BY <2>1, <3>1, <4>1 DEF CallInProgress, E
      <3> QED BY <3>1, <3>2, <3>3
    <2>4. CASE Unlinking(mem, todo, E, from)
      <3>1. /\ PageType(mem') /\ Same
            /\ Unlinking(mem', todo', E, from) \/ (todo' = <<>> /\ Agree(mem', Without(E, {from})))
        BY <2>2, <2>4, UnlinkingStep
      <3> QED BY <2>1, <3>1 DEF CallInProgress, E
    <2> QED BY <2>1, <2>3, <2>4 DEF E, unlinking
  <1>6. CASE \E from \in DOMAIN dict, to \in Names :
                /\ from # to
                /\ call.dict = IF to \in DOMAIN dict THEN dict ELSE Without(With(dict, to, dict[from]), {from})
                /\ Agree(mem, dict)
                /\ \/ todo = Cons(RenameStep(from, to), <<>>)
                   \/ Logs(todo, Cons(RenameStep(from, to), <<>>))
    <2>1. PICK from \in DOMAIN dict, to \in Names :
                /\ from # to
                /\ call.dict = IF to \in DOMAIN dict THEN dict ELSE Without(With(dict, to, dict[from]), {from})
                /\ Agree(mem, dict)
                /\ \/ todo = Cons(RenameStep(from, to), <<>>)
                   \/ Logs(todo, Cons(RenameStep(from, to), <<>>))
      BY <1>6
    <2> DEFINE renaming == Cons(RenameStep(from, to), <<>>)
    <2>2. IsSeq(renaming)
      BY NilIs, ConsIs
    <2>3. CASE Logs(todo, renaming)
      <3> HIDE DEF renaming
      <3>1. mem' = mem /\ todo' = renaming /\ Same
        BY <2>2, <2>3, JournalIs
      <3> QED BY <2>1, <3>1 DEF CallInProgress, renaming
    <2>4. CASE todo = renaming
      <3>1. Head(todo) = RenameStep(from, to) /\ Tail(todo) = <<>>
        BY <2>4, NilIs, ConsIs
      <3>2. _rename /\ Arg.name = from /\ Arg.to = to /\ Arg.write_through = FALSE
        BY <3>1, StepOf DEF RenameStep, ToRename, Arg
      <3>3. HasLeaf(mem, to) <=> to \in DOMAIN dict
        BY <2>1, TreeReads DEF Agree, Listing
      <3>4. CASE to \in DOMAIN dict
        <4>1. mem' = mem /\ Same /\ todo' = <<>> \o <<>>
          BY <3>1, <3>2, <3>3, <3>4 DEF _rename, Step, Same, history
        <4>2. todo' = <<>>
          BY <4>1, NilIs, CatIs
        <4> QED BY <2>1, <3>4, <4>1, <4>2 DEF CallInProgress
      <3>5. CASE to \notin DOMAIN dict
        <4>1. mem' = mem /\ Same /\ todo' = <<ToLink(from, to, FALSE), ToUnlink(from, FALSE)>> \o <<>>
          BY <3>1, <3>2, <3>3, <3>5 DEF _rename, Step, Same, history
        <4> DEFINE nil == <<>>
        <4> HIDE DEF nil
        <4>2. \A a, b : <<a, b>> \o nil = Cons(a, Cons(b, nil))
          BY NilIs, CatIs DEF nil
        <4>3. todo' = Cons(ToLink(from, to, FALSE), Cons(ToUnlink(from, FALSE), <<>>))
          BY <4>1, <4>2 DEF nil
        <4>4. Linking(mem', todo', dict, from, to, Cons(ToUnlink(from, FALSE), <<>>))
          BY <2>1, <4>1, <4>3 DEF Linking, Agree
        <4> QED BY <2>1, <3>5, <4>1, <4>4 DEF CallInProgress
      <3> QED BY <3>4, <3>5
    <2> QED BY <2>1, <2>3, <2>4
  <1> QED BY <1>1, <1>2, <1>3, <1>4, <1>5, <1>6 DEF CallInProgress

\* A call starts on names and pages that agree.
LEMMA CallStarts ==
    ASSUME Calm, NEW steps, NEW c, Call(steps, c), c.op = "call", DictOK(c.dict),
           CallInProgress(mem, steps, c, dict)
    PROVE  Calm'
  <1>1. /\ proc' = proc /\ mem' = mem /\ dict' = dict /\ todo' = steps /\ call' = c /\ proc = "mounted"
        /\ ops < MaxOps /\ ops' = ops + 1
    BY DEF Call
  <1>2. ops' \in 0 .. MaxOps
    BY <1>1, NamespaceAssumption DEF Calm
  <1>3. PageType(mem') /\ DictOK(dict')
    BY <1>1 DEF Calm
  <1> QED BY <1>1, <1>2, <1>3 DEF Calm

LEMMA CalmIdle ==
    ASSUME Calm, Idle
    PROVE  Agree(mem, dict) /\ PageType(mem) /\ DictOK(dict) /\ ops \in 0 .. MaxOps
  BY DEF Calm, Idle, NoCall

LEMMA MknodStarts ==
    ASSUME Calm, NEW n \in Names, NEW mode \in {"file", "dir"}, nbtrfs_mknod(n, mode)
    PROVE  Calm'
  <1> DEFINE i == Min(FreeInodes(mem))
             file == [ino |-> i, mode |-> mode, id |-> ops]
             E == With(dict, n, file)
             steps == <<MknodStep(n, mode), LogStep(n, mode)>>
             c == [op |-> "call", ino |-> i, dict |-> E, promise |-> IF mode = "file" THEN {n} ELSE {}]
  <1>1. ~ Resolves(mem, n) /\ FreeInodes(mem) # {} /\ Call(steps, c)
    BY DEF nbtrfs_mknod, MknodStep, LogStep
  <1>2. Idle
    BY <1>1 DEF Call
  <1>3. Agree(mem, dict) /\ PageType(mem) /\ DictOK(dict) /\ ops \in 0 .. MaxOps
    BY <1>2, CalmIdle
  <1>4. n \notin DOMAIN dict
    BY <1>1, <1>3, TreeReads DEF Agree, Listing
  <1>5. i \in Inodes /\ i \notin mem.bits /\ i # 0
    <2>1. FreeInodes(mem) \in SUBSET Nat
      BY SlotsAre DEF FreeInodes
    <2>2. i \in FreeInodes(mem)
      BY <1>1, <2>1, MinIs
    <2> QED BY <1>3, <2>2 DEF FreeInodes, PageType
  <1> HIDE DEF i
  <1>6. file \in Files /\ file.ino = i /\ file.mode = mode
    BY <1>3, <1>5 DEF Files
  <1>7. \A m \in DOMAIN dict : dict[m].ino # i
    BY <1>3, <1>5 DEF Agree, NodesAre
  <1> HIDE DEF file
  <1>8. DictOK(E)
    BY <1>3, <1>4, <1>6, <1>7, DictWith
  <1>9. steps = Cons(MknodStep(n, mode), Cons(LogStep(n, mode), <<>>))
    BY TupleIs
  <1> HIDE DEF steps, E
  <1>10. Creating(mem, steps, dict, n, file)
    BY <1>1, <1>3, <1>6, <1>9 DEF Creating, i
  <1>11. c.op = "call" /\ c.dict = E
    OBVIOUS
  <1> HIDE DEF c
  <1>12. CallInProgress(mem, steps, c, dict)
    BY <1>4, <1>6, <1>10, <1>11 DEF CallInProgress, E
  <1> QED BY <1>1, <1>8, <1>11, <1>12, CallStarts

LEMMA UnlinkStarts ==
    ASSUME Calm, NEW n \in Names, nbtrfs_unlink(n)
    PROVE  Calm'
  <1> DEFINE e == [type |-> "UNLINK", name |-> n]
             steps == <<ToLog(e), ToUnlink(n, FALSE)>>
             rest == Cons(ToUnlink(n, FALSE), <<>>)
             c == [op |-> "call", dict |-> Without(dict, {n}), promise |-> {}]
  <1>1. Resolves(mem, n) /\ Call(steps, c)
    BY DEF nbtrfs_unlink
  <1>2. Idle
    BY <1>1 DEF Call
  <1>3. Agree(mem, dict) /\ PageType(mem) /\ DictOK(dict)
    BY <1>2, CalmIdle
  <1>4. n \in DOMAIN dict
    BY <1>1, <1>3, TreeReads DEF Agree, Listing
  <1> HIDE DEF e
  <1>5. steps = Cons(ToLog(e), rest)
    BY TupleIs
  <1>6. Logs(steps, rest)
    <2>1. IsSeq(rest)
      BY NilIs, ConsIs
    <2> HIDE DEF rest
    <2>2. Logs(Cons(ToLog(e), rest), rest)
      BY <2>1, LogsIs
    <2> QED BY <1>5, <2>2
  <1>7. c.op = "call" /\ c.dict = Without(dict, {n})
    OBVIOUS
  <1> HIDE DEF steps, c
  <1>8. CallInProgress(mem, steps, c, dict)
    BY <1>3, <1>4, <1>6, <1>7 DEF CallInProgress
  <1>9. DictOK(c.dict)
    BY <1>3, <1>7, DictWith
  <1> QED BY <1>1, <1>7, <1>8, <1>9, CallStarts

LEMMA LinkStarts ==
    ASSUME Calm, NEW from \in Names, NEW to \in Names, nbtrfs_link(from, to)
    PROVE  Calm'
  <1> DEFINE e == [type |-> "LINK", name |-> from, to |-> to]
             steps == <<ToLog(e), ToLink(from, to, FALSE)>>
             rest == Cons(ToLink(from, to, FALSE), <<>>)
             c == [op |-> "call", promise |-> {},
                   dict |-> IF from \in DOMAIN dict THEN With(dict, to, dict[from]) ELSE dict]
  <1>1. Resolves(mem, from) /\ ~ Resolves(mem, to) /\ Call(steps, c)
    BY DEF nbtrfs_link
  <1>2. Idle
    BY <1>1 DEF Call
  <1>3. Agree(mem, dict) /\ PageType(mem) /\ DictOK(dict)
    BY <1>2, CalmIdle
  <1>4. from \in DOMAIN dict /\ to \notin DOMAIN dict
    BY <1>1, <1>3, TreeReads DEF Agree, Listing
  <1> HIDE DEF e
  <1>5. steps = Cons(ToLog(e), rest)
    BY TupleIs
  <1>6. Logs(steps, rest)
    <2>1. IsSeq(rest)
      BY NilIs, ConsIs
    <2> HIDE DEF rest
    <2>2. Logs(Cons(ToLog(e), rest), rest)
      BY <2>1, LogsIs
    <2> QED BY <1>5, <2>2
  <1>7. c.op = "call" /\ c.dict = With(dict, to, dict[from])
    BY <1>4
  <1> HIDE DEF steps, c
  <1>8. CallInProgress(mem, steps, c, dict)
    BY <1>3, <1>4, <1>6, <1>7 DEF CallInProgress
  <1>9. DictOK(c.dict)
    BY <1>3, <1>4, <1>7, DictWith
  <1> QED BY <1>1, <1>7, <1>8, <1>9, CallStarts

LEMMA RenameStarts ==
    ASSUME Calm, NEW from \in Names, NEW to \in Names, nbtrfs_rename(from, to)
    PROVE  Calm'
  <1> DEFINE e == [type |-> "RENAME", name |-> from, to |-> to]
             steps == <<ToLog(e), RenameStep(from, to)>>
             rest == Cons(RenameStep(from, to), <<>>)
             renamed == Without(With(dict, to, dict[from]), {from})
             c == [op |-> "call", promise |-> {},
                   dict |-> IF from \in DOMAIN dict /\ ~ HasLeaf(mem, to) THEN renamed ELSE dict]
  <1>1. from # to /\ Resolves(mem, from) /\ Call(steps, c)
    BY DEF nbtrfs_rename, RenameStep
  <1>2. Idle
    BY <1>1 DEF Call
  <1>3. Agree(mem, dict) /\ PageType(mem) /\ DictOK(dict)
    BY <1>2, CalmIdle
  <1>4. from \in DOMAIN dict /\ (HasLeaf(mem, to) <=> to \in DOMAIN dict)
    BY <1>1, <1>3, TreeReads DEF Agree, Listing
  <1> HIDE DEF e, renamed
  <1>5. steps = Cons(ToLog(e), rest)
    BY TupleIs
  <1>6. Logs(steps, rest)
    <2>1. IsSeq(rest)
      BY NilIs, ConsIs
    <2> HIDE DEF rest
    <2>2. Logs(Cons(ToLog(e), rest), rest)
      BY <2>1, LogsIs
    <2> QED BY <1>5, <2>2
  <1>7. c.op = "call" /\ c.dict = IF to \in DOMAIN dict THEN dict ELSE renamed
    BY <1>4
  <1> HIDE DEF steps, c
  <1>8. CallInProgress(mem, steps, c, dict)
    BY <1>1, <1>3, <1>4, <1>6, <1>7 DEF CallInProgress, renamed
  <1>9. DictOK(c.dict)
    <2>1. CASE to \in DOMAIN dict
      BY <1>3, <1>7, <2>1
    <2>2. CASE to \notin DOMAIN dict
      <3>1. DictOK(With(dict, to, dict[from]))
        BY <1>3, <1>4, <2>2, DictWith
      <3>2. DictOK(renamed)
        BY <3>1, DictWith DEF renamed
      <3> QED BY <1>7, <2>2, <3>2
    <2> QED BY <2>1, <2>2
  <1> QED BY <1>1, <1>7, <1>8, <1>9, CallStarts

-----------------------------------------------------------------------------
(***************************************************************************)
(* The invariant.                                                          *)
(***************************************************************************)
LEMMA CalmInit == Init => CalmInv
  <1> SUFFICES ASSUME Init PROVE Calm
    BY DEF CalmInv
  <1> DEFINE p == EmptyPages
  <1>1. Zeroed \in InodeType /\ RootInode \in InodeType /\ NoEntry \in EntryType
    BY SlotsAre DEF Zeroed, RootInode, NoEntry, InodeType, EntryType, Modes
  <1>2. /\ p.inodes \in [Inodes -> InodeType] /\ p.bits \in SUBSET Inodes /\ 0 \in p.bits
        /\ p.page \in [Slots -> EntryType] /\ p.tree \in [Names -> Seq(LeafType)]
        /\ p.subs \in Seq(Inodes) /\ p.count = 0
    BY <1>1, SlotsAre DEF EmptyPages
  <1>3. p \in Pages
    BY <1>2 DEF Pages, EmptyPages
  <1>4. DOMAIN dict = {}
    BY DEF Init
  <1>5. TreeIs(p, dict)
    BY <1>4 DEF EmptyPages, TreeIs, TreeIsAt, HasLeaf
  <1>6. Active(p) = {}
    BY DEF Active, EmptyPages, NoEntry
  <1>7. EntriesAre(p, dict) /\ CountIs(p, 0)
    BY <1>2, <1>4, <1>6, FS_EmptySet DEF EntriesAre, CountIs
  <1>8. NodesAre(p, dict)
    BY <1>4 DEF NodesAre
  <1>9. DictOK(dict)
    BY <1>4 DEF DictOK
  <1>10. ops \in 0 .. MaxOps
    BY NamespaceAssumption DEF Init
  <1> HIDE DEF p
  <1>11. mem = p
    BY DEF Init, p
  <1> QED BY <1>2, <1>3, <1>5, <1>7, <1>8, <1>9, <1>10, <1>11 DEF Init, Calm, Agree, Listing, PageType

\* Nothing makes a mount calm again.
LEMMA CalmEnds ==
    ASSUME [Next]_vars, calm'
    PROVE  calm
  <1>1. \A p, parts, next : Step(p, parts, next) => calm' = calm
    BY DEF Step, history
  <1>2. \A steps, c : Call(steps, c) => calm' = calm
    BY DEF Call
  <1>3. CASE \E n \in Names, mode \in {"file", "dir"} : nbtrfs_mknod(n, mode)
    BY <1>2, <1>3 DEF nbtrfs_mknod
  <1>4. CASE \E n \in Names : nbtrfs_unlink(n)
    BY <1>2, <1>4 DEF nbtrfs_unlink
  <1>5. CASE \E from, to \in Names : nbtrfs_link(from, to)
    BY <1>2, <1>5 DEF nbtrfs_link
  <1>6. CASE \E from, to \in Names : nbtrfs_rename(from, to)
    BY <1>2, <1>6 DEF nbtrfs_rename
  <1>7. CASE Return \/ nbtrfs_destroy \/ mark_journal_synced \/ cache_sync \/ Mount \/ sync_journal \/ Kill
    BY <1>7 DEF Return, nbtrfs_destroy, mark_journal_synced, cache_sync, Mount, sync_journal, Kill, history
  <1>8. CASE WriteBlock \/ inode_write \/ WriteCount \/ btree_delete \/ btree_insert
    BY <1>1, <1>8 DEF WriteBlock, inode_write, WriteCount, btree_delete, btree_insert
  <1>9. CASE directory_add_entry
    BY <1>1, <1>9 DEF directory_add_entry
  <1>10. CASE directory_remove_entry
    BY <1>1, <1>10 DEF directory_remove_entry
  <1>11. CASE _mknod \/ _unlink \/ _link \/ _rename \/ SyncMknod \/ SyncLeaf \/ LogMknod
    BY <1>1, <1>11 DEF _mknod, _unlink, _link, _rename, SyncMknod, SyncLeaf, LogMknod
  <1>12. CASE MarkEntry \/ initialize_journal_entry
    BY <1>12 DEF MarkEntry, initialize_journal_entry, history
  <1>13. CASE UNCHANGED vars
    BY <1>13 DEF vars, history
  <1> QED BY <1>3, <1>4, <1>5, <1>6, <1>7, <1>8, <1>9, <1>10, <1>11, <1>12, <1>13 DEF Next

LEMMA CalmNext == CalmInv /\ [Next]_vars => CalmInv'
  <1> SUFFICES ASSUME CalmInv, [Next]_vars, calm' PROVE Calm'
    BY DEF CalmInv
  <1>1. Calm
    BY CalmEnds DEF CalmInv
  <1>2. CASE \E n \in Names, mode \in {"file", "dir"} : nbtrfs_mknod(n, mode)
    BY <1>1, <1>2, MknodStarts
  <1>3. CASE \E n \in Names : nbtrfs_unlink(n)
    BY <1>1, <1>3, UnlinkStarts
  <1>4. CASE \E from, to \in Names : nbtrfs_link(from, to)
    BY <1>1, <1>4, LinkStarts
  <1>5. CASE \E from, to \in Names : nbtrfs_rename(from, to)
    BY <1>1, <1>5, RenameStarts
  <1>6. CASE Return
    <2>1. /\ todo = <<>> /\ call.op = "call" /\ proc' = proc /\ mem' = mem /\ todo' = todo /\ ops' = ops
          /\ call' = NoCall /\ dict' = call.dict /\ proc = "mounted"
      BY <1>6 DEF Return
    <2>2. DictOK(call.dict) /\ CallInProgress(mem, todo, call, dict)
      BY <1>1, <2>1 DEF Calm, NoCall
    <2>3. Agree(mem, call.dict)
      BY <2>1, <2>2, CallDone
    <2>4. PageType(mem') /\ ops' \in 0 .. MaxOps /\ DictOK(dict') /\ Agree(mem', dict')
      BY <1>1, <2>1, <2>2, <2>3 DEF Calm
    <2> QED BY <2>1, <2>4 DEF Calm
  <1>7. CASE nbtrfs_destroy
    <2>1. /\ Idle /\ proc' = "mounted" /\ mem' = mem /\ todo' = todo /\ dict' = dict /\ call'.op = "destroy"
          /\ ops' = ops + 1 /\ ops < MaxOps
      BY <1>7 DEF nbtrfs_destroy, history
    <2>2. Agree(mem, dict) /\ PageType(mem) /\ DictOK(dict) /\ ops \in 0 .. MaxOps
      BY <1>1, <2>1, CalmIdle
    <2>3. ops' \in 0 .. MaxOps /\ todo' = <<>>
      BY <2>1, <2>2, NamespaceAssumption DEF Idle
    <2> QED BY <2>1, <2>2, <2>3 DEF Calm
  <1>8. CASE cache_sync
    <2>1. /\ call.op = "destroy" /\ mem' = mem /\ log' = log /\ todo' = todo /\ ops' = ops /\ dict' = dict
          /\ call' = NoCall
      BY <1>8 DEF cache_sync, history
    <2>2. todo = <<>> /\ Agree(mem, dict)
      BY <1>1, <2>1 DEF Calm, NoCall
    <2>3. log = <<>>
      BY <1>8 DEF cache_sync
    <2> QED BY <1>1, <2>1, <2>2, <2>3 DEF Calm
  <1>9. CASE Mount
    <2>1. /\ proc = "down" /\ mem' = mem /\ log' = log /\ todo' = todo /\ ops' = ops /\ dict' = dict
          /\ call' = call
      BY <1>9 DEF Mount, history
    <2> QED BY <1>1, <2>1 DEF Calm
  <1>10. CASE sync_journal
    <2>1. log = <<>> /\ todo = <<>>
      BY <1>1, <1>10 DEF sync_journal, Calm
    <2>2. /\ proc' = "mounted" /\ todo' = todo /\ mem' = mem /\ log' = log /\ ops' = ops /\ dict' = dict
          /\ call' = call /\ proc = "replaying"
      BY <1>10, <2>1 DEF sync_journal, history
    <2> QED BY <1>1, <2>1, <2>2 DEF Calm
  <1>11. CASE Kill
    BY <1>11 DEF Kill
  <1>12. CASE Steps
    <2>1. todo # <<>>
      BY <1>12, StepOf
    <2>2. /\ PageType(mem) /\ DictOK(dict) /\ ops \in 0 .. MaxOps /\ call.op = "call" /\ proc = "mounted"
          /\ DictOK(call.dict) /\ CallInProgress(mem, todo, call, dict)
      BY <1>1, <2>1 DEF Calm
    <2>3. PageType(mem') /\ Same /\ CallInProgress(mem', todo', call, dict)
      BY <1>12, <2>2, CallStep
    <2>4. proc' = proc /\ call' = call /\ ops' = ops /\ dict' = dict
      BY <2>3 DEF Same
    <2> QED BY <2>2, <2>3, <2>4 DEF Calm
  <1>13. CASE mark_journal_synced
    <2>1. /\ call.op = "destroy" /\ mem' = mem /\ todo' = todo /\ ops' = ops /\ dict' = dict
          /\ call' = call /\ proc' = proc
      BY <1>13 DEF mark_journal_synced, history
    <2>2. proc = "mounted" /\ todo = <<>> /\ Agree(mem, dict)
      BY <1>1, <2>1 DEF Calm, NoCall
    <2> QED BY <1>1, <2>1, <2>2 DEF Calm
  <1>14. CASE UNCHANGED vars
    BY <1>1, <1>14 DEF vars, history, Calm
  <1> QED BY <1>2, <1>3, <1>4, <1>5, <1>6, <1>7, <1>8, <1>9, <1>10, <1>11, <1>12, <1>13, <1>14 DEF Next, Steps

LEMMA CalmAlways == Spec => []CalmInv
  BY CalmInit, CalmNext, PTL DEF Spec

-----------------------------------------------------------------------------
\* item_search and the inodes are the map the calls made, after any sequence of
\* creations, links, renames, removals and unmounts on a mount that was not
\* killed and whose ring did not wrap.
THEOREM NamesAreTheMap == Spec => []CalmIsMap
  <1>1. CalmInv => CalmIsMap
    <2> SUFFICES ASSUME Calm, Idle, NEW n \in Names
                 PROVE  /\ Resolves(mem, n) <=> n \in DOMAIN dict
                        /\ n \in DOMAIN dict =>
                            /\ item_search(mem, n) = dict[n].ino
                            /\ dict[n].ino \in mem.bits
                            /\ mem.inodes[dict[n].ino].mode = dict[n].mode
      BY DEF CalmInv, CalmIsMap
    <2>1. Agree(mem, dict) /\ PageType(mem) /\ DictOK(dict)
      BY CalmIdle
    <2>2. TreeIs(mem, dict) /\ NodesAre(mem, dict)
      BY <2>1 DEF Agree, Listing
    <2> QED BY <2>1, <2>2, TreeReads DEF NodesAre
  <1> QED BY <1>1, CalmAlways, PTL

\* inode_allocate hands out no inode of a file that still has a name: names
\* share an inode only when one was linked to the other.
THEOREM InodesAreNotReused == Spec => []FilesAreDistinct
  <1>1. CalmInv => FilesAreDistinct
    BY DEF CalmInv, Calm, DictOK, FilesAreDistinct
  <1> QED BY <1>1, CalmAlways, PTL

\* directory_list lists exactly the names item_search finds, and entry_count is
\* the number of entries in use.
THEOREM ListingIsComplete == Spec => []CalmListing
  <1>1. CalmInv => CalmListing
    <2> SUFFICES ASSUME Calm, Idle
                 PROVE  /\ Listed(mem) = {n \in Names : Resolves(mem, n)}
                        /\ mem.count = Cardinality(Active(mem))
      BY DEF CalmInv, CalmListing
    <2>1. Agree(mem, dict) /\ PageType(mem) /\ DictOK(dict)
      BY CalmIdle
    <2>2. TreeIs(mem, dict) /\ EntriesAre(mem, dict) /\ CountIs(mem, 0)
      BY <2>1 DEF Agree, Listing
    <2>3. mem.count = Cardinality(Active(mem))
      BY <2>2, ActiveIs DEF CountIs
    <2>4. Listed(mem) = {mem.page[j].name : j \in Active(mem)}
      <3>1. {k \in Active(mem) : ActiveBefore(mem, k) < mem.count} = Active(mem)
        BY <2>3, ActiveIs
      <3> QED BY <3>1 DEF Listed
    <2>5. {mem.page[j].name : j \in Active(mem)} = DOMAIN dict
      BY <2>2 DEF EntriesAre
    <2>6. {n \in Names : Resolves(mem, n)} = DOMAIN dict
      <3>1. DOMAIN dict \subseteq Names
        BY <2>1 DEF DictOK
      <3>2. \A n \in Names : Resolves(mem, n) <=> n \in DOMAIN dict
        BY <2>1, <2>2, TreeReads
      <3> QED BY <3>1, <3>2
    <2> QED BY <2>3, <2>4, <2>5, <2>6
  <1> QED BY <1>1, CalmAlways, PTL
=============================================================================
