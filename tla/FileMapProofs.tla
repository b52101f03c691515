--------------------------- MODULE FileMapProofs ----------------------------
(***************************************************************************)
(* The block maps of all files stay disjoint, and a file reads back what   *)
(* was written to it, for any number of inodes, blocks, pointers and       *)
(* journal entries.  What the second execution of a WRITE entry needs is   *)
(* that a block stays where it was placed (Linked).                        *)
(***************************************************************************)
EXTENDS FileMap, FiniteSetTheorems, WellFoundedInduction, TLAPS

-----------------------------------------------------------------------------
(***************************************************************************)
(* The inductive invariant.                                                *)
(***************************************************************************)
TableType == [0 .. Ptrs - 1 -> Blocks]
DataPages == [kind : {"data"}, val : Values \cup {Zero}]
TablePages == [kind : {"table"}, ptr : TableType]
Sizes == 0 .. MaxIndex + 1
InodeType == [size : Sizes, direct : [0 .. Direct - 1 -> Blocks], indirect : Blocks]

WriteOps ==
    {o \in [fn : {"write"}, f : Inodes, next : Nat, last : Sizes, val : Values, pnum : Blocks] :
        o.next =< o.last}
TruncateOps ==
    [fn : {"truncate"}, f : Inodes, size : Sizes, next : Nat, last : Sizes, redo : BOOLEAN]
UnlinkOps == [fn : {"unlink"}, f : Inodes]

Shapes ==
    /\ proc \in {"mounted", "superblock_lost", "page_overflow", "overtaken"}
    /\ op \in {Idle} \cup WriteOps \cup TruncateOps \cup UnlinkOps
    /\ ibitmap \subseteq 0 .. NInodeBits - 1
    /\ inode \in [Inodes -> InodeType]
    /\ bitmap \subseteq Blocks
    /\ contents \in [Blocks -> {SuperPage} \cup DataPages \cup TablePages]
    /\ shadow \in [Inodes -> [Indices -> Values \cup {None}]]
    /\ ran_out \in BOOLEAN

\* The entries of the journal, logged and about to be.
WriteEntries == [type : {"WRITE"}, f : Inodes, index : Indices, block : Blocks \ {Null}]
TruncateEntries == [type : {"TRUNCATE"}, size : Sizes]
Entries == {SyncedEntry, OtherEntry} \cup WriteEntries \cup TruncateEntries
LogShape ==
    /\ log \in [Slots -> Entries]
    /\ head \in Nat
    /\ logging \in {NoEntry} \cup Entries

\* The blocks disk_format allocated stay marked.
ReservedMarked == 0 .. Reserved - 1 \subseteq bitmap

\* BlocksOwned, pointer by pointer.
PagesDistinct ==
    \A f, g \in Inodes, i, j \in Indices :
        inode_get_block(f, i) # Null /\ inode_get_block(f, i) = inode_get_block(g, j) => f = g /\ i = j
TablesDistinct ==
    \A f, g \in Inodes :
        /\ inode[f].indirect # Null /\ inode[f].indirect = inode[g].indirect => f = g
        /\ inode[f].indirect # Null =>
              \A i \in Indices : inode_get_block(g, i) # inode[f].indirect
PointersMarked ==
    \A f \in Inodes :
        /\ \A i \in Indices :
              inode_get_block(f, i) # Null => inode_get_block(f, i) \in bitmap \ (0 .. Reserved - 1)
        /\ inode[f].indirect # Null =>
              /\ inode[f].indirect \in bitmap \ (0 .. Reserved - 1)
              /\ contents[inode[f].indirect] \in TablePages

\* The page nbtrfs_write is about to fill: no other pointer leads to it.
PageInHand ==
    op \in WriteOps /\ op.pnum # Null =>
        /\ op.pnum \in bitmap \ (0 .. Reserved - 1)
        /\ \A f \in Inodes :
            /\ inode[f].indirect # op.pnum
            /\ \A i \in Indices : inode_get_block(f, i) = op.pnum => f = op.f /\ i = op.next

Owned == proc = "mounted" => ReservedMarked /\ PagesDistinct /\ TablesDistinct /\ PointersMarked /\ PageInHand

OInv == Shapes /\ Owned

\* Every page written and not truncated is in its block, below the size of the
\* file or of what the write under way will make it.
WrittenKept ==
    \A f \in Inodes, i \in Indices :
        i < Ptrs /\ shadow[f][i] # None =>
            /\ inode_get_block(f, i) # Null
            /\ contents[inode_get_block(f, i)] = DataPage(shadow[f][i])
            /\ i < inode[f].size \/ (op \in WriteOps /\ op.f = f /\ i < op.next)

\* The page in hand is the one the file leads to.
HandLinked == op \in WriteOps /\ op.pnum # Null /\ op.next < Ptrs => inode_get_block(op.f, op.next) = op.pnum

\* _truncate frees pages behind the new size only, and none of those is expected.
TruncateBehind ==
    op \in TruncateOps =>
        /\ op.size =< op.next
        /\ \A i \in Indices : shadow[op.f][i] # None => i < op.size

\* A TRUNCATE entry of another size than the file's is being executed again.
Cutting == op \in TruncateOps /\ op.redo

Kept == proc = "mounted" /\ ~ran_out /\ ~Cutting => WrittenKept /\ HandLinked /\ TruncateBehind

RInv == OInv /\ Kept

\* The pointer inode_set_block sets for page i of file f.
PointerAt(f, i) ==
    IF i < Direct THEN inode[f].direct[i]
    ELSE IF i < Ptrs + Direct /\ inode[f].indirect # Null
         THEN contents[inode[f].indirect].ptr[i - Direct]
         ELSE Null

\* A block placed at a page, with the page neither truncated nor removed since,
\* is where its WRITE entry would put it again.
Linked ==
    /\ \A f \in Inodes, i \in Indices :
          placed[f][i] # Null => f \in Files /\ PointerAt(f, i) = placed[f][i]
    /\ op \in WriteOps => op.f \in Files
PInv ==
    /\ placed \in [Inodes -> [Indices -> Blocks]]
    /\ proc = "mounted" => Linked

FInv == RInv /\ LogShape /\ PInv
-----------------------------------------------------------------------------
\* The minimum of a set of block or inode numbers, as alloc_page and
\* inode_allocate search for it.
LEMMA MinIs ==
    ASSUME NEW S \in SUBSET Nat, S # {}
    PROVE  Min(S) \in S
  <1> DEFINE R == OpToRel(<, Nat)
  <1>1. IsWellFoundedOn(R, Nat)
    BY NatLessThanWellFounded
  <1> HIDE DEF R
  <1>2. PICK x \in S : \A y \in S : ~(<<y, x>> \in R)
    BY <1>1, WFMin
  <1>3. \A y \in S : ~(y < x)
    BY <1>2 DEF OpToRel, R
  <1>4. \A y \in S : x =< y
    BY <1>3
  <1> QED BY <1>4 DEF Min

\* The kinds of handlers and of pages are told apart.
LEMMA OpIs ==
    /\ Idle \notin WriteOps /\ Idle \notin TruncateOps /\ Idle.fn = "none"
    /\ \A o \in UnlinkOps : o \notin WriteOps /\ o \notin TruncateOps /\ o.fn = "unlink" /\ o.f \in Inodes
    /\ \A o \in WriteOps :
        /\ o \notin TruncateOps /\ o.fn = "write" /\ o.f \in Inodes /\ o.next \in Nat
        /\ o.last \in Sizes /\ o.next =< o.last /\ o.val \in Values /\ o.pnum \in Blocks
        /\ o.next < o.last => o.next \in Indices
    /\ \A o \in TruncateOps :
        /\ o \notin WriteOps /\ o.fn = "truncate" /\ o.f \in Inodes
        /\ o.size \in Sizes /\ o.next \in Nat /\ o.last \in Sizes
        /\ o.next < o.last => o.next \in Indices
  BY BoundAssumption, MapAssumption DEF Idle, WriteOps, TruncateOps, UnlinkOps, Indices, Sizes

LEMMA ConstantTypes ==
    /\ Null \in Blocks /\ Null \in 0 .. Reserved - 1 /\ 0 .. Reserved - 1 \subseteq Blocks
    /\ EmptyInode \in InodeType /\ EmptyTable \in TableType
    /\ DataPage(Zero) \in DataPages /\ SuperPage \notin TablePages
    /\ \A v \in Values : DataPage(v) \in DataPages
    /\ \A p \in TableType : TablePage(p) \in TablePages
    /\ \A p \in DataPages : p \notin TablePages
    /\ Files \subseteq Inodes
  BY BlockAssumption, MapAssumption, InodeAssumption, BoundAssumption
  DEF Null, Blocks, Sizes, EmptyInode, EmptyTable, InodeType, TableType, DataPage, DataPages, SuperPage,
      TablePage, TablePages, Files, Inodes

\* inode_get_block returns a block or Null.
LEMMA GetTypes ==
    ASSUME Shapes, PointersMarked, NEW f \in Inodes, NEW i \in Nat
    PROVE  inode_get_block(f, i) \in Blocks
  <1>1. CASE i < Direct
    BY <1>1, MapAssumption DEF inode_get_block, Shapes, InodeType
  <1>2. CASE ~(i < Direct) /\ i < Ptrs /\ inode[f].indirect # Null
    <2>1. i - Direct \in 0 .. Ptrs - 1
      BY <1>2, MapAssumption
    <2>2. contents[inode[f].indirect].ptr \in TableType
      BY <1>2 DEF PointersMarked, TablePages
    <2> QED BY <1>2, <2>1, <2>2 DEF inode_get_block, TableType
  <1>3. CASE ~(i < Direct) /\ ~(i < Ptrs /\ inode[f].indirect # Null)
    BY <1>3, ConstantTypes DEF inode_get_block
  <1> QED BY <1>1, <1>2, <1>3

\* A file whose pointers are left alone keeps its pages.
LEMMA GetSame ==
    ASSUME NEW f \in Inodes, NEW i \in Nat,
           inode'[f].direct = inode[f].direct, inode'[f].indirect = inode[f].indirect,
           inode[f].indirect # Null =>
                contents'[inode[f].indirect].ptr = contents[inode[f].indirect].ptr
    PROVE  inode_get_block(f, i)' = inode_get_block(f, i)
  BY DEF inode_get_block

\* Pointers that are kept or cleared stay distinct.
LEMMA OwnedShrinks ==
    ASSUME Shapes, Owned, proc = "mounted",
           \A f \in Inodes :
              /\ inode'[f].indirect \in {Null, inode[f].indirect}
              /\ \A i \in Indices : inode_get_block(f, i)' \in {Null, inode_get_block(f, i)},
           ReservedMarked', PointersMarked', PageInHand'
    PROVE  Owned'
  <1>1. PagesDistinct'
    BY DEF Owned, PagesDistinct
  <1>2. TablesDistinct'
    <2> SUFFICES ASSUME NEW f \in Inodes, NEW g \in Inodes, inode'[f].indirect # Null
                 PROVE  /\ inode'[f].indirect = inode'[g].indirect => f = g
                        /\ \A i \in Indices : inode_get_block(g, i)' # inode'[f].indirect
      BY DEF TablesDistinct
    <2> QED BY DEF Owned, TablesDistinct
  <1> QED BY <1>1, <1>2 DEF Owned

\* The page op.next of the file being written gets block b, and perhaps the
\* file an indirect block: both were free.
LEMMA OwnedGrows ==
    ASSUME Shapes, Owned, proc = "mounted", op \in WriteOps, op.next \in Indices,
           NEW b \in Blocks, b \notin bitmap, NEW T, T \cap (bitmap \cup {b}) = {},
           bitmap \cup {b} \subseteq bitmap',
           op' = [op EXCEPT !.pnum = b],
           \A f \in Inodes :
              /\ \/ inode'[f].indirect = inode[f].indirect
                 \/ f = op.f /\ inode'[f].indirect \in T \cap bitmap'
              /\ inode'[f].indirect # Null => contents'[inode'[f].indirect] \in TablePages
              /\ \A i \in Indices :
                    \/ inode_get_block(f, i)' = inode_get_block(f, i)
                    \/ f = op.f /\ i = op.next /\ inode_get_block(f, i)' = b
    PROVE  Owned'
  <1>1. /\ b \notin 0 .. Reserved - 1 /\ b # Null /\ T \cap (0 .. Reserved - 1) = {} /\ Null \notin T
        /\ ReservedMarked'
    BY ConstantTypes DEF Owned, ReservedMarked
  <1>2. \A f \in Inodes :
            /\ inode[f].indirect # b /\ inode[f].indirect \notin T
            /\ \A i \in Indices : inode_get_block(f, i) # b /\ inode_get_block(f, i) \notin T
    BY <1>1 DEF Owned, PointersMarked
  <1>3. PagesDistinct'
    <2> SUFFICES ASSUME NEW f \in Inodes, NEW g \in Inodes, NEW i \in Indices, NEW j \in Indices,
                        inode_get_block(f, i)' # Null, inode_get_block(f, i)' = inode_get_block(g, j)'
                 PROVE  f = g /\ i = j
      BY DEF PagesDistinct
    <2> QED BY <1>2 DEF Owned, PagesDistinct
  <1>4. TablesDistinct'
    <2> SUFFICES ASSUME NEW f \in Inodes, NEW g \in Inodes, inode'[f].indirect # Null
                 PROVE  /\ inode'[f].indirect = inode'[g].indirect => f = g
                        /\ \A i \in Indices : inode_get_block(g, i)' # inode'[f].indirect
      BY DEF TablesDistinct
    <2> QED BY <1>2 DEF Owned, TablesDistinct
  <1>5. PointersMarked'
    <2> SUFFICES ASSUME NEW f \in Inodes
                 PROVE  /\ \A i \in Indices : inode_get_block(f, i)' # Null =>
                              inode_get_block(f, i)' \in bitmap' \ (0 .. Reserved - 1)
                        /\ inode'[f].indirect # Null =>
                              inode'[f].indirect \in bitmap' \ (0 .. Reserved - 1)
      BY DEF PointersMarked
    <2> QED BY <1>1 DEF Owned, PointersMarked
  <1>6. PageInHand'
    <2>1. op'.pnum = b /\ op'.f = op.f /\ op'.next = op.next
      BY DEF WriteOps
    <2>2. ASSUME NEW f \in Inodes PROVE inode'[f].indirect # b
      BY <1>2
    <2>3. ASSUME NEW f \in Inodes, NEW i \in Indices, inode_get_block(f, i)' = b
          PROVE  f = op.f /\ i = op.next
      BY <1>2, <2>3
    <2> QED BY <1>1, <2>1, <2>2, <2>3 DEF PageInHand
  <1> QED BY <1>1, <1>3, <1>4, <1>5, <1>6 DEF Owned

\* Under the same hypotheses the pages written before are found as before.
LEMMA KeptGrows ==
    ASSUME Shapes, Owned, Kept, proc = "mounted", op \in WriteOps, op.next \in Indices,
           inode_get_block(op.f, op.next) = Null,
           NEW b \in Blocks, op' = [op EXCEPT !.pnum = b], UNCHANGED <<proc, shadow>>,
           ~ran_out' => ~ran_out /\ (op.next < Ptrs => inode_get_block(op.f, op.next)' = b),
           \A f \in Inodes :
              /\ inode'[f].size = inode[f].size
              /\ \A i \in Indices :
                    /\ \/ inode_get_block(f, i)' = inode_get_block(f, i)
                       \/ f = op.f /\ i = op.next
                    /\ inode_get_block(f, i) # Null =>
                          contents'[inode_get_block(f, i)] = contents[inode_get_block(f, i)]
    PROVE  Kept'
  <1> SUFFICES ASSUME ~ran_out' PROVE WrittenKept' /\ HandLinked' /\ TruncateBehind'
    BY DEF Kept
  <1>1. WrittenKept /\ op' \in WriteOps /\ op'.f = op.f /\ op'.next = op.next /\ op'.pnum = b
    <2>1. WrittenKept
      BY OpIs DEF Kept, Cutting
    <2> QED BY <2>1 DEF WriteOps
  <1>2. ASSUME NEW f \in Inodes, NEW i \in Indices, i < Ptrs, shadow'[f][i] # None
        PROVE  /\ inode_get_block(f, i)' # Null
               /\ contents'[inode_get_block(f, i)'] = DataPage(shadow'[f][i])
               /\ i < inode'[f].size \/ (op'.f = f /\ i < op'.next)
    <2>1. /\ inode_get_block(f, i) # Null
          /\ contents[inode_get_block(f, i)] = DataPage(shadow[f][i])
          /\ i < inode[f].size \/ (op.f = f /\ i < op.next)
      BY <1>1, <1>2 DEF WrittenKept
    <2>2. inode_get_block(f, i)' = inode_get_block(f, i)
      BY <2>1
    <2> QED BY <1>1, <2>1, <2>2
  <1>3. WrittenKept'
    BY <1>1, <1>2 DEF WrittenKept, DataPage
  <1>4. HandLinked' /\ TruncateBehind'
    BY <1>1, OpIs DEF HandLinked, TruncateBehind
  <1> QED BY <1>3, <1>4

-----------------------------------------------------------------------------
(***************************************************************************)
(* The steps of nbtrfs_write.                                              *)
(***************************************************************************)
\* The state in which a page is allocated.
LEMMA NeedsPageIs ==
    ASSUME RInv, NeedsPage, Free # {}
    PROVE  /\ Shapes /\ Owned /\ Kept /\ proc = "mounted" /\ PointersMarked
           /\ op \in WriteOps /\ op.f \in Inodes /\ op.next \in Indices
           /\ inode_get_block(op.f, op.next) = Null
           /\ Min(Free) \in Blocks \ bitmap
           /\ [op EXCEPT !.pnum = Min(Free)] \in WriteOps
           /\ \A f \in Inodes : inode[f].indirect # Min(Free)
           /\ \A f \in Inodes, i \in Indices : inode_get_block(f, i) # Min(Free)
  <1>1. Shapes /\ Owned /\ Kept /\ proc = "mounted" /\ PointersMarked /\ ReservedMarked
    BY DEF RInv, OInv, Owned, NeedsPage, Writing, Ready
  <1>2. op \in WriteOps /\ op.f \in Inodes /\ op.next \in Indices
    BY <1>1, OpIs DEF Shapes, NeedsPage, Writing, Ready
  <1>3. Free \in SUBSET Nat
    BY BlockAssumption DEF Free, Blocks
  <1>4. Min(Free) \in Blocks \ bitmap
    BY <1>3, MinIs DEF Free
  <1>5. [op EXCEPT !.pnum = Min(Free)] \in WriteOps
    BY <1>2, <1>4 DEF WriteOps
  <1>6. Min(Free) # Null
    BY <1>1, <1>4, ConstantTypes DEF ReservedMarked
  <1>7. /\ \A f \in Inodes : inode[f].indirect # Min(Free)
        /\ \A f \in Inodes, i \in Indices : inode_get_block(f, i) # Min(Free)
    BY <1>1, <1>4, <1>6 DEF PointersMarked
  <1> QED BY <1>1, <1>2, <1>4, <1>5, <1>7 DEF NeedsPage

LEMMA StepNewDirect == ASSUME RInv, NewDirect PROVE RInv'
  <1> DEFINE b == Min(Free)
  <1>0. NeedsPage /\ Free # {}
    BY DEF NewDirect
  <1> USE <1>0, NeedsPageIs
  <1>1. /\ b \in Blocks \ bitmap /\ op.f \in Inodes /\ op.next \in 0 .. Direct - 1
        /\ inode \in [Inodes -> InodeType] /\ op \in WriteOps /\ op.next \in Indices
    BY MapAssumption DEF Shapes, Indices, NewDirect
  <1>2. /\ bitmap' = bitmap \cup {b} /\ contents' = [contents EXCEPT ![b] = DataPage(Zero)]
        /\ op' = [op EXCEPT !.pnum = b]
        /\ inode' = [inode EXCEPT ![op.f].direct[op.next] = b]
        /\ UNCHANGED <<proc, ibitmap, shadow, ran_out>>
    BY DEF NewDirect
  <1> HIDE DEF b
  <1>3. /\ inode' \in [Inodes -> InodeType]
        /\ \A f \in Inodes : inode'[f].indirect = inode[f].indirect /\ inode'[f].size = inode[f].size
        /\ \A f \in Inodes : f # op.f => inode'[f].direct = inode[f].direct
        /\ \A i \in 0 .. Direct - 1 :
              inode'[op.f].direct[i] = IF i = op.next THEN b ELSE inode[op.f].direct[i]
    <2> DEFINE d == [inode[op.f].direct EXCEPT ![op.next] = b]
               n == [inode[op.f] EXCEPT !.direct = d]
    <2>1. /\ d \in [0 .. Direct - 1 -> Blocks]
          /\ \A i \in 0 .. Direct - 1 : d[i] = IF i = op.next THEN b ELSE inode[op.f].direct[i]
      BY <1>1 DEF InodeType
    <2>2. inode' = [inode EXCEPT ![op.f] = n]
      BY <1>1, <1>2
    <2> HIDE DEF d
    <2>3. /\ n \in InodeType /\ n.direct = d
          /\ n.size = inode[op.f].size /\ n.indirect = inode[op.f].indirect
      BY <1>1, <2>1 DEF InodeType
    <2> HIDE DEF n
    <2> QED BY <1>1, <2>1, <2>2, <2>3
  <1>4. \A c \in Blocks : c # b => contents'[c] = contents[c]
    BY <1>2 DEF Shapes
  <1>5. ASSUME NEW f \in Inodes, NEW i \in Indices
        PROVE  inode_get_block(f, i)' = IF f = op.f /\ i = op.next THEN b ELSE inode_get_block(f, i)
    <2>1. i \in Nat /\ (i < Direct => i \in 0 .. Direct - 1)
      BY MapAssumption, BoundAssumption DEF Indices
    <2>2. inode[f].indirect \in Blocks /\ inode[f].indirect # b
      BY <1>1 DEF InodeType, b
    <2>3. CASE f = op.f /\ i < Direct
      BY <1>1, <1>3, <2>1, <2>3 DEF inode_get_block
    <2>4. CASE f = op.f /\ ~(i < Direct)
      <3>1. i # op.next
        BY <1>1, <2>4, MapAssumption
      <3>2. inode_get_block(f, i)' = inode_get_block(f, i)
        BY <1>3, <1>4, <2>2, <2>4 DEF inode_get_block
      <3> QED BY <3>1, <3>2
    <2>5. CASE f # op.f
      BY <1>3, <1>4, <2>1, <2>2, <2>5, GetSame
    <2> QED BY <2>3, <2>4, <2>5
  <1>6. Shapes'
    BY <1>1, <1>2, <1>3, ConstantTypes DEF Shapes, b
  <1>7. Owned'
    <2>1. \A f \in Inodes : inode'[f].indirect # Null => contents'[inode'[f].indirect] \in TablePages
      BY <1>1, <1>3, <1>4 DEF PointersMarked, InodeType, b
    <2> DEFINE T == {}
    <2>2. T \cap (bitmap \cup {b}) = {} /\ bitmap \cup {b} \subseteq bitmap'
      BY <1>2
    <2> HIDE DEF T
    <2>3. \A f \in Inodes, i \in Indices :
            \/ inode_get_block(f, i)' = inode_get_block(f, i)
            \/ f = op.f /\ i = op.next /\ inode_get_block(f, i)' = b
      BY <1>5
    <2> QED BY <1>1, <1>2, <1>3, <2>1, <2>2, <2>3, OwnedGrows DEF b
  <1>8. Kept'
    <2>1. \A f \in Inodes, i \in Indices :
            inode_get_block(f, i) # Null =>
                contents'[inode_get_block(f, i)] = contents[inode_get_block(f, i)]
      BY <1>4 DEF PointersMarked, Shapes, b
    <2> QED BY <1>1, <1>2, <1>3, <1>5, <2>1, KeptGrows DEF b
  <1> QED BY <1>6, <1>7, <1>8 DEF RInv, OInv

LEMMA StepNewIndirect == ASSUME RInv, NewIndirect PROVE RInv'
  <1> DEFINE b == Min(Free)
             t == inode[op.f].indirect
             k == op.next - Direct
             p == [contents[t].ptr EXCEPT ![k] = b]
  <1>0. NeedsPage /\ Free # {}
    BY DEF NewIndirect
  <1> USE <1>0, NeedsPageIs
  <1>1. /\ b \in Blocks \ bitmap /\ op.f \in Inodes /\ k \in 0 .. Ptrs - 1 /\ op.next = k + Direct
        /\ inode \in [Inodes -> InodeType] /\ op \in WriteOps /\ op.next \in Indices
        /\ contents \in [Blocks -> {SuperPage} \cup DataPages \cup TablePages]
        /\ inode[op.f].indirect # Null
    BY MapAssumption DEF Shapes, Indices, NewIndirect
  <1>2. /\ bitmap' = bitmap \cup {b} /\ op' = [op EXCEPT !.pnum = b]
        /\ UNCHANGED <<proc, ibitmap, inode, shadow, ran_out>>
    BY DEF NewIndirect
  <1>3. t \in Blocks /\ t # b /\ t # Null /\ contents[t] \in TablePages
    BY <1>1 DEF InodeType, PointersMarked
  <1>4. /\ p \in TableType /\ p[k] = b /\ \A j \in 0 .. Ptrs - 1 : j # k => p[j] = contents[t].ptr[j]
    BY <1>1, <1>3 DEF TablePages, TableType
  <1>5. contents' = [[contents EXCEPT ![b] = DataPage(Zero)] EXCEPT ![t] = [contents[t] EXCEPT !.ptr = p]]
    BY <1>1, <1>3 DEF NewIndirect
  <1>6. [contents[t] EXCEPT !.ptr = p] \in TablePages /\ [contents[t] EXCEPT !.ptr = p].ptr = p
    BY <1>3, <1>4 DEF TablePages
  <1>7. /\ contents' \in [Blocks -> {SuperPage} \cup DataPages \cup TablePages]
        /\ \A c \in Blocks : c # b /\ c # t => contents'[c] = contents[c]
        /\ contents'[t] \in TablePages /\ contents'[t].ptr = p
    <2> HIDE DEF p, b, t
    <2>1. [contents EXCEPT ![b] = DataPage(Zero)] \in [Blocks -> {SuperPage} \cup DataPages \cup TablePages]
      BY <1>1, ConstantTypes
    <2> QED BY <1>1, <1>3, <1>5, <1>6, <2>1
  <1> HIDE DEF p, b
  <1>8. Shapes'
    BY <1>1, <1>2, <1>7 DEF Shapes, b
  <1>9. \A f \in Inodes : f # op.f /\ inode[f].indirect # Null => inode[f].indirect # t
    BY <1>1, <1>3 DEF Owned, TablesDistinct
  <1>10. ASSUME NEW f \in Inodes, NEW i \in Indices
         PROVE  inode_get_block(f, i)' =
                    IF f = op.f /\ i = op.next /\ i < Ptrs THEN b ELSE inode_get_block(f, i)
    <2>1. i \in Nat /\ (~(i < Direct) /\ i < Ptrs => i - Direct \in 0 .. Ptrs - 1)
      BY MapAssumption, BoundAssumption DEF Indices
    <2>2. inode[f].indirect \in Blocks /\ inode[f].indirect # b
      BY <1>1 DEF InodeType, b
    <2>3. CASE f = op.f
      <3>1. CASE i < Direct
        BY <1>1, <1>2, <2>1, <3>1, MapAssumption DEF inode_get_block
      <3>2. CASE ~(i < Direct) /\ i < Ptrs
        <4>1. inode_get_block(f, i) = contents[t].ptr[i - Direct]
              /\ inode_get_block(f, i)' = p[i - Direct]
          BY <1>2, <1>3, <1>7, <2>3, <3>2 DEF inode_get_block
        <4>2. i - Direct = k <=> i = op.next
          BY <1>1, <2>1, MapAssumption
        <4> QED BY <1>1, <1>4, <2>1, <2>3, <3>2, <4>1, <4>2
      <3>3. CASE ~(i < Direct) /\ ~(i < Ptrs)
        BY <3>3 DEF inode_get_block
      <3> QED BY <3>1, <3>2, <3>3
    <2>4. CASE f # op.f
      <3>1. inode_get_block(f, i)' = inode_get_block(f, i)
        BY <1>2, <1>7, <1>9, <2>1, <2>2, <2>4, GetSame
      <3> QED BY <2>4, <3>1
    <2> QED BY <2>3, <2>4
  <1>11. Owned'
    <2>1. \A f \in Inodes : inode'[f].indirect # Null => contents'[inode'[f].indirect] \in TablePages
      BY <1>1, <1>2, <1>7 DEF PointersMarked, InodeType, b
    <2> DEFINE T == {}
    <2>2. T \cap (bitmap \cup {b}) = {} /\ bitmap \cup {b} \subseteq bitmap'
      BY <1>2
    <2> HIDE DEF T
    <2>3. \A f \in Inodes, i \in Indices :
            \/ inode_get_block(f, i)' = inode_get_block(f, i)
            \/ f = op.f /\ i = op.next /\ inode_get_block(f, i)' = b
      BY <1>10
    <2> QED BY <1>1, <1>2, <2>1, <2>2, <2>3, OwnedGrows DEF b
  <1>12. Kept'
    <2>1. \A f \in Inodes, i \in Indices :
            inode_get_block(f, i) # Null =>
                contents'[inode_get_block(f, i)] = contents[inode_get_block(f, i)]
      <3> SUFFICES ASSUME NEW f \in Inodes, NEW i \in Indices, inode_get_block(f, i) # Null
                   PROVE  contents'[inode_get_block(f, i)] = contents[inode_get_block(f, i)]
        OBVIOUS
      <3>1. inode_get_block(f, i) \in Blocks /\ inode_get_block(f, i) # b
        BY DEF PointersMarked, Shapes, b
      <3>2. inode_get_block(f, i) # t
        BY <1>1, <1>3 DEF Owned, TablesDistinct
      <3> QED BY <1>7, <3>1, <3>2
    <2>2. /\ \A f \in Inodes, i \in Indices :
                inode_get_block(f, i)' = inode_get_block(f, i) \/ (f = op.f /\ i = op.next)
          /\ op.next < Ptrs => inode_get_block(op.f, op.next)' = b
      <3>1. op'.f = op.f /\ op'.next = op.next /\ op.f \in Inodes /\ op.next \in Indices
        BY <1>1, <1>2 DEF WriteOps
      <3>2. op.next < Ptrs => inode_get_block(op.f, op.next)' = b
        BY <1>10, <3>1
      <3> QED BY <1>10, <3>2
    <2> QED BY <1>1, <1>2, <2>1, <2>2, KeptGrows DEF b
  <1> QED BY <1>8, <1>11, <1>12 DEF RInv, OInv

\* A new indirect block and its first pointer.
LEMMA StepNewTable == ASSUME RInv, NewTable PROVE RInv'
  <1> DEFINE b == Min(Free)
             t == Min(Free \ {b})
             k == op.next - Direct
             p == [EmptyTable EXCEPT ![k] = b]
  <1>1. NeedsPage /\ Free # {}
    BY DEF NewTable
  <1> USE <1>1, NeedsPageIs
  <1>2. /\ b \in Blocks \ bitmap /\ op.f \in Inodes /\ op.next \in Direct .. Ptrs + Direct
        /\ inode \in [Inodes -> InodeType] /\ op \in WriteOps /\ op.next \in Indices
        /\ contents \in [Blocks -> {SuperPage} \cup DataPages \cup TablePages]
        /\ inode[op.f].indirect = Null
    BY DEF Shapes, NewTable
  <1>3. /\ op' = [op EXCEPT !.pnum = b] /\ UNCHANGED <<proc, ibitmap, shadow>>
        /\ ran_out' = (ran_out \/ Cardinality(Free) = 1)
    BY DEF NewTable
  <1>4. ran_out' \in BOOLEAN /\ (~ran_out' => ~ran_out /\ Cardinality(Free) # 1)
    BY <1>3 DEF Shapes
  <1>5. CASE /\ Free \ {b} # {}
             /\ op.next < Ptrs + Direct
             /\ bitmap' = bitmap \cup {b, t}
             /\ inode' = [inode EXCEPT ![op.f].indirect = t]
             /\ contents' = [contents EXCEPT ![b] = DataPage(Zero), ![t] = TablePage(p)]
    <2>1. t \in Blocks \ bitmap /\ t # b
      <3>1. Free \ {b} \in SUBSET Nat
        BY BlockAssumption DEF Free, Blocks
      <3> QED BY <1>5, <3>1, MinIs DEF Free
    <2>2. k \in 0 .. Ptrs - 1 /\ op.next = k + Direct
      BY <1>2, <1>5, MapAssumption
    <2>3. p \in TableType /\ p[k] = b /\ \A j \in 0 .. Ptrs - 1 : j # k => p[j] = Null
      BY <1>2, <2>2, ConstantTypes DEF TableType, EmptyTable
    <2>4. TablePage(p) \in TablePages /\ TablePage(p).ptr = p
      BY <2>3, ConstantTypes DEF TablePage
    <2> HIDE DEF p, t, k, b
    <2>5. /\ contents' \in [Blocks -> {SuperPage} \cup DataPages \cup TablePages]
          /\ \A c \in Blocks : c # b /\ c # t => contents'[c] = contents[c]
          /\ contents'[t] \in TablePages /\ contents'[t].ptr = p
      BY <1>2, <1>5, <2>1, <2>4, ConstantTypes
    <2>6. /\ inode' \in [Inodes -> InodeType]
          /\ \A f \in Inodes : inode'[f].direct = inode[f].direct /\ inode'[f].size = inode[f].size
          /\ \A f \in Inodes : inode'[f].indirect = IF f = op.f THEN t ELSE inode[f].indirect
      BY <1>2, <1>5, <2>1 DEF InodeType
    <2>7. Shapes'
      BY <1>2, <1>3, <1>4, <1>5, <2>1, <2>5, <2>6 DEF Shapes, b
    <2>8. \A f \in Inodes : inode[f].indirect \in Blocks /\ inode[f].indirect # b /\ inode[f].indirect # t
      <3>1. t # Null
        BY <2>1, ConstantTypes DEF Owned, ReservedMarked
      <3> QED BY <1>2, <2>1, <3>1 DEF InodeType, PointersMarked, b
    <2>9. ASSUME NEW f \in Inodes, NEW i \in Indices
          PROVE  inode_get_block(f, i)' =
                    IF f = op.f /\ i = op.next /\ i < Ptrs THEN b ELSE inode_get_block(f, i)
      <3>1. i \in Nat /\ (~(i < Direct) /\ i < Ptrs => i - Direct \in 0 .. Ptrs - 1)
        BY MapAssumption, BoundAssumption DEF Indices
      <3>2. CASE f = op.f
        <4>1. CASE i < Direct
          BY <1>2, <2>6, <3>1, <4>1, MapAssumption DEF inode_get_block
        <4>2. CASE ~(i < Direct) /\ i < Ptrs
          <5>1. inode_get_block(f, i) = Null
            BY <1>2, <3>2, <4>2 DEF inode_get_block
          <5>2. t # Null
            BY <2>8, <1>2
          <5>3. inode_get_block(f, i)' = p[i - Direct]
            BY <2>5, <2>6, <3>2, <4>2, <5>2 DEF inode_get_block
          <5>4. i - Direct = k <=> i = op.next
            BY <1>2, <2>2, <3>1, MapAssumption
          <5> QED BY <2>2, <2>3, <3>1, <3>2, <4>2, <5>1, <5>3, <5>4
        <4>3. CASE ~(i < Direct) /\ ~(i < Ptrs)
          BY <4>3 DEF inode_get_block
        <4> QED BY <4>1, <4>2, <4>3
      <3>3. CASE f # op.f
        <4>1. inode_get_block(f, i)' = inode_get_block(f, i)
          BY <2>5, <2>6, <2>8, <3>1, <3>3, GetSame
        <4> QED BY <3>3, <4>1
      <3> QED BY <3>2, <3>3
    <2>10. Owned'
      <3>1. ASSUME NEW f \in Inodes, inode'[f].indirect # Null
            PROVE  contents'[inode'[f].indirect] \in TablePages
        BY <2>5, <2>6, <2>8, <3>1 DEF PointersMarked
      <3> DEFINE T == {t}
      <3>2. T \cap (bitmap \cup {b}) = {} /\ bitmap \cup {b} \subseteq bitmap' /\ t \in T \cap bitmap'
        BY <1>5, <2>1
      <3> HIDE DEF T
      <3>3. \A f \in Inodes :
              \/ inode'[f].indirect = inode[f].indirect
              \/ f = op.f /\ inode'[f].indirect \in T \cap bitmap'
        BY <2>6, <3>2
      <3>4. \A f \in Inodes, i \in Indices :
              \/ inode_get_block(f, i)' = inode_get_block(f, i)
              \/ f = op.f /\ i = op.next /\ inode_get_block(f, i)' = b
        BY <2>9
      <3> QED BY <1>2, <1>3, <3>1, <3>2, <3>3, <3>4, OwnedGrows DEF b
    <2>11. Kept'
      <3>1. \A f \in Inodes, i \in Indices :
              inode_get_block(f, i) # Null =>
                  contents'[inode_get_block(f, i)] = contents[inode_get_block(f, i)]
        BY <2>1, <2>5 DEF PointersMarked, Shapes, b
      <3> QED BY <1>2, <1>3, <1>4, <2>6, <2>9, <3>1, KeptGrows DEF b
    <2> QED BY <2>7, <2>10, <2>11 DEF RInv, OInv
  <1>6. CASE /\ Free = {b}
             /\ bitmap' = bitmap \cup {b}
             /\ contents' = [contents EXCEPT ![b] = DataPage(Zero)]
             /\ UNCHANGED inode
    <2>1. ran_out'
      <3>1. Cardinality(Free) = 1
        BY <1>6, FS_Singleton
      <3> QED BY <1>3, <3>1
    <2> HIDE DEF b
    <2>2. Kept'
      BY <2>1 DEF Kept
    <2>3. /\ contents' \in [Blocks -> {SuperPage} \cup DataPages \cup TablePages]
          /\ \A c \in Blocks : c # b => contents'[c] = contents[c]
      BY <1>2, <1>6, ConstantTypes
    <2>4. Shapes'
      BY <1>2, <1>3, <1>4, <1>6, <2>3 DEF Shapes, b
    <2>5. \A f \in Inodes : inode[f].indirect \in Blocks /\ inode[f].indirect # b
      BY <1>2 DEF InodeType, b
    <2>6. ASSUME NEW f \in Inodes, NEW i \in Indices
          PROVE  inode_get_block(f, i)' = inode_get_block(f, i)
      <3>1. i \in Nat
        BY MapAssumption, BoundAssumption DEF Indices
      <3> QED BY <1>6, <2>3, <2>5, <3>1, GetSame
    <2>7. Owned'
      <3>1. \A f \in Inodes : inode'[f].indirect # Null => contents'[inode'[f].indirect] \in TablePages
        BY <1>6, <2>3, <2>5 DEF PointersMarked
      <3> DEFINE T == {}
      <3>2. T \cap (bitmap \cup {b}) = {} /\ bitmap \cup {b} \subseteq bitmap'
        BY <1>6
      <3> HIDE DEF T
      <3> QED BY <1>2, <1>3, <1>6, <2>6, <3>1, <3>2, OwnedGrows DEF b
    <2> QED BY <2>2, <2>4, <2>7 DEF RInv, OInv
  <1> QED BY <1>5, <1>6 DEF NewTable

-----------------------------------------------------------------------------
(***************************************************************************)
(* Steps that leave every pointer alone.                                   *)
(***************************************************************************)
LEMMA SameMap ==
    ASSUME Shapes, Owned, proc = "mounted", UNCHANGED <<bitmap, contents>>,
           \A f \in Inodes : inode'[f].direct = inode[f].direct /\ inode'[f].indirect = inode[f].indirect
    PROVE  /\ \A f \in Inodes, i \in Indices : inode_get_block(f, i)' = inode_get_block(f, i)
           /\ PageInHand' => Owned'
  <1>1. ASSUME NEW f \in Inodes, NEW i \in Indices
        PROVE  inode_get_block(f, i)' = inode_get_block(f, i)
    <2>1. i \in Nat
      BY MapAssumption, BoundAssumption DEF Indices
    <2> QED BY <2>1, GetSame
  <1>2. ASSUME PageInHand' PROVE Owned'
    <2>1. ReservedMarked'
      BY DEF Owned, ReservedMarked
    <2>2. PointersMarked'
      BY <1>1 DEF Owned, PointersMarked
    <2> QED BY <1>1, <1>2, <2>1, <2>2, OwnedShrinks
  <1> QED BY <1>1, <1>2

\* The pages expected are still there when no page expected is new and the
\* sizes and the progress of the write do not go back.
LEMMA SameKept ==
    ASSUME Shapes, Owned, Kept, proc = "mounted", ~ran_out, UNCHANGED <<bitmap, contents>>,
           ~Cutting,
           \A f \in Inodes : inode'[f].direct = inode[f].direct /\ inode'[f].indirect = inode[f].indirect,
           \A f \in Inodes, i \in Indices :
              shadow'[f][i] # None =>
                  /\ shadow'[f][i] = shadow[f][i]
                  /\ \/ i < inode[f].size
                     \/ op \in WriteOps /\ op.f = f /\ i < op.next
                     => \/ i < inode'[f].size
                        \/ op' \in WriteOps /\ op'.f = f /\ i < op'.next
    PROVE  WrittenKept'
  <1>1. \A f \in Inodes, i \in Indices : inode_get_block(f, i)' = inode_get_block(f, i)
    BY SameMap
  <1>2. ASSUME NEW f \in Inodes, NEW i \in Indices, i < Ptrs, shadow'[f][i] # None
        PROVE  /\ inode_get_block(f, i)' # Null
               /\ contents'[inode_get_block(f, i)'] = DataPage(shadow'[f][i])
               /\ i < inode'[f].size \/ (op' \in WriteOps /\ op'.f = f /\ i < op'.next)
    <2>1. shadow'[f][i] = shadow[f][i]
      BY <1>2
    <2>2. /\ inode_get_block(f, i) # Null
          /\ contents[inode_get_block(f, i)] = DataPage(shadow[f][i])
          /\ i < inode[f].size \/ (op \in WriteOps /\ op.f = f /\ i < op.next)
      BY <1>2, <2>1 DEF Kept, WrittenKept
    <2> QED BY <1>1, <1>2, <2>1, <2>2
  <1> QED BY <1>2 DEF WrittenKept, DataPage

\* A step that changes neither maps, history nor the handler.
LEMMA RQuiet ==
    ASSUME Kept, UNCHANGED <<proc, op, inode, contents, shadow, ran_out>>
    PROVE  Kept'
  <1>1. \A f, i : inode_get_block(f, i)' = inode_get_block(f, i)
    BY DEF inode_get_block
  <1>2. HandLinked => HandLinked'
    BY DEF HandLinked, inode_get_block
  <1>3. Cutting' = Cutting
    BY DEF Cutting
  <1> QED BY <1>1, <1>2, <1>3 DEF Kept, WrittenKept, TruncateBehind, DataPage

\* What RInv says of a mounted process.
LEMMA MountedIs ==
    ASSUME RInv, proc = "mounted"
    PROVE  Shapes /\ Owned /\ Kept /\ PageInHand /\ PointersMarked
  BY DEF RInv, OInv, Owned

\* A process that is no longer mounted has only its types to keep.
LEMMA Unmounted ==
    ASSUME Shapes', proc' # "mounted"
    PROVE  RInv'
  BY DEF RInv, OInv, Owned, Kept

\* A step that leaves all but the journal alone.
LEMMA StepQuiet ==
    ASSUME RInv, UNCHANGED <<proc, op, ibitmap, inode, bitmap, contents, shadow, ran_out>>
    PROVE  RInv'
  <1>1. Shapes'
    BY DEF RInv, OInv, Shapes
  <1>2. CASE proc # "mounted"
    BY <1>1, <1>2, Unmounted
  <1>3. CASE proc = "mounted"
    <2>1. Shapes /\ Owned /\ Kept /\ PageInHand
      BY <1>3, MountedIs
    <2>2. \A f \in Inodes, i \in Indices : inode_get_block(f, i)' = inode_get_block(f, i)
      BY <1>3, <2>1, SameMap
    <2>3. PageInHand'
      BY <2>1, <2>2 DEF PageInHand
    <2>4. Owned'
      BY <1>3, <2>1, <2>3, SameMap
    <2>5. Kept'
      BY <2>1, RQuiet
    <2> QED BY <1>1, <2>4, <2>5 DEF RInv, OInv
  <1> QED BY <1>2, <1>3

LEMMA StepCreate == ASSUME RInv, Create PROVE RInv'
  <1>1. Shapes /\ Owned /\ Kept /\ PageInHand /\ proc = "mounted"
    BY MountedIs DEF Create, Starts, Ready
  <1>2. UNCHANGED <<proc, op, inode, bitmap, contents, shadow, ran_out>>
    BY DEF Create, Starts, Ready
  <1>3. Shapes'
    <2> DEFINE S == (0 .. NInodeBits - 1) \ ibitmap
    <2>1. S \in SUBSET Nat /\ S # {}
      BY InodeAssumption DEF Create, Starts, Ready
    <2>2. Min(S) \in S
      BY <2>1, MinIs
    <2> QED BY <1>1, <1>2, <2>2 DEF Create, Shapes, Starts, Ready
  <1>4. \A f \in Inodes, i \in Indices : inode_get_block(f, i)' = inode_get_block(f, i)
    BY <1>1, <1>2, SameMap
  <1>5. Owned'
    <2>1. PageInHand'
      BY <1>1, <1>2, <1>4 DEF PageInHand
    <2> QED BY <1>1, <1>2, <2>1, SameMap
  <1>6. Kept'
    BY <1>1, <1>2, RQuiet
  <1> QED BY <1>3, <1>5, <1>6 DEF RInv, OInv

LEMMA StepUnlink ==
    ASSUME RInv, NEW r \in Files, Unlink(r)
    PROVE  RInv'
  <1>1. Shapes /\ Owned /\ Kept /\ proc = "mounted" /\ r \in Inodes
    BY MountedIs, ConstantTypes DEF Unlink, Starts, Ready
  <1>2. /\ op = Idle /\ UNCHANGED <<proc, ibitmap, inode, bitmap, contents, shadow, ran_out>>
        /\ op' \in UnlinkOps
    BY <1>1 DEF Unlink, Starts, UnlinkOps
  <1>3. Shapes'
    BY <1>1, <1>2 DEF Shapes
  <1>4. Owned'
    <2>1. PageInHand'
      BY <1>2, OpIs DEF PageInHand
    <2> QED BY <1>1, <1>2, <2>1, SameMap
  <1>5. Kept'
    <2>1. HandLinked' /\ TruncateBehind'
      BY <1>2, OpIs DEF HandLinked, TruncateBehind
    <2>2. ~ran_out => WrittenKept'
      BY <1>1, <1>2, OpIs, SameKept DEF Cutting
    <2> QED BY <1>2, <2>1, <2>2 DEF Kept
  <1> QED BY <1>3, <1>4, <1>5 DEF RInv, OInv

\* The file is removed: its inode is zeroed.
LEMMA StepRemove == ASSUME RInv, Remove PROVE RInv'
  <1> DEFINE r == op.f
  <1>1. Shapes /\ Owned /\ Kept /\ PointersMarked /\ proc = "mounted"
    BY MountedIs DEF Remove, Ready
  <1>2. /\ r \in Inodes /\ op \in UnlinkOps /\ op' = Idle
        /\ UNCHANGED <<proc, bitmap, contents, ran_out>>
    BY <1>1, OpIs DEF Remove, Shapes
  <1>3. \A f \in Inodes : inode'[f] = IF f = r THEN EmptyInode ELSE inode[f]
    BY <1>1, <1>2 DEF Remove, Shapes, Ready
  <1>4. \A f \in Inodes : shadow'[f] = IF f = r THEN [i \in Indices |-> None] ELSE shadow[f]
    BY <1>1, <1>2 DEF Remove, Shapes, Ready
  <1> HIDE DEF r
  <1>5. Shapes'
    <2>1. inode' \in [Inodes -> InodeType]
      BY <1>1, <1>2, ConstantTypes DEF Remove, Shapes, Ready
    <2>2. shadow' \in [Inodes -> [Indices -> Values \cup {None}]]
      BY <1>1, <1>2 DEF Remove, Shapes, Ready
    <2> QED BY <1>1, <1>2, <2>1, <2>2 DEF Remove, Shapes, Ready
  <1>6. ASSUME NEW f \in Inodes, NEW i \in Indices
        PROVE  inode_get_block(f, i)' = IF f = r THEN Null ELSE inode_get_block(f, i)
    <2>1. i \in Nat
      BY MapAssumption, BoundAssumption DEF Indices
    <2>2. CASE f = r
      BY <1>3, <2>1, <2>2, MapAssumption DEF inode_get_block, EmptyInode
    <2>3. CASE f # r
      BY <1>2, <1>3, <2>1, <2>3, GetSame
    <2> QED BY <2>2, <2>3
  <1>7. Owned'
    <2>1. \A f \in Inodes : inode'[f].indirect \in {Null, inode[f].indirect}
      BY <1>3 DEF EmptyInode
    <2>2. PointersMarked'
      BY <1>1, <1>2, <1>3, <1>6, <2>1 DEF PointersMarked
    <2>3. PageInHand' /\ ReservedMarked'
      BY <1>1, <1>2, OpIs DEF PageInHand, Owned, ReservedMarked
    <2> QED BY <1>1, <1>6, <2>1, <2>2, <2>3, OwnedShrinks
  <1>8. Kept'
    <2>1. HandLinked' /\ TruncateBehind'
      BY <1>2, OpIs DEF HandLinked, TruncateBehind
    <2>2. WrittenKept => WrittenKept'
      <3> SUFFICES ASSUME WrittenKept, NEW f \in Inodes, NEW i \in Indices, i < Ptrs, shadow'[f][i] # None
                   PROVE  /\ inode_get_block(f, i)' # Null
                          /\ contents'[inode_get_block(f, i)'] = DataPage(shadow'[f][i])
                          /\ i < inode'[f].size
        BY DEF WrittenKept, DataPage
      <3>1. f # r
        BY <1>4
      <3>2. inode'[f] = inode[f] /\ shadow'[f] = shadow[f] /\ inode_get_block(f, i)' = inode_get_block(f, i)
        BY <1>3, <1>4, <1>6, <3>1
      <3> QED BY <1>2, <3>2, OpIs DEF WrittenKept
    <2>3. ~Cutting
      BY <1>2, OpIs DEF Cutting
    <2> QED BY <1>1, <1>2, <2>1, <2>2, <2>3 DEF Kept
  <1> QED BY <1>5, <1>7, <1>8 DEF RInv, OInv

\* nbtrfs_write enters.
LEMMA StepWrite ==
    ASSUME RInv, NEW r \in Files, NEW first \in Indices, NEW n \in 1 .. MaxPages, NEW v \in Values,
           first + n - 1 =< MaxIndex, Write(r, first, first + n, v)
    PROVE  RInv'
  <1>1. Shapes /\ Owned /\ Kept /\ proc = "mounted"
    BY MountedIs DEF Write, Starts, Ready
  <1>2. /\ op = Idle /\ UNCHANGED <<proc, ibitmap, inode, bitmap, contents, shadow, ran_out>>
        /\ op' = [fn |-> "write", f |-> r, next |-> first, last |-> first + n, val |-> v, pnum |-> Null]
    BY DEF Write, Starts, Ready
  <1>3. op' \in WriteOps /\ op'.pnum = Null
    BY <1>2, BoundAssumption, MapAssumption, ConstantTypes DEF WriteOps, Indices, Sizes
  <1>4. Shapes'
    BY <1>1, <1>2, <1>3 DEF Shapes
  <1>5. Owned'
    <2>1. PageInHand'
      BY <1>3 DEF PageInHand
    <2> QED BY <1>1, <1>2, <2>1, SameMap
  <1>6. Kept'
    <2>1. HandLinked' /\ TruncateBehind'
      BY <1>3, OpIs DEF HandLinked, TruncateBehind
    <2>2. ~ran_out => WrittenKept'
      BY <1>1, <1>2, OpIs, SameKept DEF Cutting
    <2> QED BY <1>2, <2>1, <2>2 DEF Kept
  <1> QED BY <1>4, <1>5, <1>6 DEF RInv, OInv

\* The page exists: no other pointer leads to it.
LEMMA StepFindPage == ASSUME RInv, FindPage PROVE RInv'
  <1> DEFINE b == inode_get_block(op.f, op.next)
  <1>1. Shapes /\ Owned /\ Kept /\ PointersMarked /\ proc = "mounted"
    BY MountedIs DEF FindPage, Writing, Ready
  <1>2. /\ op' = [op EXCEPT !.pnum = b] /\ b # Null
        /\ UNCHANGED <<proc, ibitmap, inode, bitmap, contents, shadow, ran_out>>
    BY DEF FindPage
  <1>3. op \in WriteOps /\ op.f \in Inodes /\ op.next \in Indices /\ op.next \in Nat
    BY <1>1, OpIs DEF Shapes, FindPage, Writing, Ready
  <1>4. b \in Blocks
    BY <1>1, <1>3, GetTypes
  <1>5. op' \in WriteOps /\ op'.pnum = b /\ op'.f = op.f /\ op'.next = op.next
    <2> HIDE DEF b
    <2> QED BY <1>2, <1>3, <1>4 DEF WriteOps
  <1>6. Shapes'
    BY <1>1, <1>2, <1>5 DEF Shapes
  <1>7. \A f \in Inodes, i \in Indices : inode_get_block(f, i)' = inode_get_block(f, i)
    BY <1>1, <1>2, SameMap
  <1>8. Owned'
    <2>1. b \in bitmap \ (0 .. Reserved - 1)
      BY <1>1, <1>2, <1>3 DEF PointersMarked
    <2>2. ASSUME NEW f \in Inodes PROVE inode[f].indirect # b
      BY <1>1, <1>2, <1>3 DEF Owned, TablesDistinct
    <2>3. ASSUME NEW f \in Inodes, NEW i \in Indices, inode_get_block(f, i) = b
          PROVE  f = op.f /\ i = op.next
      BY <1>1, <1>2, <1>3, <2>3 DEF Owned, PagesDistinct
    <2> HIDE DEF b
    <2>4. PageInHand'
      BY <1>2, <1>5, <1>7, <2>1, <2>2, <2>3 DEF PageInHand
    <2> QED BY <1>1, <1>2, <2>4, SameMap
  <1>9. Kept'
    <2>1. HandLinked'
      <3>1. inode_get_block(op.f, op.next)' = b
        BY <1>2, <1>5 DEF inode_get_block
      <3> QED BY <1>5, <3>1 DEF HandLinked
    <2>2. TruncateBehind'
      BY <1>5, OpIs DEF TruncateBehind
    <2>3. ~ran_out => WrittenKept'
      <3> HIDE DEF b
      <3>1. ~Cutting
        BY <1>3, OpIs DEF Cutting
      <3> QED BY <1>1, <1>2, <1>3, <1>5, <3>1, SameKept
    <2> QED BY <1>2, <2>1, <2>2, <2>3 DEF Kept
  <1> QED BY <1>6, <1>8, <1>9 DEF RInv, OInv

LEMMA StepPageOverflow == ASSUME RInv, PageOverflow PROVE RInv'
  <1>1. Free # {}
    BY FS_EmptySet DEF PageOverflow
  <1>2. Shapes /\ Min(Free) \in Blocks
    BY <1>1, NeedsPageIs DEF PageOverflow
  <1>3. Shapes'
    BY <1>2 DEF PageOverflow, Shapes
  <1> QED BY <1>3, Unmounted DEF PageOverflow

LEMMA StepNoSpace == ASSUME RInv, NoSpace PROVE RInv'
  <1>1. Shapes /\ Owned /\ Kept /\ PointersMarked /\ proc = "mounted"
    BY MountedIs DEF NoSpace, NeedsPage, Writing, Ready
  <1>2. op' = Idle /\ ran_out' = TRUE /\ UNCHANGED <<proc, ibitmap, inode, bitmap, contents, shadow>>
    BY DEF NoSpace
  <1>3. Shapes'
    BY <1>1, <1>2 DEF Shapes
  <1>4. Owned'
    <2>1. PageInHand'
      BY <1>2, OpIs DEF PageInHand
    <2> QED BY <1>1, <1>2, <2>1, SameMap
  <1>5. Kept'
    BY <1>2 DEF Kept
  <1> QED BY <1>3, <1>4, <1>5 DEF RInv, OInv

\* The data goes into the page in hand, which no other pointer leads to.
LEMMA StepStorePage == ASSUME RInv, StorePage PROVE RInv'
  <1> DEFINE b == op.pnum
  <1>1. Shapes /\ Owned /\ Kept /\ PageInHand /\ PointersMarked /\ proc = "mounted"
    BY MountedIs DEF StorePage, Writing, Ready
  <1>2. /\ op \in WriteOps /\ op.f \in Inodes /\ op.next \in Indices /\ op.next \in Nat
        /\ op.next < op.last /\ b \in Blocks /\ b # Null /\ op.val \in Values
    BY <1>1, OpIs DEF Shapes, StorePage, Writing, Ready
  <1>3. /\ contents' = [contents EXCEPT ![b] = DataPage(op.val)]
        /\ shadow' = [shadow EXCEPT ![op.f][op.next] = op.val]
        /\ op' = [op EXCEPT !.next = @ + 1, !.pnum = Null]
        /\ UNCHANGED <<proc, ibitmap, inode, bitmap, ran_out>>
    BY DEF StorePage
  <1>4. op' \in WriteOps /\ op'.pnum = Null /\ op'.f = op.f /\ op'.next = op.next + 1
    <2>1. op.last \in Nat /\ op.next + 1 =< op.last /\ Null \in Blocks
      BY <1>2, BoundAssumption, MapAssumption, OpIs, ConstantTypes DEF Sizes
    <2>2. op' = [[op EXCEPT !.next = op.next + 1] EXCEPT !.pnum = Null]
      BY <1>2, <1>3 DEF WriteOps
    <2>3. [op EXCEPT !.next = op.next + 1] \in WriteOps
      BY <1>2, <2>1 DEF WriteOps
    <2> QED BY <2>1, <2>2, <2>3 DEF WriteOps
  <1>5. /\ contents' \in [Blocks -> {SuperPage} \cup DataPages \cup TablePages]
        /\ \A c \in Blocks : contents'[c] = IF c = b THEN DataPage(op.val) ELSE contents[c]
    BY <1>1, <1>2, <1>3, ConstantTypes DEF Shapes
  <1>6. /\ shadow' \in [Inodes -> [Indices -> Values \cup {None}]]
        /\ \A f \in Inodes, i \in Indices :
              shadow'[f][i] = IF f = op.f /\ i = op.next THEN op.val ELSE shadow[f][i]
    BY <1>1, <1>2, <1>3 DEF Shapes
  <1>7. Shapes'
    BY <1>1, <1>3, <1>4, <1>5, <1>6 DEF Shapes
  <1>8. \A f \in Inodes : inode[f].indirect \in Blocks /\ inode[f].indirect # b
    BY <1>1, <1>2 DEF PageInHand, Shapes, InodeType
  <1>9. ASSUME NEW f \in Inodes, NEW i \in Indices
        PROVE  inode_get_block(f, i)' = inode_get_block(f, i)
    <2>1. i \in Nat
      BY MapAssumption, BoundAssumption DEF Indices
    <2> QED BY <1>3, <1>5, <1>8, <2>1, GetSame
  <1>10. Owned'
    <2>1. PageInHand' /\ ReservedMarked'
      BY <1>1, <1>3, <1>4 DEF PageInHand, Owned, ReservedMarked
    <2>2. PointersMarked'
      BY <1>1, <1>3, <1>5, <1>8, <1>9 DEF PointersMarked
    <2> QED BY <1>1, <1>3, <1>9, <2>1, <2>2, OwnedShrinks
  <1>11. Kept'
    <2> SUFFICES ASSUME ~ran_out PROVE WrittenKept' /\ HandLinked' /\ TruncateBehind'
      BY <1>3 DEF Kept
    <2>1. HandLinked' /\ TruncateBehind'
      BY <1>4, OpIs DEF HandLinked, TruncateBehind
    <2>2. ASSUME NEW f \in Inodes, NEW i \in Indices, i < Ptrs, shadow'[f][i] # None
          PROVE  /\ inode_get_block(f, i)' # Null
                 /\ contents'[inode_get_block(f, i)'] = DataPage(shadow'[f][i])
                 /\ i < inode'[f].size \/ (op'.f = f /\ i < op'.next)
      <3>1. CASE f = op.f /\ i = op.next
        <4>1. inode_get_block(f, i) = b
          BY <1>1, <1>2, <2>2, <3>1, OpIs DEF Kept, HandLinked, Cutting
        <4> QED BY <1>2, <1>4, <1>5, <1>6, <1>9, <3>1, <4>1
      <3>2. CASE ~(f = op.f /\ i = op.next)
        <4>1. shadow'[f][i] = shadow[f][i]
          BY <1>6, <3>2
        <4>2. /\ inode_get_block(f, i) # Null
              /\ contents[inode_get_block(f, i)] = DataPage(shadow[f][i])
              /\ i < inode[f].size \/ (op.f = f /\ i < op.next)
          BY <1>1, <1>2, <2>2, <4>1, OpIs DEF Kept, WrittenKept, Cutting
        <4>3. inode_get_block(f, i) \in Blocks
          BY <1>1, <4>2 DEF PointersMarked, Shapes
        <4>4. inode_get_block(f, i) # b
          BY <1>1, <1>2, <3>2 DEF PageInHand
        <4>5. i < inode'[f].size \/ (op'.f = f /\ i < op'.next)
          BY <1>2, <1>3, <1>4, <4>2 DEF Indices
        <4> QED BY <1>5, <1>9, <4>1, <4>2, <4>3, <4>4, <4>5
      <3> QED BY <3>1, <3>2
    <2>3. WrittenKept'
      BY <1>4, <2>2 DEF WrittenKept, DataPage
    <2> QED BY <2>1, <2>3
  <1> QED BY <1>7, <1>10, <1>11 DEF RInv, OInv

\* nbtrfs_write returns: the size covers the pages written.
LEMMA StepWriteDone == ASSUME RInv, WriteDone PROVE RInv'
  <1>1. Shapes /\ op \in WriteOps /\ op.f \in Inodes /\ op.next = op.last /\ op.last \in Sizes
    BY OpIs DEF RInv, OInv, Shapes, WriteDone
  <1> DEFINE s == IF op.last > inode[op.f].size THEN op.last ELSE inode[op.f].size
  <1>2. /\ inode' = [inode EXCEPT ![op.f].size = s] /\ op' = Idle
        /\ UNCHANGED <<proc, ibitmap, bitmap, contents, shadow, ran_out>>
    BY <1>1 DEF WriteDone, Shapes
  <1>3. s \in Sizes /\ inode[op.f].size =< s /\ op.last =< s
    BY <1>1, BoundAssumption, MapAssumption DEF Shapes, InodeType, Sizes
  <1> HIDE DEF s
  <1>4. /\ inode' \in [Inodes -> InodeType]
        /\ \A f \in Inodes : inode'[f].direct = inode[f].direct /\ inode'[f].indirect = inode[f].indirect
        /\ \A f \in Inodes : inode'[f].size = IF f = op.f THEN s ELSE inode[f].size
    BY <1>1, <1>2, <1>3 DEF Shapes, InodeType
  <1>5. Shapes'
    BY <1>1, <1>2, <1>4 DEF Shapes
  <1>6. CASE proc = "mounted"
    <2>1. Owned /\ Kept
      BY <1>6, MountedIs
    <2>2. Owned'
      <3>1. PageInHand'
        BY <1>2, OpIs DEF PageInHand
      <3> QED BY <1>1, <1>2, <1>4, <1>6, <2>1, <3>1, SameMap
    <2>3. Kept'
      <3>1. HandLinked' /\ TruncateBehind'
        BY <1>2, OpIs DEF HandLinked, TruncateBehind
      <3>2. ASSUME ~ran_out PROVE WrittenKept'
        <4>1. ASSUME NEW f \in Inodes, NEW i \in Indices,
                     i < inode[f].size \/ (op \in WriteOps /\ op.f = f /\ i < op.next)
              PROVE  i < inode'[f].size
          BY <1>1, <1>3, <1>4, <4>1, BoundAssumption, MapAssumption DEF Shapes, InodeType, Sizes, Indices
        <4>2. ~Cutting
          BY <1>1, OpIs DEF Cutting
        <4> QED BY <1>1, <1>2, <1>4, <1>6, <2>1, <3>2, <4>1, <4>2, SameKept
      <3> QED BY <1>2, <3>1, <3>2 DEF Kept
    <2> QED BY <1>5, <2>2, <2>3 DEF RInv, OInv
  <1>7. CASE proc # "mounted"
    BY <1>2, <1>5, <1>7, Unmounted
  <1> QED BY <1>6, <1>7

-----------------------------------------------------------------------------
(***************************************************************************)
(* The steps of _truncate.                                                 *)
(***************************************************************************)
LEMMA StepTruncate ==
    ASSUME RInv, NEW r \in Files, NEW n \in 0 .. MaxIndex + 1, Truncate(r, n)
    PROVE  RInv'
  <1>1. Shapes /\ Owned /\ Kept /\ proc = "mounted" /\ r \in Inodes
    BY MountedIs, ConstantTypes DEF Truncate, Starts, Ready
  <1>2. /\ op = Idle /\ UNCHANGED <<proc, ibitmap, inode, bitmap, contents, ran_out>>
        /\ op' = [fn |-> "truncate", f |-> r, size |-> n, next |-> n, last |-> inode[r].size,
                  redo |-> FALSE]
    BY DEF Truncate, Starts, Ready
  <1>3. /\ op' \in TruncateOps /\ op'.f = r /\ op'.size = n /\ op'.next = n
    BY <1>1, <1>2, BoundAssumption, MapAssumption DEF TruncateOps, Sizes, Shapes, InodeType
  <1>4. /\ shadow' \in [Inodes -> [Indices -> Values \cup {None}]]
        /\ \A f \in Inodes, i \in Indices :
              shadow'[f][i] = IF f = r /\ ~(i < n) THEN None ELSE shadow[f][i]
    <2> DEFINE row == [i \in Indices |-> IF i < n THEN shadow[r][i] ELSE None]
    <2>1. shadow' = [shadow EXCEPT ![r] = row]
      BY <1>1 DEF Truncate, Shapes, Starts, Ready
    <2>2. row \in [Indices -> Values \cup {None}] /\ \A i \in Indices : row[i] = IF ~(i < n) THEN None ELSE shadow[r][i]
      BY <1>1 DEF Shapes
    <2> HIDE DEF row
    <2> QED BY <1>1, <2>1, <2>2 DEF Shapes
  <1>5. Shapes'
    BY <1>1, <1>2, <1>3, <1>4 DEF Shapes
  <1>6. Owned'
    <2>1. PageInHand'
      BY <1>3, OpIs DEF PageInHand
    <2> QED BY <1>1, <1>2, <2>1, SameMap
  <1>7. Kept'
    <2>1. HandLinked' /\ TruncateBehind'
      BY <1>1, <1>3, <1>4, OpIs DEF HandLinked, TruncateBehind, Sizes
    <2>2. ASSUME ~ran_out PROVE WrittenKept'
      <3>1. \A f \in Inodes, i \in Indices : shadow'[f][i] # None => shadow'[f][i] = shadow[f][i]
        BY <1>4
      <3> QED BY <1>1, <1>2, <2>2, <3>1, OpIs, SameKept DEF Cutting
    <2> QED BY <1>2, <2>1, <2>2 DEF Kept
  <1> QED BY <1>5, <1>6, <1>7 DEF RInv, OInv

\* The state in which _truncate meets block p.
LEMMA TruncatingIs ==
    ASSUME RInv, NEW p, Truncating(p)
    PROVE  /\ Shapes /\ Owned /\ Kept /\ PointersMarked /\ proc = "mounted"
           /\ op \in TruncateOps /\ op.f \in Inodes /\ op.next \in Indices /\ op.next \in Nat
           /\ inode_get_block(op.f, op.next) = p
           /\ \A o : o = [op EXCEPT !.next = @ + 1] =>
                /\ o \in TruncateOps /\ o.f = op.f /\ o.size = op.size /\ o.next = op.next + 1
                /\ o.redo = op.redo
  <1>1. Shapes /\ Owned /\ Kept /\ PointersMarked /\ proc = "mounted"
    BY MountedIs DEF Truncating, Ready
  <1>2. op \in TruncateOps /\ op.f \in Inodes /\ op.next \in Indices /\ op.next \in Nat
    BY <1>1, OpIs DEF Shapes, Truncating, Ready
  <1> QED BY <1>1, <1>2 DEF Truncating, TruncateOps, Ready

\* A step of the loop of _truncate that leaves the history alone.
LEMMA NextBehind ==
    ASSUME op \in TruncateOps, op' \in TruncateOps, TruncateBehind, UNCHANGED shadow,
           op'.f = op.f, op'.size = op.size, op'.next = op.next + 1
    PROVE  TruncateBehind'
  BY BoundAssumption, MapAssumption, OpIs DEF TruncateBehind, Sizes

LEMMA StepTruncHole == ASSUME RInv, TruncHole PROVE RInv'
  <1>1. Truncating(Null) /\ op' = [op EXCEPT !.next = @ + 1]
    BY DEF TruncHole
  <1>2. UNCHANGED <<proc, ibitmap, inode, bitmap, contents, shadow, ran_out>>
    BY DEF TruncHole
  <1>3. Shapes /\ Owned /\ Kept /\ proc = "mounted" /\ op \in TruncateOps
    BY <1>1, TruncatingIs
  <1>4. op' \in TruncateOps /\ op'.f = op.f /\ op'.size = op.size /\ op'.next = op.next + 1
        /\ op'.redo = op.redo
    BY <1>1, TruncatingIs
  <1>5. Shapes'
    BY <1>2, <1>3, <1>4 DEF Shapes
  <1>6. Owned'
    <2>1. PageInHand'
      BY <1>4, OpIs DEF PageInHand
    <2> QED BY <1>2, <1>3, <2>1, SameMap
  <1>7. Kept'
    <2>1. HandLinked'
      BY <1>4, OpIs DEF HandLinked
    <2>2. ASSUME ~ran_out, ~Cutting PROVE TruncateBehind' /\ WrittenKept'
      <3>1. TruncateBehind'
        BY <1>2, <1>3, <1>4, <2>2, NextBehind DEF Kept
      <3>2. WrittenKept'
        BY <1>2, <1>3, <1>4, <2>2, OpIs, SameKept
      <3> QED BY <3>1, <3>2
    <2> QED BY <1>2, <1>3, <1>4, <2>1, <2>2 DEF Kept, Cutting
  <1> QED BY <1>5, <1>6, <1>7 DEF RInv, OInv

\* A page with a direct pointer is freed.
LEMMA StepTruncDirect ==
    ASSUME RInv, NEW p \in Blocks, TruncDirect(p)
    PROVE  RInv'
  <1>1. /\ p # Null /\ Truncating(p) /\ op' = [op EXCEPT !.next = @ + 1] /\ bitmap' = bitmap \ {p}
        /\ inode' = [inode EXCEPT ![op.f].direct[op.next] = Null]
        /\ UNCHANGED <<proc, ibitmap, contents, shadow, ran_out>>
    BY DEF TruncDirect
  <1>2. /\ Shapes /\ Owned /\ Kept /\ PointersMarked /\ proc = "mounted"
        /\ op \in TruncateOps /\ op.f \in Inodes /\ op.next \in Indices /\ op.next \in 0 .. Direct - 1
        /\ inode_get_block(op.f, op.next) = p
    BY <1>1, TruncatingIs, MapAssumption DEF TruncDirect
  <1>3. op' \in TruncateOps /\ op'.f = op.f /\ op'.size = op.size /\ op'.next = op.next + 1
        /\ op'.redo = op.redo
    BY <1>1, TruncatingIs
  <1>4. /\ inode' \in [Inodes -> InodeType]
        /\ \A f \in Inodes : inode'[f].indirect = inode[f].indirect /\ inode'[f].size = inode[f].size
        /\ \A f \in Inodes : f # op.f => inode'[f].direct = inode[f].direct
        /\ \A i \in 0 .. Direct - 1 :
              inode'[op.f].direct[i] = IF i = op.next THEN Null ELSE inode[op.f].direct[i]
    <2> DEFINE d == [inode[op.f].direct EXCEPT ![op.next] = Null]
               r == [inode[op.f] EXCEPT !.direct = d]
    <2>1. inode \in [Inodes -> InodeType]
      BY <1>2 DEF Shapes
    <2>2. d \in [0 .. Direct - 1 -> Blocks]
          /\ \A i \in 0 .. Direct - 1 : d[i] = IF i = op.next THEN Null ELSE inode[op.f].direct[i]
      BY <1>2, <2>1, ConstantTypes DEF InodeType
    <2> HIDE DEF d
    <2>3. r \in InodeType /\ r.direct = d /\ r.indirect = inode[op.f].indirect /\ r.size = inode[op.f].size
      BY <1>2, <2>1, <2>2 DEF InodeType
    <2>4. inode' = [inode EXCEPT ![op.f] = r]
      BY <1>1, <1>2, <2>1 DEF d
    <2> HIDE DEF r
    <2> QED BY <1>2, <2>1, <2>2, <2>3, <2>4
  <1>5. Shapes'
    BY <1>1, <1>2, <1>3, <1>4 DEF Shapes
  <1>6. ASSUME NEW f \in Inodes, NEW i \in Indices
        PROVE  inode_get_block(f, i)' = IF f = op.f /\ i = op.next THEN Null ELSE inode_get_block(f, i)
    <2>1. i \in Nat
      BY MapAssumption, BoundAssumption DEF Indices
    <2>2. CASE f = op.f /\ i < Direct
      <3>1. i \in 0 .. Direct - 1
        BY <2>1, <2>2, MapAssumption
      <3>2. inode_get_block(f, i) = inode[f].direct[i] /\ inode_get_block(f, i)' = inode'[f].direct[i]
        BY <2>2 DEF inode_get_block
      <3> QED BY <1>4, <2>2, <3>1, <3>2
    <2>3. CASE f = op.f /\ ~(i < Direct)
      <3>1. i # op.next
        BY <1>2, <2>3, MapAssumption
      <3>2. inode_get_block(f, i)' = inode_get_block(f, i)
        BY <1>1, <1>4, <2>3 DEF inode_get_block
      <3> QED BY <3>1, <3>2
    <2>4. CASE f # op.f
      BY <1>1, <1>4, <2>1, <2>4, GetSame
    <2> QED BY <2>2, <2>3, <2>4
  <1>7. \A f \in Inodes :
            /\ inode[f].indirect # p
            /\ \A i \in Indices : inode_get_block(f, i) = p => f = op.f /\ i = op.next
    BY <1>1, <1>2 DEF Owned, PagesDistinct, TablesDistinct
  <1>8. p \notin 0 .. Reserved - 1
    BY <1>1, <1>2 DEF PointersMarked
  <1>9. Owned'
    <2>1. ReservedMarked' /\ PageInHand'
      BY <1>1, <1>2, <1>3, <1>8, OpIs DEF Owned, ReservedMarked, PageInHand
    <2>2. PointersMarked'
      BY <1>1, <1>2, <1>4, <1>6, <1>7 DEF PointersMarked
    <2> QED BY <1>2, <1>4, <1>6, <2>1, <2>2, OwnedShrinks
  <1>10. Kept'
    <2>1. HandLinked'
      BY <1>3, OpIs DEF HandLinked
    <2>2. ASSUME ~ran_out, ~Cutting PROVE TruncateBehind' /\ WrittenKept'
      <3>1. TruncateBehind'
        BY <1>1, <1>2, <1>3, <2>2, NextBehind DEF Kept
      <3>2. ASSUME NEW f \in Inodes, NEW i \in Indices, i < Ptrs, shadow'[f][i] # None
            PROVE  /\ inode_get_block(f, i)' # Null
                   /\ contents'[inode_get_block(f, i)'] = DataPage(shadow'[f][i])
                   /\ i < inode'[f].size
        <4>1. ~(f = op.f /\ i = op.next)
          BY <1>1, <1>2, <2>2, <3>2, OpIs DEF Kept, TruncateBehind, Sizes
        <4>2. /\ inode_get_block(f, i) # Null
              /\ contents[inode_get_block(f, i)] = DataPage(shadow[f][i])
              /\ i < inode[f].size
          BY <1>1, <1>2, <2>2, <3>2, OpIs DEF Kept, WrittenKept
        <4> QED BY <1>1, <1>4, <1>6, <4>1, <4>2
      <3>3. WrittenKept'
        BY <3>2 DEF WrittenKept, DataPage
      <3> QED BY <3>1, <3>3
    <2> QED BY <1>1, <1>2, <1>3, <2>1, <2>2 DEF Kept, Cutting
  <1> QED BY <1>5, <1>9, <1>10 DEF RInv, OInv

\* A page with an indirect pointer: the superblock is lost.
LEMMA StepTruncIndirect ==
    ASSUME RInv, NEW p \in Blocks, TruncIndirect(p)
    PROVE  RInv'
  <1> DEFINE t == inode[op.f].indirect
             k == op.next - Direct
             q == [contents[t] EXCEPT !.ptr = [contents[t].ptr EXCEPT ![k] = Null]]
  <1>1. /\ p # Null /\ Truncating(p) /\ ~(op.next < Direct)
        /\ UNCHANGED <<op, ibitmap, inode, shadow, ran_out>> /\ proc' = "superblock_lost"
    <2>1. Truncating(p) /\ op.next >= Direct
      BY DEF TruncIndirect
    <2>2. op.next \in Nat
      BY <2>1, TruncatingIs
    <2> QED BY <2>1, <2>2, MapAssumption DEF TruncIndirect
  <1>2. /\ Shapes /\ PointersMarked /\ op.f \in Inodes /\ op.next \in Nat
        /\ inode_get_block(op.f, op.next) = p
        /\ contents \in [Blocks -> {SuperPage} \cup DataPages \cup TablePages]
    BY <1>1, TruncatingIs DEF Shapes
  <1>3. t # Null /\ op.next < Ptrs /\ t \in Blocks
    BY <1>1, <1>2 DEF inode_get_block, Shapes, InodeType
  <1>4. k \in 0 .. Ptrs - 1 /\ contents[t] \in TablePages
    BY <1>1, <1>2, <1>3, MapAssumption DEF PointersMarked
  <1>5. q \in TablePages
    <2>1. [contents[t].ptr EXCEPT ![k] = Null] \in TableType
      BY <1>4, ConstantTypes DEF TablePages, TableType
    <2> QED BY <1>4, <2>1 DEF TablePages
  <1>6. contents' = [[contents EXCEPT ![t] = q] EXCEPT ![0] = DataPage(Zero)]
    BY <1>2, <1>3, <1>4 DEF TruncIndirect
  <1> HIDE DEF q
  <1>7. contents' \in [Blocks -> {SuperPage} \cup DataPages \cup TablePages]
    BY <1>2, <1>3, <1>5, <1>6, ConstantTypes
  <1>8. bitmap' \subseteq Blocks
    BY <1>2 DEF TruncIndirect, Shapes
  <1>9. Shapes'
    BY <1>1, <1>2, <1>7, <1>8 DEF Shapes
  <1> QED BY <1>1, <1>9, Unmounted

\* _truncate returns: every page expected is below the new size.
LEMMA StepTruncDone == ASSUME RInv, TruncDone PROVE RInv'
  <1>1. Shapes /\ Owned /\ Kept /\ PointersMarked /\ proc = "mounted"
    BY MountedIs DEF TruncDone, Ready
  <1>2. op \in TruncateOps /\ op.f \in Inodes /\ op.size \in Sizes
    BY <1>1, OpIs DEF Shapes, TruncDone, Ready
  <1>3. /\ inode' = [inode EXCEPT ![op.f].size = op.size] /\ op' = Idle
        /\ UNCHANGED <<ibitmap, bitmap, contents, shadow, ran_out>>
        /\ proc' = IF op.redo THEN "overtaken" ELSE "mounted"
    BY DEF TruncDone, Ready
  <1>4. /\ inode' \in [Inodes -> InodeType]
        /\ \A f \in Inodes : inode'[f].direct = inode[f].direct /\ inode'[f].indirect = inode[f].indirect
        /\ \A f \in Inodes : inode'[f].size = IF f = op.f THEN op.size ELSE inode[f].size
    BY <1>1, <1>2, <1>3 DEF Shapes, InodeType
  <1>5. Shapes'
    BY <1>1, <1>3, <1>4 DEF Shapes
  <1>6. Owned'
    <2>1. PageInHand'
      BY <1>3, OpIs DEF PageInHand
    <2> QED BY <1>1, <1>3, <1>4, <2>1, SameMap
  <1>7. Kept'
    <2>1. HandLinked' /\ TruncateBehind'
      BY <1>3, OpIs DEF HandLinked, TruncateBehind
    <2>2. ASSUME ~ran_out, ~Cutting PROVE WrittenKept'
      <3>1. ASSUME NEW f \in Inodes, NEW i \in Indices, shadow'[f][i] # None
            PROVE  /\ shadow'[f][i] = shadow[f][i]
                   /\ \/ i < inode[f].size
                      \/ op \in WriteOps /\ op.f = f /\ i < op.next
                      => \/ i < inode'[f].size
                         \/ op' \in WriteOps /\ op'.f = f /\ i < op'.next
        BY <1>1, <1>2, <1>3, <1>4, <2>2, <3>1, OpIs DEF Kept, TruncateBehind
      <3> QED BY <1>1, <1>3, <1>4, <2>2, <3>1, SameKept
    <2> QED BY <1>2, <1>3, <2>1, <2>2 DEF Kept, Cutting
  <1> QED BY <1>5, <1>6, <1>7 DEF RInv, OInv

-----------------------------------------------------------------------------
(***************************************************************************)
(* Entries executed again.                                                 *)
(***************************************************************************)
\* The entry at the head of the ring.
LEMMA SlotIs ==
    ASSUME LogShape
    PROVE  Slot \in Slots /\ log[Slot] \in Entries
  <1>1. Slot \in Slots
    BY RingAssumption DEF Slot, Slots, LogShape
  <1> QED BY <1>1 DEF LogShape

\* A WRITE entry is executed again.  Whatever the file has become, the types are
\* kept; an entry that was not overtaken writes the pointer that is there.
LEMMA StepRedoWrite ==
    ASSUME FInv, RedoWrite
    PROVE  RInv' /\ (proc' = "mounted" => UNCHANGED <<inode, contents>>)
  <1> DEFINE e == log[Slot]
             g == IF e.f \in Files THEN e.f ELSE 0
             node == inode[e.f]
             t == Min(Free)
             k == e.index - Direct
             d == [node.direct EXCEPT ![e.index] = e.block]
             InForce == placed[e.f][e.index] = e.block
  <1>1. Shapes /\ Owned /\ PointersMarked /\ proc = "mounted" /\ RInv
    BY MountedIs DEF RedoWrite, Redoing, Logging, FInv
  <1>2. e \in WriteEntries
    <2>1. e \in Entries /\ e.type = "WRITE"
      BY SlotIs DEF RedoWrite, Redoing, FInv
    <2> QED BY <2>1 DEF Entries, SyncedEntry, OtherEntry, TruncateEntries
  <1>3. /\ e.f \in Inodes /\ e.index \in Indices /\ e.index \in Nat /\ e.block \in Blocks /\ e.block # Null
        /\ g \in Inodes /\ node \in InodeType
        /\ inode \in [Inodes -> InodeType]
        /\ contents \in [Blocks -> {SuperPage} \cup DataPages \cup TablePages]
    BY <1>1, <1>2, ConstantTypes, InodeAssumption, BoundAssumption, MapAssumption
    DEF WriteEntries, Shapes, Indices, Inodes
  <1>4. /\ UNCHANGED <<op, ibitmap, shadow, ran_out>>
        /\ proc' = IF InForce THEN "mounted" ELSE "overtaken"
    BY DEF RedoWrite
  <1>5. InForce =>
            /\ g = e.f
            /\ e.index < Direct => e.block = node.direct[e.index]
            /\ ~(e.index < Direct) =>
                  /\ e.index < Ptrs + Direct /\ node.indirect # Null
                  /\ e.block = contents[node.indirect].ptr[k]
    BY <1>1, <1>3, MapAssumption DEF FInv, PInv, Linked, PointerAt
  <1>6. \/ /\ e.index < Direct
           /\ inode' = [inode EXCEPT ![g] = [node EXCEPT !.direct[e.index] = e.block]]
           /\ UNCHANGED <<bitmap, contents>>
        \/ /\ e.index \in Direct .. Ptrs + Direct - 1
           /\ node.indirect # Null
           /\ contents' = [contents EXCEPT ![node.indirect].ptr[k] = e.block]
           /\ UNCHANGED <<inode, bitmap>>
        \/ /\ e.index \in Direct .. Ptrs + Direct - 1
           /\ node.indirect = Null
           /\ Free # {}
           /\ bitmap' = bitmap \cup {t}
           /\ inode' = [inode EXCEPT ![g] = [node EXCEPT !.indirect = t]]
           /\ contents' = [contents EXCEPT ![t] = TablePage([EmptyTable EXCEPT ![k] = e.block])]
        \/ /\ e.index >= Direct
           /\ (node.indirect = Null /\ Free = {}) \/ e.index = Ptrs + Direct
           /\ inode' = [inode EXCEPT ![g] = node]
           /\ UNCHANGED <<bitmap, contents>>
    BY DEF RedoWrite, inode_set_block
  <1> HIDE DEF e, g, node, t, k, InForce
  <1>7. ASSUME inode' \in [Inodes -> InodeType], bitmap' \subseteq Blocks,
               contents' \in [Blocks -> {SuperPage} \cup DataPages \cup TablePages],
               InForce => UNCHANGED <<inode, bitmap, contents>>
        PROVE  RInv' /\ (proc' = "mounted" => UNCHANGED <<inode, contents>>)
    <2>1. CASE InForce
      BY <1>1, <1>4, <1>7, <2>1, StepQuiet
    <2>2. CASE ~InForce
      <3>1. Shapes'
        BY <1>1, <1>4, <1>7, <2>2 DEF Shapes
      <3> QED BY <1>4, <2>2, <3>1, Unmounted
    <2> QED BY <2>1, <2>2
  <1>8. CASE /\ e.index < Direct
             /\ inode' = [inode EXCEPT ![g] = [node EXCEPT !.direct[e.index] = e.block]]
             /\ UNCHANGED <<bitmap, contents>>
    <2>1. e.index \in 0 .. Direct - 1 /\ node.direct \in [0 .. Direct - 1 -> Blocks]
      BY <1>3, <1>8, MapAssumption DEF InodeType
    <2>2. d \in [0 .. Direct - 1 -> Blocks] /\ (e.block = node.direct[e.index] => d = node.direct)
      BY <1>3, <2>1
    <2>3. inode' = [inode EXCEPT ![g] = [node EXCEPT !.direct = d]]
      BY <1>8
    <2> HIDE DEF d
    <2>4. [node EXCEPT !.direct = d] \in InodeType
          /\ (d = node.direct => [node EXCEPT !.direct = d] = node)
      BY <1>3, <2>2 DEF InodeType
    <2>5. inode' \in [Inodes -> InodeType]
      BY <1>3, <2>3, <2>4
    <2>6. InForce => inode' = inode
      BY <1>3, <1>5, <1>8, <2>2, <2>3, <2>4 DEF node
    <2> QED BY <1>1, <1>3, <1>7, <1>8, <2>5, <2>6 DEF Shapes
  <1>9. CASE /\ e.index \in Direct .. Ptrs + Direct - 1
             /\ node.indirect # Null
             /\ contents' = [contents EXCEPT ![node.indirect].ptr[k] = e.block]
             /\ UNCHANGED <<inode, bitmap>>
    <2> DEFINE u == node.indirect
               p == [contents[u].ptr EXCEPT ![k] = e.block]
    <2>1. k \in 0 .. Ptrs - 1 /\ ~(e.index < Direct)
      BY <1>3, <1>9, MapAssumption DEF k
    <2>2. u \in Blocks /\ contents[u] \in TablePages
      BY <1>1, <1>3, <1>9 DEF PointersMarked, InodeType, node
    <2>3. p \in TableType /\ (e.block = contents[u].ptr[k] => p = contents[u].ptr)
      BY <1>3, <2>1, <2>2 DEF TablePages, TableType
    <2>4. contents' = [contents EXCEPT ![u] = [contents[u] EXCEPT !.ptr = p]]
      BY <1>3, <1>9, <2>2
    <2> HIDE DEF p
    <2>5. [contents[u] EXCEPT !.ptr = p] \in TablePages
          /\ (p = contents[u].ptr => [contents[u] EXCEPT !.ptr = p] = contents[u])
      BY <2>2, <2>3 DEF TablePages
    <2> HIDE DEF u
    <2>6. contents' \in [Blocks -> {SuperPage} \cup DataPages \cup TablePages]
      BY <1>3, <2>2, <2>4, <2>5
    <2>7. InForce => contents' = contents
      BY <1>3, <1>5, <2>1, <2>2, <2>3, <2>4, <2>5 DEF u
    <2> QED BY <1>1, <1>3, <1>7, <1>9, <2>6, <2>7 DEF Shapes
  <1>10. CASE /\ e.index \in Direct .. Ptrs + Direct - 1
              /\ node.indirect = Null
              /\ Free # {}
              /\ bitmap' = bitmap \cup {t}
              /\ inode' = [inode EXCEPT ![g] = [node EXCEPT !.indirect = t]]
              /\ contents' = [contents EXCEPT ![t] = TablePage([EmptyTable EXCEPT ![k] = e.block])]
    <2> DEFINE p == [EmptyTable EXCEPT ![k] = e.block]
    <2>1. k \in 0 .. Ptrs - 1 /\ ~(e.index < Direct)
      BY <1>3, <1>10, MapAssumption DEF k
    <2>2. Free \in SUBSET Nat
      BY BlockAssumption DEF Free, Blocks
    <2>3. t \in Blocks
      BY <1>10, <2>2, MinIs DEF Free, t
    <2>4. p \in TableType
      BY <1>3, <2>1, ConstantTypes DEF TableType
    <2>5. TablePage(p) \in TablePages
      BY <2>4, ConstantTypes
    <2> HIDE DEF p
    <2>6. contents' \in [Blocks -> {SuperPage} \cup DataPages \cup TablePages]
      BY <1>3, <1>10, <2>3, <2>5 DEF p
    <2>7. [node EXCEPT !.indirect = t] \in InodeType
      BY <1>3, <2>3 DEF InodeType
    <2>8. inode' \in [Inodes -> InodeType]
      BY <1>3, <1>10, <2>7
    <2>9. ~InForce
      BY <1>5, <1>10, <2>1
    <2>10. bitmap' \subseteq Blocks
      BY <1>1, <1>10, <2>3 DEF Shapes
    <2> QED BY <1>7, <2>6, <2>8, <2>9, <2>10
  <1>11. CASE /\ e.index >= Direct
              /\ (node.indirect = Null /\ Free = {}) \/ e.index = Ptrs + Direct
              /\ inode' = [inode EXCEPT ![g] = node]
              /\ UNCHANGED <<bitmap, contents>>
    <2>1. ~InForce
      BY <1>3, <1>5, <1>11, MapAssumption
    <2> QED BY <1>1, <1>3, <1>7, <1>11, <2>1 DEF Shapes
  <1> QED BY <1>6, <1>8, <1>9, <1>10, <1>11

\* A TRUNCATE entry is executed again: the pages it frees are owned by the file
\* the path leads to.
LEMMA StepRedoTruncate ==
    ASSUME FInv, NEW g \in Files \cup {0}, RedoTruncate(g)
    PROVE  RInv'
  <1> DEFINE e == log[Slot]
  <1>1. Shapes /\ Owned /\ Kept /\ proc = "mounted" /\ RInv /\ g \in Inodes
    BY MountedIs, ConstantTypes, InodeAssumption DEF RedoTruncate, Redoing, Logging, FInv, Inodes
  <1>2. e \in TruncateEntries
    <2>1. e \in Entries /\ e.type = "TRUNCATE"
      BY SlotIs DEF RedoTruncate, Redoing, FInv
    <2> QED BY <2>1 DEF Entries, SyncedEntry, OtherEntry, WriteEntries
  <1>3. UNCHANGED <<proc, ibitmap, inode, bitmap, contents, shadow, ran_out>>
    BY DEF RedoTruncate
  <1>4. CASE inode[g].size = e.size
    BY <1>1, <1>3, <1>4, StepQuiet DEF RedoTruncate
  <1>5. CASE inode[g].size # e.size
    <2>1. op' = [fn |-> "truncate", f |-> g, size |-> e.size, next |-> e.size, last |-> inode[g].size,
                 redo |-> TRUE]
      BY <1>5 DEF RedoTruncate
    <2>2. op' \in TruncateOps /\ op'.redo
      BY <1>1, <1>2, <2>1, BoundAssumption, MapAssumption
      DEF TruncateEntries, TruncateOps, Sizes, Shapes, InodeType
    <2>3. Shapes'
      BY <1>1, <1>3, <2>2 DEF Shapes
    <2>4. PageInHand'
      BY <2>2, OpIs DEF PageInHand
    <2>5. Owned'
      BY <1>1, <1>3, <2>4, SameMap
    <2>6. Kept'
      BY <2>2 DEF Kept, Cutting
    <2> QED BY <2>3, <2>5, <2>6 DEF RInv, OInv
  <1> QED BY <1>4, <1>5

LEMMA StepRedoOther == ASSUME RInv, RedoOther PROVE RInv'
  <1>1. UNCHANGED <<op, ibitmap, inode, bitmap, contents, shadow, ran_out>>
        /\ proc = "mounted" /\ proc' \in {"mounted", "overtaken"}
    BY DEF RedoOther, Redoing, Logging
  <1>2. CASE proc' = "mounted"
    BY <1>1, <1>2, StepQuiet
  <1>3. CASE proc' = "overtaken"
    <2>1. Shapes'
      BY <1>1, <1>3 DEF RInv, OInv, Shapes
    <2> QED BY <1>3, <2>1, Unmounted
  <1> QED BY <1>1, <1>2, <1>3

-----------------------------------------------------------------------------
(***************************************************************************)
(* The journal ring keeps its shape.                                       *)
(***************************************************************************)
LEMMA InitLog == Init => LogShape
  BY DEF Init, LogShape, Entries

LEMMA LoggedShape == ASSUME LogShape, logging # NoEntry, Logged PROVE LogShape'
  BY SlotIs DEF LogShape, Logged

LEMMA LogsShape ==
    ASSUME LogShape, UNCHANGED <<log, head>>, logging' \in {NoEntry} \cup Entries
    PROVE  LogShape'
  BY DEF LogShape

\* nbtrfs_write logs the block alloc_page has given it.
LEMMA LogWriteShape ==
    ASSUME FInv, NeedsPage, Free # {}, LogWrite(Min(Free))
    PROVE  LogShape'
  <1> DEFINE b == Min(Free)
  <1>1. op.f \in Inodes /\ op.next \in Indices /\ b \in Blocks \ bitmap /\ Owned /\ proc = "mounted"
    BY NeedsPageIs DEF FInv
  <1>2. b # Null
    BY <1>1, ConstantTypes DEF Owned, ReservedMarked
  <1> HIDE DEF b
  <1>3. WriteEntry(op.f, op.next, b) \in Entries /\ SyncedEntry \in Entries
    BY <1>1, <1>2 DEF WriteEntry, WriteEntries, Entries
  <1> QED BY <1>3, LogsShape DEF LogWrite, FInv, b

LEMMA StepLog == FInv /\ [Next]_vars => LogShape'
  <1> SUFFICES ASSUME FInv, [Next]_vars PROVE LogShape'
    OBVIOUS
  <1>0. LogShape
    BY DEF FInv
  <1>1. CASE LogEntry \/ RedoWrite \/ RedoOther \/ \E g \in Files \cup {0} : RedoTruncate(g)
    BY <1>0, <1>1, LoggedShape DEF LogEntry, RedoWrite, RedoOther, RedoTruncate, Redoing, Logging
  <1>2. CASE Create \/ LogOther \/ \E f \in Files : Unlink(f)
    BY <1>0, <1>2, LogsShape DEF Create, LogOther, Unlink, Entries
  <1>3. ASSUME NEW f \in Files, NEW n \in 0 .. MaxIndex + 1, Truncate(f, n) PROVE LogShape'
    <2>1. TruncateEntry(n) \in Entries
      BY DEF TruncateEntry, TruncateEntries, Entries, Sizes
    <2> QED BY <1>0, <1>3, <2>1, LogsShape DEF Truncate
  <1>4. CASE NewDirect \/ NewIndirect \/ NewTable
    BY <1>4, LogWriteShape DEF NewDirect, NewIndirect, NewTable
  <1>5. CASE UNCHANGED logVars
    BY <1>0, <1>5 DEF LogShape, logVars
  <1>6. CASE \/ Remove \/ FindPage \/ PageOverflow \/ NoSpace \/ StorePage \/ WriteDone
             \/ TruncHole \/ TruncDone
             \/ \E f \in Files, first \in Indices, n \in 1 .. MaxPages, v \in Values :
                    Write(f, first, first + n, v)
             \/ \E p \in Blocks : TruncDirect(p) \/ TruncIndirect(p)
    BY <1>5, <1>6 DEF Remove, FindPage, PageOverflow, NoSpace, StorePage, WriteDone, TruncHole, TruncDone,
       Write, TruncDirect, TruncIndirect
  <1>7. CASE UNCHANGED vars
    BY <1>5, <1>7 DEF vars
  <1> QED BY <1>1, <1>2, <1>3, <1>4, <1>6, <1>7 DEF Next

-----------------------------------------------------------------------------
(***************************************************************************)
(* Blocks stay where they were placed.                                     *)
(***************************************************************************)
LEMMA InitPlaced == Init => PInv
  <1> SUFFICES ASSUME Init PROVE PInv
    OBVIOUS
  <1>1. placed \in [Inodes -> [Indices -> Blocks]]
        /\ \A f \in Inodes, i \in Indices : placed[f][i] = Null
    BY ConstantTypes DEF Init
  <1>2. op \notin WriteOps
    BY OpIs DEF Init
  <1> QED BY <1>1, <1>2 DEF PInv, Linked

\* A file whose pointers are left alone keeps them.
LEMMA PointerSame ==
    ASSUME NEW f \in Inodes, NEW i \in Indices,
           inode'[f].direct = inode[f].direct, inode'[f].indirect = inode[f].indirect,
           inode[f].indirect # Null =>
                contents'[inode[f].indirect].ptr = contents[inode[f].indirect].ptr
    PROVE  PointerAt(f, i)' = PointerAt(f, i)
  BY DEF PointerAt

\* Steps that move no pointer.
LEMMA PlacedQuiet ==
    ASSUME FInv, placed' = placed, proc' = "mounted" => proc = "mounted",
           proc' = "mounted" =>
              /\ op' \in WriteOps => op'.f \in Files'
              /\ Files \subseteq Files'
              /\ \A f \in Inodes :
                    /\ inode'[f].direct = inode[f].direct /\ inode'[f].indirect = inode[f].indirect
                    /\ inode[f].indirect # Null =>
                          contents'[inode[f].indirect].ptr = contents[inode[f].indirect].ptr
    PROVE  PInv'
  <1>1. PInv
    BY DEF FInv
  <1>2. ASSUME proc' = "mounted" PROVE Linked'
    <2>1. Linked
      BY <1>1, <1>2 DEF PInv
    <2>2. \A f \in Inodes, i \in Indices : PointerAt(f, i)' = PointerAt(f, i)
      BY <1>2, PointerSame
    <2>3. ASSUME NEW f \in Inodes, NEW i \in Indices, placed'[f][i] # Null
          PROVE  f \in Files' /\ PointerAt(f, i)' = placed'[f][i]
      BY <1>2, <2>1, <2>2, <2>3 DEF Linked
    <2> QED BY <1>2, <2>3 DEF Linked
  <1> QED BY <1>1, <1>2 DEF PInv

\* A new page: its pointer is the only one that moves.
LEMMA PlacedGrows ==
    ASSUME FInv, NEW b \in Blocks, proc = "mounted", op \in WriteOps, op.next \in Indices,
           op' = [op EXCEPT !.pnum = b], UNCHANGED <<proc, ibitmap>>,
           placed' = [placed EXCEPT ![op.f][op.next] = b],
           \A f \in Inodes, i \in Indices :
              /\ f = op.f /\ i = op.next => PointerAt(f, i)' = b
              /\ f # op.f \/ i # op.next =>
                    PointerAt(f, i)' = PointerAt(f, i) \/ PointerAt(f, i) = Null
    PROVE  PInv'
  <1>1. PInv /\ Linked /\ op.f \in Inodes
    BY OpIs DEF FInv, PInv
  <1>2. /\ placed' \in [Inodes -> [Indices -> Blocks]]
        /\ \A f \in Inodes, i \in Indices :
              placed'[f][i] = IF f = op.f /\ i = op.next THEN b ELSE placed[f][i]
    BY <1>1 DEF PInv
  <1>3. Files' = Files /\ op.f \in Files /\ op'.f = op.f
    BY <1>1 DEF Files, Linked, WriteOps
  <1>4. ASSUME NEW f \in Inodes, NEW i \in Indices, placed'[f][i] # Null
        PROVE  f \in Files' /\ PointerAt(f, i)' = placed'[f][i]
    <2>1. CASE f = op.f /\ i = op.next
      BY <1>2, <1>3, <2>1
    <2>2. CASE ~(f = op.f /\ i = op.next)
      BY <1>1, <1>2, <1>3, <1>4, <2>2 DEF Linked
    <2> QED BY <2>1, <2>2
  <1> QED BY <1>2, <1>3, <1>4 DEF PInv, Linked

LEMMA PlacedDirect == ASSUME FInv, NewDirect PROVE PInv'
  <1> DEFINE b == Min(Free)
  <1>1. /\ Shapes /\ PointersMarked /\ proc = "mounted" /\ op \in WriteOps /\ op.f \in Inodes
        /\ op.next \in Indices /\ op.next \in 0 .. Direct - 1 /\ b \in Blocks \ bitmap
        /\ \A f \in Inodes : inode[f].indirect # b
    BY NeedsPageIs, MapAssumption DEF FInv, NewDirect, Indices
  <1>2. /\ UNCHANGED <<proc, ibitmap>> /\ op' = [op EXCEPT !.pnum = b]
        /\ placed' = [placed EXCEPT ![op.f][op.next] = b]
        /\ contents' = [contents EXCEPT ![b] = DataPage(Zero)]
        /\ inode' = [inode EXCEPT ![op.f].direct[op.next] = b]
    BY DEF NewDirect
  <1> HIDE DEF b
  <1>3. /\ \A f \in Inodes : inode'[f].indirect = inode[f].indirect
        /\ \A f \in Inodes : f # op.f => inode'[f].direct = inode[f].direct
        /\ \A i \in 0 .. Direct - 1 :
              inode'[op.f].direct[i] = IF i = op.next THEN b ELSE inode[op.f].direct[i]
    BY <1>1, <1>2 DEF Shapes, InodeType
  <1>4. \A f \in Inodes : contents'[inode[f].indirect] = contents[inode[f].indirect]
    BY <1>1, <1>2 DEF Shapes, InodeType
  <1>5. \A f \in Inodes, i \in Indices : f = op.f /\ i = op.next => PointerAt(f, i)' = b
    BY <1>1, <1>3, MapAssumption DEF PointerAt
  <1>6. ASSUME NEW f \in Inodes, NEW i \in Indices, f # op.f \/ i # op.next
        PROVE  PointerAt(f, i)' = PointerAt(f, i)
    <2>1. CASE f # op.f
      BY <1>3, <1>4, <2>1, PointerSame
    <2>2. CASE f = op.f
      <3>1. i \in Nat /\ (i < Direct => i \in 0 .. Direct - 1) /\ i # op.next
        BY <1>6, <2>2, MapAssumption, BoundAssumption DEF Indices
      <3> QED BY <1>3, <1>4, <2>2, <3>1 DEF PointerAt
    <2> QED BY <2>1, <2>2
  <1> QED BY <1>1, <1>2, <1>5, <1>6, PlacedGrows

LEMMA PlacedIndirect == ASSUME FInv, NewIndirect PROVE PInv'
  <1> DEFINE b == Min(Free)
             t == inode[op.f].indirect
             k == op.next - Direct
             q == [contents[t].ptr EXCEPT ![k] = b]
  <1>1. /\ Shapes /\ Owned /\ PointersMarked /\ proc = "mounted" /\ op \in WriteOps /\ op.f \in Inodes
        /\ op.next \in Indices /\ k \in 0 .. Ptrs - 1 /\ op.next = k + Direct /\ b \in Blocks \ bitmap
        /\ t # Null /\ \A f \in Inodes : inode[f].indirect # b
    BY NeedsPageIs, MapAssumption DEF FInv, NewIndirect, Indices
  <1>2. /\ UNCHANGED <<proc, ibitmap, inode>> /\ op' = [op EXCEPT !.pnum = b]
        /\ placed' = [placed EXCEPT ![op.f][op.next] = b]
        /\ contents' = [[contents EXCEPT ![b] = DataPage(Zero)] EXCEPT ![t].ptr[k] = b]
    BY DEF NewIndirect
  <1>3. t \in Blocks /\ t # b /\ contents[t] \in TablePages
    BY <1>1 DEF Shapes, InodeType, PointersMarked
  <1>4. /\ q \in TableType /\ q[k] = b /\ \A j \in 0 .. Ptrs - 1 : j # k => q[j] = contents[t].ptr[j]
    BY <1>1, <1>3 DEF TablePages, TableType
  <1>5. contents' = [[contents EXCEPT ![b] = DataPage(Zero)] EXCEPT ![t] = [contents[t] EXCEPT !.ptr = q]]
    BY <1>1, <1>2, <1>3 DEF Shapes
  <1>6. [contents[t] EXCEPT !.ptr = q].ptr = q
    BY <1>3 DEF TablePages
  <1> HIDE DEF b, q
  <1>7. /\ \A c \in Blocks : c # b /\ c # t => contents'[c] = contents[c]
        /\ contents'[t].ptr = q
    <2> HIDE DEF t
    <2> QED BY <1>1, <1>3, <1>5, <1>6 DEF Shapes
  <1>8. ASSUME NEW f \in Inodes, f # op.f, inode[f].indirect # Null
        PROVE  contents'[inode[f].indirect] = contents[inode[f].indirect]
    <2>1. inode[f].indirect # t /\ inode[f].indirect # b /\ inode[f].indirect \in Blocks
      BY <1>1, <1>8 DEF Owned, TablesDistinct, Shapes, InodeType
    <2> QED BY <1>7, <2>1
  <1>9. \A f \in Inodes, i \in Indices : f = op.f /\ i = op.next => PointerAt(f, i)' = b
    <2>1. ~(op.next < Direct) /\ op.next < Ptrs + Direct
      BY <1>1, MapAssumption, BoundAssumption DEF Indices
    <2>2. inode'[op.f].indirect = t /\ t # Null /\ contents'[t].ptr[k] = b /\ op.next - Direct = k
      BY <1>1, <1>2, <1>4, <1>7
    <2> HIDE DEF t, k
    <2> QED BY <2>1, <2>2 DEF PointerAt
  <1>10. ASSUME NEW f \in Inodes, NEW i \in Indices, f # op.f \/ i # op.next
         PROVE  PointerAt(f, i)' = PointerAt(f, i)
    <2>1. CASE f # op.f
      BY <1>2, <1>8, <2>1, PointerSame
    <2>2. CASE f = op.f /\ Direct =< i /\ i < Ptrs + Direct
      <3>1. i - Direct \in 0 .. Ptrs - 1 /\ i - Direct # k /\ ~(i < Direct)
        BY <1>1, <1>10, <2>2, MapAssumption, BoundAssumption DEF Indices
      <3> QED BY <1>1, <1>2, <1>4, <1>7, <2>2, <3>1 DEF PointerAt
    <2>3. CASE f = op.f /\ (i < Direct \/ ~(i < Ptrs + Direct))
      BY <1>2, <2>3, MapAssumption DEF PointerAt
    <2> QED BY <2>1, <2>2, <2>3, MapAssumption, BoundAssumption DEF Indices
  <1> QED BY <1>1, <1>2, <1>9, <1>10, PlacedGrows

LEMMA PlacedTable == ASSUME FInv, NewTable PROVE PInv'
  <1> DEFINE b == Min(Free)
             t == Min(Free \ {b})
             k == op.next - Direct
             q == [EmptyTable EXCEPT ![k] = b]
  <1>1. /\ Shapes /\ PointersMarked /\ proc = "mounted" /\ op \in WriteOps /\ op.f \in Inodes
        /\ op.next \in Indices /\ b \in Blocks \ bitmap /\ inode[op.f].indirect = Null
        /\ ~(op.next < Direct) /\ UNCHANGED <<proc, ibitmap>> /\ op' = [op EXCEPT !.pnum = b]
        /\ \A f \in Inodes : inode[f].indirect # b
    BY NeedsPageIs, MapAssumption DEF FInv, NewTable, Indices
  <1>2. CASE /\ Free \ {b} # {}
             /\ op.next < Ptrs + Direct
             /\ placed' = [placed EXCEPT ![op.f][op.next] = b]
             /\ inode' = [inode EXCEPT ![op.f].indirect = t]
             /\ contents' = [contents EXCEPT ![b] = DataPage(Zero), ![t] = TablePage(q)]
    <2>1. t \in Blocks \ bitmap /\ t # b
      <3>1. Free \ {b} \in SUBSET Nat
        BY BlockAssumption DEF Free, Blocks
      <3> HIDE DEF b
      <3>2. t \in Free \ {b}
        BY <1>2, <3>1, MinIs
      <3> QED BY <3>2 DEF Free
    <2>2. t # Null /\ \A f \in Inodes : inode[f].indirect # t
      BY <1>1, <2>1, ConstantTypes DEF PointersMarked, FInv, RInv, OInv, Owned, ReservedMarked
    <2>3. k \in 0 .. Ptrs - 1 /\ op.next = k + Direct
      BY <1>1, <1>2, MapAssumption, BoundAssumption DEF Indices
    <2>4. q[k] = b /\ TablePage(q).ptr = q
      BY <2>3 DEF EmptyTable, TablePage
    <2> HIDE DEF b, t, q
    <2>5. /\ \A f \in Inodes : f # op.f => inode'[f] = inode[f]
          /\ inode'[op.f].direct = inode[op.f].direct /\ inode'[op.f].indirect = t
      BY <1>1, <1>2 DEF Shapes, InodeType
    <2>6. /\ contents'[t] = TablePage(q)
          /\ \A c \in Blocks : c # b /\ c # t => contents'[c] = contents[c]
      BY <1>1, <1>2, <2>1 DEF Shapes
    <2>7. \A f \in Inodes, i \in Indices : f = op.f /\ i = op.next => PointerAt(f, i)' = b
      BY <1>1, <1>2, <2>2, <2>4, <2>5, <2>6, MapAssumption DEF PointerAt
    <2>8. ASSUME NEW f \in Inodes, NEW i \in Indices
          PROVE  PointerAt(f, i)' = PointerAt(f, i) \/ PointerAt(f, i) = Null
      <3>1. CASE f # op.f
        <4>1. contents'[inode[f].indirect] = contents[inode[f].indirect]
          BY <1>1, <2>2, <2>6 DEF Shapes, InodeType
        <4> QED BY <2>5, <3>1, <4>1, PointerSame
      <3>2. CASE f = op.f
        BY <1>1, <2>5, <3>2 DEF PointerAt
      <3> QED BY <3>1, <3>2
    <2> QED BY <1>1, <1>2, <2>7, <2>8, PlacedGrows DEF b
  <1>3. CASE UNCHANGED <<inode, placed>> /\ contents' = [contents EXCEPT ![b] = DataPage(Zero)]
    <2>1. op' \in WriteOps => op'.f \in Files'
      BY <1>1 DEF FInv, PInv, Linked, Files, WriteOps
    <2>2. \A f \in Inodes : contents'[inode[f].indirect] = contents[inode[f].indirect]
      BY <1>1, <1>3 DEF Shapes, InodeType
    <2>3. Files' = Files
      BY <1>1 DEF Files
    <2> QED BY <1>1, <1>3, <2>1, <2>2, <2>3, PlacedQuiet
  <1> QED BY <1>2, <1>3 DEF NewTable

LEMMA PlacedRemove == ASSUME FInv, Remove PROVE PInv'
  <1>1. Shapes /\ PInv /\ Linked /\ proc = "mounted" /\ op.f \in Inodes
    BY MountedIs, OpIs DEF Remove, Ready, FInv, PInv, Shapes
  <1>2. /\ ibitmap' = ibitmap \ {op.f} /\ op' = Idle /\ UNCHANGED <<proc, contents>>
        /\ \A f \in Inodes : f # op.f => inode'[f] = inode[f]
    BY <1>1 DEF Remove, Shapes
  <1>3. /\ placed' \in [Inodes -> [Indices -> Blocks]]
        /\ \A f \in Inodes, i \in Indices : placed'[f][i] = IF f = op.f THEN Null ELSE placed[f][i]
    <2>1. [i \in Indices |-> Null] \in [Indices -> Blocks]
      BY ConstantTypes
    <2> QED BY <1>1, <2>1 DEF Remove, PInv
  <1>4. ASSUME NEW f \in Inodes, NEW i \in Indices, placed'[f][i] # Null
        PROVE  f \in Files' /\ PointerAt(f, i)' = placed'[f][i]
    <2>1. f # op.f /\ placed[f][i] # Null /\ placed'[f][i] = placed[f][i]
      BY <1>3, <1>4
    <2>2. PointerAt(f, i)' = PointerAt(f, i)
      BY <1>2, <2>1, PointerSame
    <2> QED BY <1>1, <1>2, <2>1, <2>2 DEF Linked, Files
  <1> QED BY <1>2, <1>3, <1>4, OpIs DEF PInv, Linked

LEMMA PlacedTruncDirect ==
    ASSUME FInv, NEW p \in Blocks, TruncDirect(p)
    PROVE  PInv'
  <1>1. Shapes /\ PInv /\ Linked /\ proc = "mounted" /\ op \in TruncateOps /\ op.f \in Inodes
        /\ op.next \in Indices /\ op.next \in 0 .. Direct - 1
    BY MountedIs, OpIs, MapAssumption DEF TruncDirect, Truncating, Ready, FInv, PInv, Shapes, Indices
  <1>2. /\ UNCHANGED <<proc, ibitmap, contents>> /\ op' = [op EXCEPT !.next = @ + 1]
        /\ inode' = [inode EXCEPT ![op.f].direct[op.next] = Null]
        /\ placed' = [placed EXCEPT ![op.f][op.next] = Null]
    BY DEF TruncDirect
  <1>3. /\ \A f \in Inodes : inode'[f].indirect = inode[f].indirect
        /\ \A f \in Inodes : f # op.f => inode'[f].direct = inode[f].direct
        /\ \A i \in 0 .. Direct - 1 : i # op.next => inode'[op.f].direct[i] = inode[op.f].direct[i]
    BY <1>1, <1>2 DEF Shapes, InodeType
  <1>4. /\ placed' \in [Inodes -> [Indices -> Blocks]]
        /\ \A f \in Inodes, i \in Indices :
              placed'[f][i] = IF f = op.f /\ i = op.next THEN Null ELSE placed[f][i]
    BY <1>1, <1>2, ConstantTypes DEF PInv
  <1>5. op' \notin WriteOps /\ Files' = Files
    BY <1>1, <1>2 DEF TruncateOps, WriteOps, Files
  <1>6. ASSUME NEW f \in Inodes, NEW i \in Indices, placed'[f][i] # Null
        PROVE  f \in Files' /\ PointerAt(f, i)' = placed'[f][i]
    <2>1. (f # op.f \/ i # op.next) /\ placed[f][i] # Null /\ placed'[f][i] = placed[f][i]
      BY <1>4, <1>6
    <2>2. CASE f # op.f
      <3>1. PointerAt(f, i)' = PointerAt(f, i)
        BY <1>2, <1>3, <2>2, PointerSame
      <3> QED BY <1>1, <1>5, <2>1, <3>1 DEF Linked
    <2>3. CASE f = op.f
      <3>1. i \in Nat /\ (i < Direct => i \in 0 .. Direct - 1) /\ i # op.next
        BY <2>1, <2>3, MapAssumption, BoundAssumption DEF Indices
      <3>2. PointerAt(f, i)' = PointerAt(f, i)
        BY <1>2, <1>3, <2>3, <3>1 DEF PointerAt
      <3> QED BY <1>1, <1>5, <2>1, <3>2 DEF Linked
    <2> QED BY <2>2, <2>3
  <1> QED BY <1>4, <1>5, <1>6 DEF PInv, Linked

LEMMA StepPlaced == FInv /\ [Next]_vars => PInv'
  <1> SUFFICES ASSUME FInv, [Next]_vars PROVE PInv'
    OBVIOUS
  <1>0. Shapes /\ PInv /\ (proc = "mounted" => Linked)
    BY DEF FInv, RInv, OInv, PInv
  <1>1. CASE /\ UNCHANGED <<placed, ibitmap, inode, contents>>
             /\ op' = op \/ op' \notin WriteOps
             /\ proc' = "mounted" => proc = "mounted"
    <2>1. Files' = Files
      BY <1>1 DEF Files
    <2> QED BY <1>0, <1>1, <2>1, PlacedQuiet DEF Linked
  <1>2. CASE UNCHANGED vars \/ LogEntry \/ LogOther \/ RedoOther
    BY <1>1, <1>2 DEF vars, LogEntry, LogOther, RedoOther, Redoing, Logging
  <1>3. CASE RedoWrite
    <2>1. /\ UNCHANGED <<placed, ibitmap, op>> /\ proc = "mounted"
          /\ proc' = "mounted" => UNCHANGED <<inode, contents>>
      BY <1>3, StepRedoWrite DEF RedoWrite, Redoing, Logging
    <2>2. Files' = Files
      BY <2>1 DEF Files
    <2> QED BY <1>0, <2>1, <2>2, PlacedQuiet DEF Linked
  <1>4. ASSUME NEW g \in Files \cup {0}, RedoTruncate(g) PROVE PInv'
    <2>1. op' = op \/ op'.fn = "truncate"
      BY <1>4 DEF RedoTruncate
    <2>2. op' = op \/ op' \notin WriteOps
      BY <2>1, OpIs
    <2> QED BY <1>1, <1>4, <2>2 DEF RedoTruncate, Redoing, Logging
  <1>5. CASE NoSpace \/ FindPage
    <2>1. op \in WriteOps /\ (op' = Idle \/ op'.f = op.f) /\ proc = "mounted"
      BY <1>0, <1>5, OpIs DEF NoSpace, FindPage, NeedsPage, Writing, Ready, Shapes, WriteOps
    <2>2. UNCHANGED <<proc, placed, ibitmap, inode, contents>> /\ Files' = Files
      BY <1>5 DEF NoSpace, FindPage, Files
    <2> QED BY <1>0, <2>1, <2>2, OpIs, PlacedQuiet DEF Linked
  <1>6. ASSUME NEW f \in Files, NEW first \in Indices, NEW n \in 1 .. MaxPages, NEW v \in Values,
               Write(f, first, first + n, v)
        PROVE  PInv'
    <2>1. op'.f = f /\ UNCHANGED <<proc, placed, ibitmap, inode, contents>> /\ Files' = Files
      BY <1>6 DEF Write, Files
    <2> QED BY <2>1, PlacedQuiet
  <1>7. CASE \/ \E f \in Files : Unlink(f)
             \/ \E f \in Files, n \in 0 .. MaxIndex + 1 : Truncate(f, n)
    <2>1. op'.fn \in {"unlink", "truncate"} /\ UNCHANGED <<proc, placed, ibitmap, inode, contents>>
      BY <1>7 DEF Unlink, Truncate
    <2>2. op' \notin WriteOps
      BY <2>1, OpIs
    <2> QED BY <1>1, <2>1, <2>2
  <1>8. CASE TruncHole
    <2>1. op \in TruncateOps
      BY <1>0, <1>8, OpIs DEF TruncHole, Truncating, Shapes
    <2>2. op' \notin WriteOps
      BY <1>8, <2>1 DEF TruncHole, TruncateOps, WriteOps
    <2> QED BY <1>1, <1>8, <2>2 DEF TruncHole
  <1>9. CASE PageOverflow \/ \E p \in Blocks : TruncIndirect(p)
    <2>1. placed' = placed /\ proc' # "mounted"
      BY <1>9 DEF PageOverflow, TruncIndirect
    <2> QED BY <2>1, PlacedQuiet
  <1>10. CASE WriteDone \/ TruncDone
    <2>1. /\ op' = Idle /\ UNCHANGED <<placed, ibitmap, contents>> /\ proc = "mounted" /\ op.f \in Inodes
      BY <1>0, <1>10, OpIs DEF WriteDone, TruncDone, Ready, Shapes
    <2>2. \A f \in Inodes : inode'[f].direct = inode[f].direct /\ inode'[f].indirect = inode[f].indirect
      BY <1>0, <1>10, <2>1 DEF WriteDone, TruncDone, Shapes, InodeType
    <2>3. Files' = Files
      BY <2>1 DEF Files
    <2> QED BY <2>1, <2>2, <2>3, OpIs, PlacedQuiet
  <1>11. CASE Create
    <2>1. /\ op' = Idle /\ UNCHANGED <<placed, inode, contents>> /\ proc = "mounted"
      BY <1>11 DEF Create, Starts, Ready
    <2>2. Files \subseteq Files'
      BY <1>11 DEF Create, Files
    <2> QED BY <2>1, <2>2, OpIs, PlacedQuiet
  <1>12. CASE StorePage
    <2>1. op \in WriteOps /\ op.pnum \in Blocks /\ op.pnum # Null /\ proc = "mounted" /\ PageInHand
      BY <1>12, OpIs, MountedIs DEF StorePage, Writing, Ready, FInv, Shapes
    <2>2. /\ UNCHANGED <<proc, placed, inode, ibitmap>> /\ Files' = Files /\ op'.f = op.f
          /\ contents' = [contents EXCEPT ![op.pnum] = DataPage(op.val)]
      BY <1>12, <2>1 DEF StorePage, Files, WriteOps
    <2>3. \A f \in Inodes : contents'[inode[f].indirect] = contents[inode[f].indirect]
      BY <1>0, <2>1, <2>2 DEF PageInHand, Shapes, InodeType
    <2> QED BY <1>0, <2>1, <2>2, <2>3, PlacedQuiet DEF Linked
  <1> QED BY <1>2, <1>3, <1>4, <1>5, <1>6, <1>7, <1>8, <1>9, <1>10, <1>11, <1>12,
             PlacedDirect, PlacedIndirect, PlacedTable, PlacedRemove, PlacedTruncDirect DEF Next

-----------------------------------------------------------------------------
LEMMA InitR == Init => RInv
  <1> SUFFICES ASSUME Init PROVE RInv
    OBVIOUS
  <1>1. Shapes
    <2>1. contents \in [Blocks -> {SuperPage} \cup DataPages \cup TablePages]
      BY ConstantTypes DEF Init
    <2>2. ibitmap \subseteq 0 .. NInodeBits - 1 /\ bitmap \subseteq Blocks
      BY InodeAssumption, ConstantTypes DEF Init
    <2>3. inode \in [Inodes -> InodeType] /\ shadow \in [Inodes -> [Indices -> Values \cup {None}]]
      BY ConstantTypes DEF Init
    <2> QED BY <2>1, <2>2, <2>3 DEF Init, Shapes
  <1>2. \A f \in Inodes : inode[f] = EmptyInode /\ inode[f].indirect = Null
    BY DEF Init, EmptyInode
  <1>3. ASSUME NEW f \in Inodes, NEW i \in Indices PROVE inode_get_block(f, i) = Null
    <2>1. i \in Nat
      BY MapAssumption, BoundAssumption DEF Indices
    <2> QED BY <1>2, <2>1, MapAssumption DEF inode_get_block, EmptyInode
  <1>4. Owned
    <2>1. op = Idle /\ bitmap = 0 .. Reserved - 1
      BY DEF Init
    <2>2. PageInHand /\ ReservedMarked
      BY <2>1, OpIs DEF PageInHand, ReservedMarked
    <2> QED BY <1>2, <1>3, <2>2 DEF Owned, PagesDistinct, TablesDistinct, PointersMarked
  <1>5. Kept
    <2>1. op = Idle /\ \A f \in Inodes, i \in Indices : shadow[f][i] = None
      BY DEF Init
    <2> QED BY <2>1, OpIs DEF Kept, WrittenKept, HandLinked, TruncateBehind
  <1> QED BY <1>1, <1>4, <1>5 DEF RInv, OInv

LEMMA StepR == FInv /\ [Next]_vars => RInv'
  <1> SUFFICES ASSUME FInv, [Next]_vars PROVE RInv'
    OBVIOUS
  <1>0. RInv
    BY DEF FInv
  <1> USE <1>0
  <1>1. CASE Create
    BY <1>1, StepCreate
  <1>2. CASE Remove
    BY <1>2, StepRemove
  <1>3. CASE \E f \in Files, first \in Indices, n \in 1 .. MaxPages, v \in Values :
                first + n - 1 =< MaxIndex /\ Write(f, first, first + n, v)
    BY <1>3, StepWrite
  <1>4. CASE FindPage
    BY <1>4, StepFindPage
  <1>5. CASE NewDirect
    BY <1>5, StepNewDirect
  <1>6. CASE NewIndirect
    BY <1>6, StepNewIndirect
  <1>7. CASE NewTable
    BY <1>7, StepNewTable
  <1>8. CASE PageOverflow
    BY <1>8, StepPageOverflow
  <1>9. CASE NoSpace
    BY <1>9, StepNoSpace
  <1>10. CASE StorePage
    BY <1>10, StepStorePage
  <1>11. CASE WriteDone
    BY <1>11, StepWriteDone
  <1>12. CASE \E f \in Files, n \in 0 .. MaxIndex + 1 : Truncate(f, n)
    BY <1>12, StepTruncate
  <1>13. CASE TruncHole
    BY <1>13, StepTruncHole
  <1>14. CASE TruncDone
    BY <1>14, StepTruncDone
  <1>15. CASE \E p \in Blocks : TruncDirect(p)
    BY <1>15, StepTruncDirect
  <1>16. CASE \E p \in Blocks : TruncIndirect(p)
    BY <1>16, StepTruncIndirect
  <1>17. CASE UNCHANGED vars
    BY <1>17, StepQuiet DEF vars
  <1>18. CASE LogEntry \/ LogOther
    BY <1>18, StepQuiet DEF LogEntry, LogOther
  <1>19. CASE RedoWrite
    BY <1>19, StepRedoWrite
  <1>20. CASE \E g \in Files \cup {0} : RedoTruncate(g)
    BY <1>20, StepRedoTruncate
  <1>21. CASE RedoOther
    BY <1>21, StepRedoOther
  <1>22. CASE \E f \in Files : Unlink(f)
    BY <1>22, StepUnlink
  <1> QED BY <1>1, <1>2, <1>3, <1>4, <1>5, <1>6, <1>7, <1>8, <1>9, <1>10, <1>11, <1>12, <1>13,
             <1>14, <1>15, <1>16, <1>17, <1>18, <1>19, <1>20, <1>21, <1>22 DEF Next

-----------------------------------------------------------------------------
(***************************************************************************)
(* The theorems.                                                           *)
(***************************************************************************)
LEMMA FileMapInductive == Spec => []FInv
  <1>1. Init => FInv
    BY InitR, InitLog, InitPlaced DEF FInv
  <1>2. FInv /\ [Next]_vars => FInv'
    BY StepR, StepLog, StepPlaced DEF FInv
  <1> QED BY <1>1, <1>2, PTL DEF Spec

\* Every variable keeps its type, whatever the handlers of inode.c and fuse.c
\* do and also after the behaviours the code leaves undefined.
THEOREM FileMapTypes == Spec => []TypeOK
  <1>1. FInv => TypeOK
    <2> SUFFICES ASSUME Shapes, LogShape, PInv PROVE TypeOK
      BY DEF FInv, RInv, OInv
    <2>0. /\ \A k \in Slots : log[k].type \in {"synced", "WRITE", "TRUNCATE", "OTHER"}
          /\ logging.type \in {"none", "synced", "WRITE", "TRUNCATE", "OTHER"}
      <3>1. \A e \in Entries : e.type \in {"synced", "WRITE", "TRUNCATE", "OTHER"}
        BY DEF Entries, SyncedEntry, OtherEntry, WriteEntries, TruncateEntries
      <3> QED BY <3>1 DEF LogShape, NoEntry
    <2>1. op.fn \in {"none", "write", "unlink", "truncate"}
      BY OpIs DEF Shapes
    <2>2. \A b \in Blocks : contents[b].kind \in {"data", "table", "super"}
      <3>1. \A c \in {SuperPage} \cup DataPages \cup TablePages : c.kind \in {"data", "table", "super"}
        BY DEF SuperPage, DataPages, TablePages
      <3> QED BY <3>1 DEF Shapes
    <2>3. InodeType \subseteq [size : Nat, direct : [0 .. Direct - 1 -> Blocks], indirect : Blocks]
      BY BoundAssumption, MapAssumption DEF InodeType, Sizes
    <2>4. inode \in [Inodes -> [size : Nat, direct : [0 .. Direct - 1 -> Blocks], indirect : Blocks]]
      BY <2>3 DEF Shapes
    <2> QED BY <2>0, <2>1, <2>2, <2>4 DEF Shapes, LogShape, PInv, TypeOK
  <1> QED BY <1>1, FileMapInductive, PTL

\* The pointers of References, of pages and of indirect blocks.
LEMMA ReferenceIs ==
    ASSUME NEW r \in References
    PROVE  \/ /\ r[1] \in Inodes /\ r[2] \in Indices /\ r = <<r[1], r[2]>>
              /\ inode_get_block(r[1], r[2]) # Null
              /\ Target(r) = inode_get_block(r[1], r[2])
           \/ /\ r[1] \in Inodes /\ r[2] = -1 /\ r = <<r[1], -1>>
              /\ inode[r[1]].indirect # Null
              /\ Target(r) = inode[r[1]].indirect
  <1>1. CASE r \in {q \in Inodes \X Indices : inode_get_block(q[1], q[2]) # Null}
    <2>1. r[1] \in Inodes /\ r[2] \in Indices /\ r = <<r[1], r[2]>> /\ inode_get_block(r[1], r[2]) # Null
      BY <1>1
    <2>2. r[2] # -1
      BY <2>1, MapAssumption, BoundAssumption DEF Indices
    <2> QED BY <2>1, <2>2 DEF Target
  <1>2. CASE r \in {<<f, -1>> : f \in {g \in Inodes : inode[g].indirect # Null}}
    <2>1. PICK f \in Inodes : inode[f].indirect # Null /\ r = <<f, -1>>
      BY <1>2
    <2>2. r[1] = f /\ r[2] = -1
      BY <2>1
    <2> QED BY <2>1, <2>2 DEF Target
  <1> QED BY <1>1, <1>2 DEF References

\* No two pointers of any two files, to pages or to indirect blocks, lead to
\* one block, and each leads to a block marked in the bitmap and not reserved:
\* nbtrfs_write, _truncate and inode_free keep the block maps disjoint for any
\* number of files, blocks, pointers and journal entries.  A WRITE entry whose
\* page was neither truncated, removed nor given another block since changes
\* nothing when a wrap executes it again.  The theorem ends where undefined
\* behaviour is met or an entry is executed again that was overtaken.
THEOREM FilesOwnTheirBlocks == Spec => []BlocksOwned
  <1>1. FInv => BlocksOwned
    <2> SUFFICES ASSUME RInv, proc = "mounted"
                 PROVE  /\ \A r, q \in References : r # q => Target(r) # Target(q)
                        /\ \A r \in References : Target(r) \in bitmap \ (0 .. Reserved - 1)
                        /\ \A t \in Tables : contents[t].kind = "table"
      BY DEF BlocksOwned, FInv
    <2>1. PagesDistinct /\ TablesDistinct /\ PointersMarked
      BY DEF RInv, OInv, Owned
    <2>2. ASSUME NEW r \in References, NEW q \in References, Target(r) = Target(q)
          PROVE  r = q
      BY <2>1, <2>2, ReferenceIs DEF PagesDistinct, TablesDistinct
    <2>3. ASSUME NEW r \in References
          PROVE  Target(r) \in bitmap \ (0 .. Reserved - 1)
      BY <2>1, ReferenceIs DEF PointersMarked
    <2>4. ASSUME NEW t \in Tables
          PROVE  contents[t].kind = "table"
      BY <2>1 DEF Tables, PointersMarked, TablePages
    <2> QED BY <2>2, <2>3, <2>4
  <1> QED BY <1>1, FileMapInductive, PTL

\* A file reads back what was written to it last, at every index the two
\* halves of inode.c agree on, until the disk has run full once or the journal
\* executes again an entry that later calls have overtaken, for any number of
\* files, pages and journal entries: nbtrfs_read finds the page nbtrfs_write
\* filled, whatever other files did between and whatever other entry was executed
\* again in the middle of the write.
THEOREM FilesReadBack == Spec => []ReadsBack
  <1>1. FInv => ReadsBack
    <2> SUFFICES ASSUME RInv, proc = "mounted", op = Idle, ~ran_out,
                        NEW f \in Inodes, NEW i \in Indices, i < Ptrs, shadow[f][i] # None
                 PROVE  nbtrfs_read(f, i) = shadow[f][i]
      BY DEF ReadsBack, FInv
    <2>1. /\ inode_get_block(f, i) # Null
          /\ contents[inode_get_block(f, i)] = DataPage(shadow[f][i])
          /\ i < inode[f].size
      BY OpIs DEF RInv, Kept, WrittenKept, Cutting
    <2> QED BY <2>1 DEF nbtrfs_read, DataPage
  <1> QED BY <1>1, FileMapInductive, PTL

=============================================================================
