-------------------------- MODULE BlockCacheProofs --------------------------
(***************************************************************************)
(* The block cache keeps its indexes and lists consistent, for any number  *)
(* of blocks, slots, inodes, pages and buckets and without the bounds of   *)
(* the model-checked instances.                                            *)
(***************************************************************************)
EXTENDS BlockCache, WellFoundedInduction, TLAPS

-----------------------------------------------------------------------------
(***************************************************************************)
(* Facts about the linked lists of the cache, as sequences: pushing in     *)
(* front (lru_push, gdl_push, fl_push) and unlinking one node (lru_pop,    *)
(* gdl_pop, pci_delete).                                                   *)
(***************************************************************************)
\* Unlinking the node at position i shifts the later nodes by one.
LEMMA RemoveAtIs ==
    ASSUME NEW S, NEW q \in Seq(S), NEW i \in 1 .. Len(q)
    PROVE  /\ RemoveAt(q, i) \in Seq(S)
           /\ Len(RemoveAt(q, i)) = Len(q) - 1
           /\ \A j \in 1 .. Len(q) - 1 : RemoveAt(q, i)[j] = IF j < i THEN q[j] ELSE q[j + 1]
  <1> DEFINE a == SubSeq(q, 1, i - 1)
             z == SubSeq(q, i + 1, Len(q))
  <1>1. a \in Seq(S) /\ Len(a) = i - 1 /\ \A j \in 1 .. i - 1 : a[j] = q[j]
    OBVIOUS
  <1>2. z \in Seq(S) /\ Len(z) = Len(q) - i /\ \A j \in 1 .. Len(q) - i : z[j] = q[i + j]
    OBVIOUS
  <1>3. RemoveAt(q, i) = a \o z
    BY DEF RemoveAt
  <1> HIDE DEF a, z
  <1>4. a \o z \in Seq(S) /\ Len(a \o z) = Len(q) - 1
    <2>1. Len(a) + Len(z) = Len(q) - 1
      BY <1>1, <1>2
    <2>2. a \in Seq(S) /\ z \in Seq(S)
      BY <1>1, <1>2
    <2>3. a \o z \in Seq(S)
      BY <2>2
    <2>4. Len(a \o z) = Len(a) + Len(z)
      BY <2>2
    <2> QED BY <2>1, <2>3, <2>4
  <1>5. ASSUME NEW j \in 1 .. Len(q) - 1
        PROVE  (a \o z)[j] = IF j < i THEN q[j] ELSE q[j + 1]
    <2>1. CASE j < i
      BY <2>1, <1>1, <1>2
    <2>2. CASE ~(j < i)
      <3>1. (a \o z)[j] = z[j - (i - 1)]
        BY <2>2, <1>1, <1>2
      <3>2. j - (i - 1) \in 1 .. Len(q) - i /\ i + (j - (i - 1)) = j + 1
        BY <2>2
      <3> QED BY <3>1, <3>2, <1>2, <2>2
    <2> QED BY <2>1, <2>2
  <1> QED BY <1>3, <1>4, <1>5

\* Pushing in front shifts every node by one.
LEMMA PushIs ==
    ASSUME NEW S, NEW q \in Seq(S), NEW s \in S
    PROVE  /\ <<s>> \o q \in Seq(S)
           /\ Len(<<s>> \o q) = Len(q) + 1
           /\ (<<s>> \o q)[1] = s
           /\ \A j \in 1 .. Len(q) : (<<s>> \o q)[j + 1] = q[j]
  OBVIOUS

\* A list that names a slot once no longer names it once it is unlinked.
LEMMA RemoveAtRange ==
    ASSUME NEW S, NEW q \in Seq(S), NEW i \in 1 .. Len(q), IsInjective(q)
    PROVE  /\ IsInjective(RemoveAt(q, i))
           /\ Range(RemoveAt(q, i)) = Range(q) \ {q[i]}
  <1> DEFINE r == RemoveAt(q, i)
  <1>0. /\ r \in Seq(S) /\ Len(r) = Len(q) - 1
        /\ \A j \in 1 .. Len(q) - 1 : r[j] = IF j < i THEN q[j] ELSE q[j + 1]
    BY RemoveAtIs
  <1> HIDE DEF r
  <1>1. IsInjective(r)
    <2>1. ASSUME NEW a \in 1 .. Len(q) - 1, NEW c \in 1 .. Len(q) - 1, r[a] = r[c]
          PROVE  a = c
      <3>0. a \in DOMAIN q /\ a + 1 \in DOMAIN q /\ c \in DOMAIN q /\ c + 1 \in DOMAIN q
        OBVIOUS
      <3>1. CASE a < i /\ c < i
        BY <2>1, <3>0, <3>1, <1>0 DEF IsInjective
      <3>2. CASE a < i /\ ~(c < i)
        <4>1. q[a] = q[c + 1]
          BY <2>1, <3>2, <1>0
        <4>2. a = c + 1
          BY <3>0, <4>1 DEF IsInjective
        <4> QED BY <4>2, <3>2
      <3>3. CASE ~(a < i) /\ c < i
        <4>1. q[a + 1] = q[c]
          BY <2>1, <3>3, <1>0
        <4>2. a + 1 = c
          BY <3>0, <4>1 DEF IsInjective
        <4> QED BY <4>2, <3>3
      <3>4. CASE ~(a < i) /\ ~(c < i)
        <4>1. q[a + 1] = q[c + 1]
          BY <2>1, <3>4, <1>0
        <4>2. a + 1 = c + 1
          BY <3>0, <4>1 DEF IsInjective
        <4> QED BY <4>2
      <3> QED BY <3>1, <3>2, <3>3, <3>4
    <2> QED BY <2>1, <1>0 DEF IsInjective
  <1>2. ASSUME NEW x \in Range(r) PROVE x \in Range(q) \ {q[i]}
    <2>1. PICK j \in 1 .. Len(q) - 1 : x = r[j]
      BY <1>0 DEF Range
    <2>2. CASE j < i
      <3>1. j \in DOMAIN q /\ i \in DOMAIN q /\ x = q[j] /\ j # i
        BY <2>1, <2>2, <1>0
      <3> QED BY <3>1 DEF Range, IsInjective
    <2>3. CASE ~(j < i)
      <3>1. j + 1 \in DOMAIN q /\ i \in DOMAIN q /\ x = q[j + 1] /\ j + 1 # i
        BY <2>1, <2>3, <1>0
      <3> QED BY <3>1 DEF Range, IsInjective
    <2> QED BY <2>2, <2>3
  <1>3. ASSUME NEW x \in Range(q), x # q[i] PROVE x \in Range(r)
    <2>1. PICK j \in 1 .. Len(q) : x = q[j]
      BY DEF Range
    <2>2. CASE j < i
      <3>1. j \in DOMAIN r /\ r[j] = x
        BY <2>1, <2>2, <1>0
      <3> QED BY <3>1 DEF Range
    <2>3. CASE j > i
      <3>1. (j - 1) \in DOMAIN r /\ r[j - 1] = x
        BY <2>1, <2>3, <1>0
      <3> QED BY <3>1 DEF Range
    <2> QED BY <2>1, <2>2, <2>3, <1>3
  <1> QED BY <1>1, <1>2, <1>3 DEF r

\* Unlinking one node leaves every other value in the list, and adds none.
LEMMA RemoveAtKeeps ==
    ASSUME NEW S, NEW q \in Seq(S), NEW i \in 1 .. Len(q)
    PROVE  /\ Range(q) \ {q[i]} \subseteq Range(RemoveAt(q, i))
           /\ Range(RemoveAt(q, i)) \subseteq Range(q)
  <1> DEFINE r == RemoveAt(q, i)
  <1>0. /\ r \in Seq(S) /\ Len(r) = Len(q) - 1
        /\ \A j \in 1 .. Len(q) - 1 : r[j] = IF j < i THEN q[j] ELSE q[j + 1]
    BY RemoveAtIs
  <1> HIDE DEF r
  <1>2. ASSUME NEW x \in Range(r) PROVE x \in Range(q)
    <2>1. PICK j \in 1 .. Len(q) - 1 : x = r[j]
      BY <1>0 DEF Range
    <2> QED BY <2>1, <1>0 DEF Range
  <1>3. ASSUME NEW x \in Range(q), x # q[i] PROVE x \in Range(r)
    <2>1. PICK j \in 1 .. Len(q) : x = q[j]
      BY DEF Range
    <2>2. CASE j < i
      <3>1. j \in DOMAIN r /\ r[j] = x
        BY <2>1, <2>2, <1>0
      <3> QED BY <3>1 DEF Range
    <2>3. CASE j > i
      <3>1. (j - 1) \in DOMAIN r /\ r[j - 1] = x
        BY <2>1, <2>3, <1>0
      <3> QED BY <3>1 DEF Range
    <2> QED BY <2>1, <2>2, <2>3, <1>3
  <1> QED BY <1>2, <1>3 DEF r

\* Pushing adds exactly the pushed value.
LEMMA PushRange ==
    ASSUME NEW S, NEW q \in Seq(S), NEW s \in S
    PROVE  /\ Range(<<s>> \o q) = Range(q) \cup {s}
           /\ IsInjective(q) /\ s \notin Range(q) => IsInjective(<<s>> \o q)
  <1> DEFINE r == <<s>> \o q
  <1>0. /\ r \in Seq(S) /\ Len(r) = Len(q) + 1
        /\ r[1] = s
        /\ \A j \in 1 .. Len(q) : r[j + 1] = q[j]
    BY PushIs
  <1> HIDE DEF r
  <1>1. ASSUME NEW x \in Range(r) PROVE x \in Range(q) \cup {s}
    <2>1. PICK j \in 1 .. Len(q) + 1 : x = r[j]
      BY <1>0 DEF Range
    <2>2. CASE j = 1
      BY <2>1, <2>2, <1>0
    <2>3. CASE j # 1
      <3>1. (j - 1) \in 1 .. Len(q) /\ (j - 1) + 1 = j
        BY <2>3
      <3>2. x = q[j - 1]
        BY <3>1, <2>1, <1>0
      <3> QED BY <3>1, <3>2 DEF Range
    <2> QED BY <2>2, <2>3
  <1>2. ASSUME NEW x \in Range(q) PROVE x \in Range(r)
    <2>1. PICK j \in 1 .. Len(q) : x = q[j]
      BY DEF Range
    <2>2. (j + 1) \in DOMAIN r /\ r[j + 1] = x
      BY <2>1, <1>0
    <2> QED BY <2>2 DEF Range
  <1>3. s \in Range(r)
    BY <1>0 DEF Range
  <1>4. ASSUME IsInjective(q), s \notin Range(q),
               NEW a \in 1 .. Len(q) + 1, NEW c \in 1 .. Len(q) + 1, r[a] = r[c]
        PROVE  a = c
    <2>1. \A j \in 1 .. Len(q) + 1 : j # 1 => r[j] = q[j - 1] /\ j - 1 \in 1 .. Len(q)
      <3> TAKE j \in 1 .. Len(q) + 1
      <3> HAVE j # 1
      <3>1. (j - 1) \in 1 .. Len(q) /\ (j - 1) + 1 = j
        OBVIOUS
      <3> QED BY <3>1, <1>0
    <2>2. \A j \in 1 .. Len(q) : q[j] # s
      BY <1>4 DEF Range
    <2>3. CASE a = 1 \/ c = 1
      BY <2>1, <2>2, <2>3, <1>0, <1>4
    <2>4. CASE a # 1 /\ c # 1
      BY <2>1, <2>4, <1>4 DEF IsInjective
    <2> QED BY <2>3, <2>4
  <1>5. IsInjective(q) /\ s \notin Range(q) => IsInjective(r)
    BY <1>0, <1>4 DEF IsInjective
  <1> QED BY <1>1, <1>2, <1>3, <1>5 DEF r

\* Popping the head of a list without repetitions (fl_pop).
LEMMA TailRange ==
    ASSUME NEW S, NEW q \in Seq(S), q # <<>>, IsInjective(q)
    PROVE  /\ Tail(q) \in Seq(S)
           /\ Head(q) \in Range(q)
           /\ IsInjective(Tail(q))
           /\ Range(Tail(q)) = Range(q) \ {Head(q)}
  <1> DEFINE r == Tail(q)
  <1>0. /\ r \in Seq(S) /\ Len(r) = Len(q) - 1
        /\ \A j \in 1 .. Len(q) - 1 : r[j] = q[j + 1]
        /\ Head(q) = q[1] /\ 1 \in 1 .. Len(q)
    OBVIOUS
  <1> HIDE DEF r
  <1>1. IsInjective(r)
    BY <1>0 DEF IsInjective
  <1>2. ASSUME NEW x \in Range(r) PROVE x \in Range(q) \ {Head(q)}
    <2>1. PICK j \in 1 .. Len(q) - 1 : x = r[j]
      BY <1>0 DEF Range
    <2> QED BY <2>1, <1>0 DEF Range, IsInjective
  <1>3. ASSUME NEW x \in Range(q), x # Head(q) PROVE x \in Range(r)
    <2>1. PICK j \in 1 .. Len(q) : x = q[j]
      BY DEF Range
    <2>2. j # 1
      BY <2>1, <1>0, <1>3
    <2>3. (j - 1) \in DOMAIN r /\ r[j - 1] = x
      BY <2>1, <2>2, <1>0
    <2> QED BY <2>3 DEF Range
  <1>4. Head(q) \in Range(q)
    BY <1>0 DEF Range
  <1> QED BY <1>0, <1>1, <1>2, <1>3, <1>4 DEF r

-----------------------------------------------------------------------------
(***************************************************************************)
(* The inductive invariant.                                                *)
(***************************************************************************)
\* A slot in use has a page, and the inode that loaded it.
PagesLoaded == \A s \in InUse : page_data[s] \in Pages /\ inode_number[s] \in Inodes

\* An indexed block is in the chain of its bucket, so pci_delete finds it.
ChainsComplete == \A b \in Blocks : pci[b] # None => b \in Range(pci_chain[Bucket(b)])

\* gdl_pos points into the list, and the pages in use that are dirty have one.
GdlPosValid ==
    /\ \A s \in Slots : gdl_pos[s] = "node" => s \in Range(gdl)
    /\ \A s \in InUse : dirty_bit[s] => gdl_pos[s] = "node"

\* A call that missed and holds the slot it evicted.
Reloading ==
    /\ op.fn \in {"get", "write", "inc", "dec"}
    /\ pci[op.block] = None
    /\ free_list # <<>>

\* GDL nodes name slots in use, or the slot that is being given a new block.
GdlSlots == \A s \in Range(gdl) : s \in InUse \/ (Reloading /\ s = Head(free_list))

\* nbtrfs_destroy runs between calls.
UnmountIdle == proc = "unmounting" => op = Idle

IInv ==
    /\ TypeOK
    /\ SlotsAccounted
    /\ IndexConsistent
    /\ PagesLoaded
    /\ ChainsComplete
    /\ GdlPosValid
    /\ GdlSlots
    /\ FsyncCovers
    /\ UnmountIdle

-----------------------------------------------------------------------------
\* The parameters of a call have their types.
LEMMA CallTypes ==
    ASSUME op \in Calls \cup {Idle}
    PROVE  /\ op.fn \in {"get", "write", "inc", "dec"} =>
                op.block \in Blocks /\ op.inum \in Inodes /\ op # Idle
           /\ op.fn = "write" => op.page \in Pages
           /\ op.fn = "fsync" => op.inum \in Inodes /\ op # Idle
  BY DEF Calls, Idle

\* Every block has a bucket.
LEMMA BucketTypes == \A b \in Blocks : Bucket(b) \in Buckets
  BY BlocksAssumption, SizesAssumption DEF Bucket, Buckets

\* alloc_cache's free list names every slot once.
LEMMA FullFreeListIs ==
    /\ FullFreeList \in Seq(Slots)
    /\ IsInjective(FullFreeList)
    /\ Range(FullFreeList) = Slots
  <1>1. FullFreeList \in Seq(Slots)
    BY SizesAssumption DEF FullFreeList, Slots
  <1>2. IsInjective(FullFreeList)
    BY SizesAssumption DEF FullFreeList, IsInjective
  <1>3. ASSUME NEW s \in Slots PROVE s \in Range(FullFreeList)
    <2>1. CacheSize - s \in 1 .. CacheSize /\ CacheSize - (CacheSize - s) = s
      BY SizesAssumption DEF Slots
    <2> QED BY <2>1 DEF FullFreeList, Range
  <1>4. Range(FullFreeList) \subseteq Slots
    BY SizesAssumption DEF FullFreeList, Range, Slots
  <1> QED BY <1>1, <1>2, <1>3, <1>4

\* A position of a list, and the value there, seen from its range.
LEMMA FirstInIs ==
    ASSUME NEW S, NEW q \in Seq(S), NEW s \in Range(q)
    PROVE  FirstIn(q, s) \in 1 .. Len(q) /\ q[FirstIn(q, s)] = s
  <1> DEFINE R == OpToRel(<, Nat)
             T == {i \in 1 .. Len(q) : q[i] = s}
  <1>1. T \subseteq Nat /\ T # {}
    BY DEF Range
  <1>2. IsWellFoundedOn(R, Nat)
    BY NatLessThanWellFounded
  <1> HIDE DEF R, T
  <1>3. PICK i \in T : \A j \in T : ~(<<j, i>> \in R)
    BY <1>1, <1>2, WFMin
  <1>4. \A j \in T : ~(j < i)
    BY <1>1, <1>3 DEF OpToRel, R
  <1>5. i \in DOMAIN q /\ q[i] = s /\ \A j \in 1 .. i - 1 : q[j] # s
    BY <1>4 DEF T
  <1> QED BY <1>5 DEF FirstIn
-----------------------------------------------------------------------------
\* alloc_cache establishes the invariant.
LEMMA InitInv == Init => IInv
  <1> SUFFICES ASSUME Init PROVE IInv
    OBVIOUS
  <1>1. TypeOK
    BY FullFreeListIs, SizesAssumption DEF Init, TypeOK, Idle, None, Slots, Buckets
  <1>2. InUse = {} /\ Range(gdl) = {}
    BY DEF Init, InUse, Range
  <1>3. SlotsAccounted
    BY <1>2, FullFreeListIs DEF Init, SlotsAccounted, IsInjective
  <1> QED
    BY <1>1, <1>2, <1>3
    DEF IInv, Init, IndexConsistent, PagesLoaded, ChainsComplete, GdlPosValid, GdlSlots,
        FsyncCovers, UnmountIdle

\* The end of the process leaves the cache as alloc_cache will make it.
LEMMA GoneInv ==
    ASSUME IInv, CacheGone, proc' \in {"unmounted", "killed"}
    PROVE  IInv'
  <1>1. TypeOK'
    BY FullFreeListIs, SizesAssumption DEF IInv, CacheGone, TypeOK, Idle, None, Slots, Buckets
  <1>2. InUse' = {} /\ Range(gdl)' = {}
    BY DEF CacheGone, InUse, Range
  <1>3. SlotsAccounted'
    BY <1>2, FullFreeListIs DEF CacheGone, SlotsAccounted, IsInjective
  <1> QED
    BY <1>1, <1>2, <1>3
    DEF IInv, CacheGone, IndexConsistent, PagesLoaded, ChainsComplete, GdlPosValid, GdlSlots,
        FsyncCovers, UnmountIdle

\* The parts of the state that mounting, calling, returning and pinning leave alone.
cacheVars == <<dirty_bit, block_number, inode_number, gdl_pos, indexVars, lru, free_list, gdl>>

\* A step that changes none of the cache's lists and indexes: it keeps the
\* invariant when the page contents and the call stay well-formed.
LEMMA QuietInv ==
    ASSUME IInv, TypeOK', UNCHANGED <<cacheVars, dirty_list, unsynced>>,
           PagesLoaded', GdlSlots', UnmountIdle'
    PROVE  IInv'
  <1>1. InUse' = InUse
    BY DEF cacheVars, InUse
  <1> QED
    BY <1>1
    DEF IInv, cacheVars, indexVars, SlotsAccounted, IndexConsistent, ChainsComplete, GdlPosValid, FsyncCovers

\* Mounting, unmounting, entering and leaving a call.
LEMMA ControlInv ==
    ASSUME IInv, Mount \/ Unmount \/ FsyncReturn \/ \E c \in Calls : Call(c)
    PROVE  IInv'
  <1> USE DEF IInv
  <1>1. TypeOK'
    BY DEF TypeOK, Mount, Unmount, FsyncReturn, Call, slotVars, indexVars
  <1>2. UNCHANGED <<cacheVars, dirty_list, unsynced>> /\ UNCHANGED page_data
    BY DEF Mount, Unmount, FsyncReturn, Call, slotVars, indexVars, cacheVars
  <1>3. InUse' = InUse
    BY <1>2 DEF cacheVars, InUse
  <1>4. PagesLoaded'
    BY <1>2, <1>3 DEF PagesLoaded, cacheVars
  <1>5. GdlSlots'
    <2>1. CASE UNCHANGED op
      BY <2>1, <1>2, <1>3 DEF GdlSlots, Reloading, cacheVars, indexVars
    <2>2. CASE op = Idle \/ op.fn = "fsync"
      BY <2>2, <1>2, <1>3 DEF GdlSlots, Reloading, cacheVars, Idle
    <2> QED
      BY <2>1, <2>2 DEF Mount, Unmount, FsyncReturn, Call
  <1>6. UnmountIdle'
    BY DEF UnmountIdle, Mount, Unmount, FsyncReturn, Call
  <1> QED
    BY <1>1, <1>2, <1>4, <1>5, <1>6, QuietInv

\* Pins and callers' accesses to the page.
LEMMA PageInv ==
    ASSUME IInv,
           IncreasePin \/ DecreasePin \/ \E b \in Blocks : Through(b) \/ \E p \in Pages : Poke(b, p)
    PROVE  IInv'
  <1> USE DEF IInv
  <1>0. /\ UNCHANGED <<cacheVars, dirty_list, unsynced, proc>>
        /\ op' = op \/ op' = Idle
        /\ proc = "mounted"
        /\ pin_count' = pin_count \/ (IncreasePin \/ DecreasePin)
    BY DEF IncreasePin, DecreasePin, Through, Poke, cacheVars, slotVars, indexVars, Hit
  <1>1. TypeOK'
    <2>1. CASE IncreasePin
      BY <2>1, CallTypes DEF TypeOK, IncreasePin, indexVars, Hit
    <2>2. CASE DecreasePin
      BY <2>2, CallTypes DEF TypeOK, DecreasePin, indexVars, Hit
    <2>3. ASSUME NEW b \in Blocks, Through(b) PROVE TypeOK'
      <3>1. page_data[pci[b]] \in Pages
        BY <2>3 DEF Through, IndexConsistent, PagesLoaded
      <3> QED BY <2>3, <3>1 DEF TypeOK, Through, slotVars, indexVars
    <2>4. ASSUME NEW b \in Blocks, NEW p \in Pages, Poke(b, p) PROVE TypeOK'
      BY <2>4 DEF TypeOK, Poke, indexVars
    <2> QED BY <2>1, <2>2, <2>3, <2>4
  <1>3. InUse' = InUse
    BY <1>0 DEF cacheVars, InUse
  <1>4. PagesLoaded'
    <2>1. \A s \in InUse : s \in Slots
      BY DEF InUse, Range, TypeOK
    <2>2. CASE UNCHANGED page_data
      BY <2>2, <1>0, <1>3 DEF PagesLoaded, cacheVars
    <2>3. ASSUME NEW b \in Blocks, NEW p \in Pages, Poke(b, p) PROVE PagesLoaded'
      BY <2>1, <2>3, <1>0, <1>3 DEF PagesLoaded, TypeOK, cacheVars, Poke
    <2> QED BY <2>2, <2>3 DEF IncreasePin, DecreasePin, Through, slotVars
  <1>5. GdlSlots'
    BY <1>0, <1>3 DEF GdlSlots, Reloading, cacheVars, indexVars, Idle, IncreasePin, DecreasePin, Through, Poke, Hit
  <1>6. UnmountIdle'
    BY <1>0 DEF UnmountIdle
  <1> QED
    BY <1>0, <1>1, <1>4, <1>5, <1>6, QuietInv

-----------------------------------------------------------------------------
\* What the invariant says of a slot in use, and of a position in the lists.
LEMMA InUseIs ==
    ASSUME IInv
    PROVE  /\ \A s \in InUse : s \in Slots /\ s # None /\ block_number[s] \in Blocks /\ pci[block_number[s]] = s
           /\ \A i \in DOMAIN lru : i \in 1 .. Len(lru) /\ lru[i] \in InUse
           /\ \A i \in DOMAIN gdl : gdl[i] \in Slots /\ gdl[i] \in Range(gdl)
           /\ \A b \in Blocks : pci[b] # None => pci[b] \in InUse
  <1>1. lru \in Seq(Slots) /\ gdl \in Seq(Slots) /\ IndexConsistent
    BY DEF IInv, TypeOK
  <1>2. \A s \in Slots : s # None
    BY SizesAssumption DEF Slots, None
  <1>3. InUse \subseteq Slots
    BY <1>1 DEF InUse, Range
  <1>4. \A i \in DOMAIN lru : i \in 1 .. Len(lru) /\ lru[i] \in InUse
    BY <1>1 DEF InUse, Range
  <1>5. \A i \in DOMAIN gdl : gdl[i] \in Slots /\ gdl[i] \in Range(gdl)
    BY <1>1 DEF Range
  <1> QED
    BY <1>1, <1>2, <1>3, <1>4, <1>5 DEF IndexConsistent

\* A slot pushed onto a list that does not name it.
LEMMA PushFresh ==
    ASSUME NEW q \in Seq(Slots), IsInjective(q), NEW s \in Slots, s \notin Range(q), lru' = <<s>> \o q
    PROVE  lru' \in Seq(Slots) /\ IsInjective(lru') /\ InUse' = Range(q) \cup {s}
  <1>1. <<s>> \o q \in Seq(Slots)
    BY PushIs
  <1>2. Range(<<s>> \o q) = Range(q) \cup {s} /\ IsInjective(<<s>> \o q)
    BY PushRange
  <1> QED BY <1>1, <1>2 DEF InUse

\* get_block on a hit keeps the slots of the LRU list.
LEMMA GetHitInv == ASSUME IInv, GetHit PROVE IInv'
  <1> USE DEF IInv
  <1>1. PICK i \in DOMAIN lru : lru[i] = pci[op.block] /\ lru' = <<lru[i]>> \o RemoveAt(lru, i)
    BY DEF GetHit, Push
  <1>2. i \in 1 .. Len(lru) /\ lru[i] \in Slots /\ lru[i] \in InUse
    BY InUseIs
  <1>3. /\ RemoveAt(lru, i) \in Seq(Slots)
        /\ IsInjective(RemoveAt(lru, i))
        /\ Range(RemoveAt(lru, i)) = InUse \ {lru[i]}
    BY <1>2, RemoveAtIs, RemoveAtRange DEF TypeOK, SlotsAccounted, InUse
  <1>4. lru' \in Seq(Slots) /\ IsInjective(lru') /\ InUse' = InUse
    <2>1. lru[i] \notin Range(RemoveAt(lru, i))
      BY <1>3
    <2>2. lru' \in Seq(Slots) /\ IsInjective(lru') /\ InUse' = Range(RemoveAt(lru, i)) \cup {lru[i]}
      BY <1>1, <1>2, <1>3, <2>1, PushFresh
    <2> QED BY <1>2, <1>3, <2>2
  <1>5. /\ UNCHANGED <<proc, slotVars, indexVars, free_list, dirty_list, gdl, disk, unsynced>>
        /\ op' = Idle /\ pci[op.block] # None
    BY DEF GetHit, Hit
  <1>6. TypeOK'
    BY <1>4, <1>5 DEF TypeOK, slotVars, indexVars
  <1>7. GdlSlots'
    BY <1>4, <1>5 DEF GdlSlots, Reloading
  <1> QED
    BY <1>4, <1>5, <1>6, <1>7
    DEF slotVars, indexVars, SlotsAccounted, IndexConsistent, PagesLoaded, ChainsComplete, GdlPosValid,
        FsyncCovers, UnmountIdle

\* get_block on a miss gives the head of the free list to the block.
LEMMA LoadInv == ASSUME IInv, Load PROVE IInv'
  <1> USE DEF IInv
  <1> DEFINE s == Head(free_list)
             b == op.block
  <1>1. /\ b \in Blocks /\ op.inum \in Inodes /\ pci[b] = None
        /\ disk[b] \in Pages /\ free_list # <<>> /\ proc = "mounted"
    BY CallTypes DEF Load, Miss, TypeOK
  <1>2. /\ s \in Slots /\ s \notin InUse /\ s # None
        /\ Tail(free_list) \in Seq(Slots) /\ IsInjective(Tail(free_list))
        /\ Range(Tail(free_list)) = Range(free_list) \ {s}
    BY <1>1, TailRange, SizesAssumption DEF TypeOK, SlotsAccounted, Slots, None
  <1>3. /\ free_list' = Tail(free_list)
        /\ dirty_bit' = [dirty_bit EXCEPT ![s] = FALSE]
        /\ pin_count' = [pin_count EXCEPT ![s] = 0]
        /\ block_number' = [block_number EXCEPT ![s] = b]
        /\ inode_number' = [inode_number EXCEPT ![s] = op.inum]
        /\ page_data' = [page_data EXCEPT ![s] = disk[b]]
        /\ lru' = <<s>> \o lru
        /\ pci' = [pci EXCEPT ![b] = s]
        /\ pci_chain' = [pci_chain EXCEPT ![Bucket(b)] = <<b>> \o @]
        /\ op' = op \/ op' = Idle
        /\ UNCHANGED <<proc, gdl_pos, dirty_list, gdl, disk, unsynced>>
    BY DEF Load, Push, pci_insert
  <1> HIDE DEF s, b
  <1>4. lru' \in Seq(Slots) /\ IsInjective(lru') /\ InUse' = InUse \cup {s}
    BY <1>2, <1>3, PushFresh DEF TypeOK, SlotsAccounted, InUse
  <1>5. \A h \in Buckets : pci_chain[h] \in Seq(Blocks)
    BY DEF TypeOK
  <1>6. <<b>> \o pci_chain[Bucket(b)] \in Seq(Blocks)
        /\ Range(<<b>> \o pci_chain[Bucket(b)]) = Range(pci_chain[Bucket(b)]) \cup {b}
    BY <1>1, <1>5, BucketTypes, PushIs, PushRange
  <1>7. TypeOK'
    <2>1. pci_chain' \in [Buckets -> Seq(Blocks)]
      BY <1>1, <1>3, <1>5, <1>6, BucketTypes DEF TypeOK
    <2>2. op' \in Calls \cup {Idle} /\ proc' \in {"unmounted", "killed", "mounted", "unmounting"} \cup Faults
      BY <1>3 DEF TypeOK
    <2>3. /\ dirty_bit' \in [Slots -> BOOLEAN] /\ pin_count' \in [Slots -> Nat]
          /\ block_number' \in [Slots -> Blocks \cup {None}]
          /\ inode_number' \in [Slots -> Inodes \cup {None}]
          /\ page_data' \in [Slots -> Pages \cup {NoPage}]
          /\ pci' \in [Blocks -> Slots \cup {None}]
      BY <1>1, <1>2, <1>3 DEF TypeOK
    <2> QED BY <1>2, <1>3, <1>4, <2>1, <2>2, <2>3 DEF TypeOK
  <1>8. SlotsAccounted'
    BY <1>2, <1>3, <1>4 DEF SlotsAccounted
  <1>9. IndexConsistent'
    BY <1>1, <1>2, <1>3, <1>4, InUseIs DEF IndexConsistent, TypeOK
  <1>10. PagesLoaded'
    BY <1>1, <1>2, <1>3, <1>4, InUseIs DEF PagesLoaded, TypeOK
  <1>11. ChainsComplete'
    BY <1>1, <1>3, <1>6, BucketTypes DEF ChainsComplete, TypeOK
  <1>12. GdlPosValid'
    BY <1>1, <1>2, <1>3, <1>4, InUseIs DEF GdlPosValid, TypeOK
  <1>13. GdlSlots'
    BY <1>3, <1>4 DEF GdlSlots, s
  <1>14. FsyncCovers'
    BY <1>1, <1>2, <1>3, InUseIs DEF FsyncCovers, TypeOK
  <1>15. UnmountIdle'
    BY <1>1, <1>3 DEF UnmountIdle
  <1> QED BY <1>7, <1>8, <1>9, <1>10, <1>11, <1>12, <1>13, <1>14, <1>15

\* dl_insert and dl_remove_block touch one block of one inode's list.
LEMMA DirtyListIs ==
    ASSUME NEW f \in [Inodes -> SUBSET Blocks], NEW k \in Inodes, NEW b \in Blocks
    PROVE  /\ [f EXCEPT ![k] = @ \cup {b}] \in [Inodes -> SUBSET Blocks]
           /\ [f EXCEPT ![k] = @ \ {b}] \in [Inodes -> SUBSET Blocks]
           /\ \A j \in Inodes : [f EXCEPT ![k] = @ \cup {b}][j] = IF j = k THEN f[j] \cup {b} ELSE f[j]
           /\ \A j \in Inodes : f[j] \ {b} \subseteq [f EXCEPT ![k] = @ \ {b}][j]
  <1>1. f[k] \cup {b} \in SUBSET Blocks /\ f[k] \ {b} \in SUBSET Blocks
    OBVIOUS
  <1>2. [f EXCEPT ![k] = f[k] \cup {b}] \in [Inodes -> SUBSET Blocks]
    BY <1>1
  <1>3. [f EXCEPT ![k] = f[k] \ {b}] \in [Inodes -> SUBSET Blocks]
    BY <1>1
  <1>4. \A j \in Inodes : [f EXCEPT ![k] = f[k] \cup {b}][j] = IF j = k THEN f[j] \cup {b} ELSE f[j]
    OBVIOUS
  <1>5. \A j \in Inodes : [f EXCEPT ![k] = f[k] \ {b}][j] = IF j = k THEN f[j] \ {b} ELSE f[j]
    OBVIOUS
  <1>6. \A j \in Inodes : f[j] \ {b} \subseteq [f EXCEPT ![k] = f[k] \ {b}][j]
    BY <1>5
  <1> QED BY <1>2, <1>3, <1>4, <1>6

\* gdl_pop takes at most a node of the slot itself out of the list.
LEMMA GdlPopIs ==
    ASSUME IInv, NEW s \in Slots
    PROVE  /\ gdl_pop(s) \in Seq(Slots)
           /\ Range(gdl) \ {s} \subseteq Range(gdl_pop(s))
           /\ Range(gdl_pop(s)) \subseteq Range(gdl)
  <1>0. gdl \in Seq(Slots)
    BY DEF IInv, TypeOK
  <1>1. CASE gdl_pos[s] = "node"
    <2>1. s \in Range(gdl)
      BY <1>1 DEF IInv, GdlPosValid
    <2>2. FirstIn(gdl, s) \in 1 .. Len(gdl) /\ gdl[FirstIn(gdl, s)] = s
      BY <1>0, <2>1, FirstInIs
    <2>3. gdl_pop(s) = RemoveAt(gdl, FirstIn(gdl, s))
      BY <1>1 DEF gdl_pop
    <2>4. RemoveAt(gdl, FirstIn(gdl, s)) \in Seq(Slots)
      BY <1>0, <2>2, RemoveAtIs
    <2>5. /\ Range(gdl) \ {gdl[FirstIn(gdl, s)]} \subseteq Range(RemoveAt(gdl, FirstIn(gdl, s)))
          /\ Range(RemoveAt(gdl, FirstIn(gdl, s))) \subseteq Range(gdl)
      BY <1>0, <2>2, RemoveAtKeeps
    <2> QED BY <2>2, <2>3, <2>4, <2>5
  <1>2. CASE gdl_pos[s] # "node"
    BY <1>0, <1>2 DEF gdl_pop
  <1> QED BY <1>1, <1>2

\* An eviction takes the victim out of the LRU list, the index and, when it is
\* dirty, out of the dirty lists, and puts it on the free list.
LEMMA EvictInv == ASSUME IInv, NEW i \in DOMAIN lru, Evict(i) PROVE IInv'
  <1> USE DEF IInv
  <1> DEFINE s == lru[i]
             b == block_number[lru[i]]
  <1>1. /\ i \in 1 .. Len(lru) /\ s \in InUse /\ s \in Slots /\ s # None
        /\ b \in Blocks /\ pci[b] = s
        /\ page_data[s] \in Pages /\ inode_number[s] \in Inodes
    BY InUseIs DEF PagesLoaded
  <1>2. /\ lru' = RemoveAt(lru, i)
        /\ pci' = [pci EXCEPT ![b] = None]
        /\ pci_chain' = [pci_chain EXCEPT ![Bucket(b)] = RemoveAt(@, FirstIn(@, b))]
        /\ free_list = <<>> /\ free_list' = <<s>>
        /\ UNCHANGED <<proc, op, dirty_bit, pin_count, block_number, inode_number, page_data>>
        /\ proc = "mounted" /\ op.fn \in {"get", "write", "inc", "dec"} /\ pci[op.block] = None
    BY DEF Evict, Miss, pci_delete, Push
  <1>3. \/ /\ dirty_bit[s]
           /\ disk' = [disk EXCEPT ![b] = page_data[s]]
           /\ unsynced' = [k \in Inodes |-> unsynced[k] \ {b}]
           /\ \/ dirty_list' = dirty_list
              \/ dirty_list' = [dirty_list EXCEPT ![inode_number[s]] = @ \ {b}]
           /\ gdl' = gdl_pop(s)
           /\ gdl_pos' = [gdl_pos EXCEPT ![s] = "null"]
        \/ /\ ~dirty_bit[s]
           /\ UNCHANGED <<disk, unsynced, dirty_list, gdl, gdl_pos>>
    BY DEF Evict, disk_write_block, WrittenBack, dl_remove_block
  <1>4. op.block \in Blocks
    BY <1>2, CallTypes DEF TypeOK
  <1> HIDE DEF s, b
  <1>40. /\ dirty_list' \in [Inodes -> SUBSET Blocks]
         /\ \A j \in Inodes : dirty_list[j] \ {b} \subseteq dirty_list'[j]
    <2>1. dirty_list \in [Inodes -> SUBSET Blocks]
      BY DEF TypeOK
    <2>2. \/ dirty_list' = dirty_list
          \/ dirty_list' = [dirty_list EXCEPT ![inode_number[s]] = @ \ {b}]
      BY <1>3
    <2>3. CASE dirty_list' = dirty_list
      BY <2>1, <2>3
    <2>4. CASE dirty_list' = [dirty_list EXCEPT ![inode_number[s]] = @ \ {b}]
      BY <1>1, <2>1, <2>4, DirtyListIs
    <2> QED BY <2>2, <2>3, <2>4
  <1>5. lru' \in Seq(Slots) /\ IsInjective(lru') /\ InUse' = InUse \ {s}
    BY <1>1, <1>2, RemoveAtIs, RemoveAtRange DEF TypeOK, SlotsAccounted, InUse, s
  <1>6. /\ gdl' \in Seq(Slots)
        /\ Range(gdl) \ {s} \subseteq Range(gdl')
        /\ Range(gdl') \subseteq Range(gdl)
    BY <1>1, <1>3, GdlPopIs DEF TypeOK
  <1>7. /\ pci_chain'[Bucket(b)] \in Seq(Blocks)
        /\ Range(pci_chain[Bucket(b)]) \ {b} \subseteq Range(pci_chain'[Bucket(b)])
    <2> DEFINE q == pci_chain[Bucket(b)]
    <2>1. q \in Seq(Blocks) /\ b \in Range(q) /\ Bucket(b) \in Buckets
      BY <1>1, BucketTypes DEF TypeOK, ChainsComplete
    <2>2. pci_chain'[Bucket(b)] = RemoveAt(q, FirstIn(q, b))
      BY <1>2, <2>1 DEF TypeOK
    <2> HIDE DEF q
    <2>3. FirstIn(q, b) \in 1 .. Len(q) /\ q[FirstIn(q, b)] = b
      BY <2>1, FirstInIs
    <2>4. RemoveAt(q, FirstIn(q, b)) \in Seq(Blocks)
      BY <2>1, <2>3, RemoveAtIs
    <2>5. Range(q) \ {q[FirstIn(q, b)]} \subseteq Range(RemoveAt(q, FirstIn(q, b)))
      BY <2>1, <2>3, RemoveAtKeeps
    <2> QED BY <2>2, <2>3, <2>4, <2>5 DEF q
  <1>8. TypeOK'
    <2>1. pci_chain' \in [Buckets -> Seq(Blocks)]
      BY <1>1, <1>2, <1>7, BucketTypes DEF TypeOK
    <2>2. /\ disk' \in [Blocks -> Pages]
          /\ unsynced' \in [Inodes -> SUBSET Blocks]
          /\ dirty_list' \in [Inodes -> SUBSET Blocks]
          /\ gdl_pos' \in [Slots -> {"unset", "null", "node"}]
          /\ pci' \in [Blocks -> Slots \cup {None}]
      <3>1. disk' \in [Blocks -> Pages]
        BY <1>1, <1>3 DEF TypeOK
      <3>2. unsynced' \in [Inodes -> SUBSET Blocks]
        BY <1>3 DEF TypeOK
      <3>3. dirty_list' \in [Inodes -> SUBSET Blocks]
        BY <1>40
      <3>4. gdl_pos' \in [Slots -> {"unset", "null", "node"}]
        BY <1>1, <1>3 DEF TypeOK
      <3>5. pci' \in [Blocks -> Slots \cup {None}]
        BY <1>1, <1>2 DEF TypeOK
      <3> QED BY <3>1, <3>2, <3>3, <3>4, <3>5
    <2>3. free_list' \in Seq(Slots)
      BY <1>1, <1>2
    <2> QED BY <1>2, <1>5, <1>6, <2>1, <2>2, <2>3 DEF TypeOK
  <1>9. SlotsAccounted'
    <2>1. Range(free_list) = {}
      BY <1>2 DEF Range
    <2>2. IsInjective(<<s>>) /\ Range(<<s>>) = {s}
      BY DEF IsInjective, Range
    <2> QED BY <1>1, <1>2, <1>5, <2>1, <2>2 DEF SlotsAccounted
  <1>10. IndexConsistent'
    BY <1>1, <1>2, <1>5, InUseIs DEF IndexConsistent, TypeOK
  <1>11. PagesLoaded'
    BY <1>2, <1>5 DEF PagesLoaded
  <1>12. ChainsComplete'
    <2> SUFFICES ASSUME NEW c \in Blocks, pci'[c] # None PROVE c \in Range(pci_chain'[Bucket(c)])
      BY DEF ChainsComplete
    <2>1. c # b /\ pci[c] # None
      BY <1>1, <1>2 DEF TypeOK
    <2>2. c \in Range(pci_chain[Bucket(c)])
      BY <2>1 DEF ChainsComplete
    <2>3. CASE Bucket(c) = Bucket(b)
      BY <2>1, <2>2, <2>3, <1>7
    <2>4. CASE Bucket(c) # Bucket(b)
      BY <2>2, <2>4, <1>1, <1>2, BucketTypes DEF TypeOK
    <2> QED BY <2>3, <2>4
  <1>13. GdlPosValid'
    <2>1. CASE dirty_bit[s]
      <3>1. gdl_pos' = [gdl_pos EXCEPT ![s] = "null"] /\ gdl_pos \in [Slots -> {"unset", "null", "node"}]
        BY <1>3, <2>1 DEF TypeOK
      <3>2. \A t \in Slots : gdl_pos'[t] = "node" => t \in Range(gdl')
        BY <1>1, <1>6, <3>1 DEF GdlPosValid
      <3>3. \A t \in InUse' : dirty_bit'[t] => gdl_pos'[t] = "node"
        BY <1>1, <1>2, <1>5, <3>1, InUseIs DEF GdlPosValid
      <3> QED BY <3>2, <3>3 DEF GdlPosValid
    <2>2. CASE ~dirty_bit[s]
      BY <1>2, <1>3, <1>5, <2>2 DEF GdlPosValid
    <2> QED BY <2>1, <2>2
  <1>14. GdlSlots'
    <2>1. \A t \in Range(gdl) : t \in InUse
      BY <1>2 DEF GdlSlots, Reloading
    <2>2. Reloading'
      BY <1>1, <1>2, <1>4 DEF Reloading, TypeOK
    <2> QED BY <1>2, <1>5, <1>6, <2>1, <2>2 DEF GdlSlots
  <1>15. FsyncCovers'
    <2> SUFFICES ASSUME NEW k \in Inodes, NEW c \in unsynced'[k]
                 PROVE  c \in dirty_list'[k] /\ pci'[c] # None /\ dirty_bit'[pci'[c]]
      BY DEF FsyncCovers
    <2>1. c \in Blocks /\ c \in unsynced[k] /\ (dirty_bit[s] => c # b)
      BY <1>3 DEF TypeOK
    <2>2. c \in dirty_list[k] /\ pci[c] # None /\ dirty_bit[pci[c]]
      BY <2>1 DEF FsyncCovers
    <2>3. c # b
      BY <2>1, <2>2, <1>1
    <2>4. c \in dirty_list'[k]
      BY <2>2, <2>3, <1>40
    <2>5. pci'[c] = pci[c] /\ dirty_bit' = dirty_bit
      BY <2>1, <2>3, <1>1, <1>2 DEF TypeOK
    <2> QED BY <2>2, <2>4, <2>5
  <1>16. UnmountIdle'
    BY <1>2 DEF UnmountIdle
  <1> QED BY <1>8, <1>9, <1>10, <1>11, <1>12, <1>13, <1>14, <1>15, <1>16

\* write_block makes the page dirty, lists it, and pushes its GDL nodes.
LEMMA WriteHitInv == ASSUME IInv, WriteHit PROVE IInv'
  <1> USE DEF IInv
  <1> DEFINE s == pci[op.block]
             q == IF dirty_bit[s] THEN gdl ELSE <<s>> \o gdl
  <1>1. /\ op.block \in Blocks /\ op.inum \in Inodes /\ op.page \in Pages
        /\ s # None /\ s \in InUse /\ s \in Slots /\ proc = "mounted"
    BY CallTypes, InUseIs DEF WriteHit, Hit, TypeOK
  <1>2. /\ page_data' = [page_data EXCEPT ![s] = op.page]
        /\ dirty_bit' = [dirty_bit EXCEPT ![s] = TRUE]
        /\ gdl' = <<s>> \o q
        /\ gdl_pos' = [gdl_pos EXCEPT ![s] = "node"]
        /\ op' = Idle
        /\ UNCHANGED <<proc, pin_count, block_number, inode_number, pci, pci_chain, lru, free_list, disk>>
    BY DEF WriteHit, Push, indexVars
  <1>3. \/ /\ dirty_list' = [dirty_list EXCEPT ![op.inum] = @ \cup {op.block}]
           /\ unsynced' = [unsynced EXCEPT ![op.inum] = @ \cup {op.block}]
        \/ UNCHANGED <<dirty_list, unsynced>>
    BY DEF WriteHit, dl_insert
  <1>30. /\ dirty_list' \in [Inodes -> SUBSET Blocks] /\ unsynced' \in [Inodes -> SUBSET Blocks]
         /\ \A j \in Inodes : dirty_list[j] \subseteq dirty_list'[j]
         /\ \A j \in Inodes : \A c \in unsynced'[j] :
                c \in unsynced[j] \/ (c = op.block /\ c \in dirty_list'[j])
    <2>1. dirty_list \in [Inodes -> SUBSET Blocks] /\ unsynced \in [Inodes -> SUBSET Blocks]
      BY DEF TypeOK
    <2>2. CASE UNCHANGED <<dirty_list, unsynced>>
      BY <2>1, <2>2
    <2>3. CASE /\ dirty_list' = [dirty_list EXCEPT ![op.inum] = @ \cup {op.block}]
               /\ unsynced' = [unsynced EXCEPT ![op.inum] = @ \cup {op.block}]
      <3>1. /\ dirty_list' \in [Inodes -> SUBSET Blocks]
            /\ \A j \in Inodes : dirty_list'[j] = IF j = op.inum THEN dirty_list[j] \cup {op.block} ELSE dirty_list[j]
        BY <1>1, <2>1, <2>3, DirtyListIs
      <3>2. /\ unsynced' \in [Inodes -> SUBSET Blocks]
            /\ \A j \in Inodes : unsynced'[j] = IF j = op.inum THEN unsynced[j] \cup {op.block} ELSE unsynced[j]
        BY <1>1, <2>1, <2>3, DirtyListIs
      <3> QED BY <3>1, <3>2
    <2> QED BY <1>3, <2>2, <2>3
  <1>4. gdl' \in Seq(Slots) /\ Range(gdl') = Range(gdl) \cup {s}
    <2>1. gdl \in Seq(Slots)
      BY DEF TypeOK
    <2>2. <<s>> \o gdl \in Seq(Slots) /\ Range(<<s>> \o gdl) = Range(gdl) \cup {s}
      BY <1>1, <2>1, PushIs, PushRange
    <2>3. q \in Seq(Slots) /\ Range(q) \cup {s} = Range(gdl) \cup {s}
      BY <2>1, <2>2
    <2> HIDE DEF q
    <2>4. <<s>> \o q \in Seq(Slots) /\ Range(<<s>> \o q) = Range(q) \cup {s}
      BY <1>1, <2>3, PushIs, PushRange
    <2> QED BY <1>2, <2>3, <2>4
  <1> HIDE DEF s, q
  <1>5. InUse' = InUse
    BY <1>2 DEF InUse
  <1>6. TypeOK'
    <2>1. dirty_list' \in [Inodes -> SUBSET Blocks] /\ unsynced' \in [Inodes -> SUBSET Blocks]
      BY <1>30
    <2>2. /\ page_data' \in [Slots -> Pages \cup {NoPage}]
          /\ dirty_bit' \in [Slots -> BOOLEAN]
          /\ gdl_pos' \in [Slots -> {"unset", "null", "node"}]
      BY <1>1, <1>2 DEF TypeOK
    <2> QED BY <1>2, <1>4, <2>1, <2>2 DEF TypeOK
  <1>7. PagesLoaded'
    BY <1>1, <1>2, <1>5, InUseIs DEF PagesLoaded, TypeOK
  <1>8. GdlPosValid'
    <2>1. gdl_pos \in [Slots -> {"unset", "null", "node"}] /\ dirty_bit \in [Slots -> BOOLEAN]
      BY DEF TypeOK
    <2>2. \A t \in Slots : gdl_pos'[t] = "node" => t \in Range(gdl')
      BY <1>1, <1>2, <1>4, <2>1 DEF GdlPosValid
    <2>3. \A t \in InUse' : dirty_bit'[t] => gdl_pos'[t] = "node"
      BY <1>1, <1>2, <1>5, <2>1, InUseIs DEF GdlPosValid
    <2> QED BY <2>2, <2>3 DEF GdlPosValid
  <1>9. GdlSlots'
    <2>1. ~Reloading
      BY <1>1 DEF Reloading, s
    <2> QED BY <1>1, <1>4, <1>5, <2>1 DEF GdlSlots
  <1>10. FsyncCovers'
    <2> SUFFICES ASSUME NEW k \in Inodes, NEW c \in unsynced'[k]
                 PROVE  c \in dirty_list'[k] /\ pci[c] # None /\ dirty_bit'[pci[c]]
      BY <1>2 DEF FsyncCovers
    <2>1. CASE c = op.block /\ c \in dirty_list'[k]
      BY <2>1, <1>1, <1>2 DEF TypeOK, s
    <2>2. CASE c \in unsynced[k]
      <3>1. c \in Blocks /\ c \in dirty_list[k] /\ pci[c] # None /\ dirty_bit[pci[c]] /\ pci[c] \in Slots
        BY <2>2, InUseIs DEF FsyncCovers, TypeOK
      <3>2. dirty_bit'[pci[c]]
        BY <3>1, <1>1, <1>2 DEF TypeOK
      <3> QED BY <3>1, <3>2, <1>30
    <2> QED BY <2>1, <2>2, <1>30
  <1> QED
    BY <1>1, <1>2, <1>5, <1>6, <1>7, <1>8, <1>9, <1>10
    DEF SlotsAccounted, IndexConsistent, ChainsComplete, UnmountIdle

\* Writing the page of a slot in use back: its block has no unwritten data, and
\* at most one of its GDL nodes and one of its dirty-list entries are gone.
LEMMA WriteBackInv ==
    ASSUME IInv, NEW s \in InUse,
           disk' = [disk EXCEPT ![block_number[s]] = page_data[s]],
           unsynced' = [k \in Inodes |-> unsynced[k] \ {block_number[s]}],
           dirty_bit' = [dirty_bit EXCEPT ![s] = FALSE],
           gdl_pos' = [gdl_pos EXCEPT ![s] = "null"],
           gdl' \in Seq(Slots),
           Range(gdl) \ {s} \subseteq Range(gdl'), Range(gdl') \subseteq Range(gdl),
           NEW k \in Inodes,
           dirty_list' = dirty_list \/ dirty_list' = [dirty_list EXCEPT ![k] = @ \ {block_number[s]}],
           UNCHANGED <<proc, op, pin_count, block_number, inode_number, page_data, pci, pci_chain, lru, free_list>>
    PROVE  IInv'
  <1> USE DEF IInv
  <1>1. InUse' = InUse /\ s \in Slots /\ block_number[s] \in Blocks /\ pci[block_number[s]] = s
        /\ page_data[s] \in Pages
    BY InUseIs DEF InUse, PagesLoaded
  <1>2. TypeOK'
    <2>1. disk' \in [Blocks -> Pages]
      BY <1>1 DEF TypeOK
    <2>2. unsynced' \in [Inodes -> SUBSET Blocks]
      BY DEF TypeOK
    <2>3. dirty_list' \in [Inodes -> SUBSET Blocks]
      BY DEF TypeOK
    <2>4. dirty_bit' \in [Slots -> BOOLEAN] /\ gdl_pos' \in [Slots -> {"unset", "null", "node"}]
      BY <1>1 DEF TypeOK
    <2> QED BY <2>1, <2>2, <2>3, <2>4 DEF TypeOK
  <1>3. GdlPosValid'
    <2>1. gdl_pos \in [Slots -> {"unset", "null", "node"}] /\ dirty_bit \in [Slots -> BOOLEAN]
      BY DEF TypeOK
    <2>2. \A t \in Slots : gdl_pos'[t] = "node" => t \in Range(gdl')
      BY <1>1, <2>1 DEF GdlPosValid
    <2>3. \A t \in InUse' : dirty_bit'[t] => gdl_pos'[t] = "node"
      BY <1>1, <2>1, InUseIs DEF GdlPosValid
    <2> QED BY <2>2, <2>3 DEF GdlPosValid
  <1>4. GdlSlots'
    BY <1>1 DEF GdlSlots, Reloading
  <1>5. FsyncCovers'
    <2> SUFFICES ASSUME NEW j \in Inodes, NEW c \in unsynced'[j]
                 PROVE  c \in dirty_list'[j] /\ pci[c] # None /\ dirty_bit'[pci[c]]
      BY DEF FsyncCovers
    <2>1. c \in unsynced[j] /\ c # block_number[s] /\ c \in Blocks
      BY DEF TypeOK
    <2>2. c \in dirty_list[j] /\ pci[c] # None /\ dirty_bit[pci[c]] /\ pci[c] \in Slots
      BY <2>1, InUseIs DEF FsyncCovers
    <2>3. pci[c] # s
      BY <2>1, <2>2 DEF IndexConsistent
    <2>4. c \in dirty_list'[j]
      BY <2>1, <2>2 DEF TypeOK
    <2>5. dirty_bit'[pci[c]]
      BY <2>2, <2>3 DEF TypeOK
    <2> QED BY <2>2, <2>4, <2>5
  <1> QED
    BY <1>1, <1>2, <1>3, <1>4, <1>5
    DEF SlotsAccounted, IndexConsistent, PagesLoaded, ChainsComplete, UnmountIdle

\* cache_fsync writes one block of the inode's list back.
LEMMA FsyncBlockInv == ASSUME IInv, NEW b \in Blocks, FsyncBlock(b) PROVE IInv'
  <1> DEFINE s == pci[b]
  <1>1. s \in InUse /\ s \in Slots /\ block_number[s] = b /\ op.inum \in Inodes
    BY CallTypes, InUseIs DEF IInv, FsyncBlock, IndexConsistent, TypeOK
  <1>2. /\ disk' = [disk EXCEPT ![block_number[s]] = page_data[s]]
        /\ unsynced' = [k \in Inodes |-> unsynced[k] \ {block_number[s]}]
        /\ dirty_bit' = [dirty_bit EXCEPT ![s] = FALSE]
        /\ gdl_pos' = [gdl_pos EXCEPT ![s] = "null"]
        /\ gdl' = gdl_pop(s)
        /\ dirty_list' = [dirty_list EXCEPT ![op.inum] = @ \ {block_number[s]}]
        /\ UNCHANGED <<proc, op, pin_count, block_number, inode_number, page_data, pci, pci_chain, lru, free_list>>
    BY <1>1 DEF FsyncBlock, disk_write_block, WrittenBack, dl_remove_block, indexVars
  <1> HIDE DEF s
  <1>3. /\ gdl' \in Seq(Slots)
        /\ Range(gdl) \ {s} \subseteq Range(gdl') /\ Range(gdl') \subseteq Range(gdl)
    BY <1>1, <1>2, GdlPopIs
  <1> QED BY <1>1, <1>2, <1>3, WriteBackInv

\* cache_sync writes the page of the oldest GDL node back.
LEMMA SyncNodeInv == ASSUME IInv, SyncNode PROVE IInv'
  <1> DEFINE s == gdl[Len(gdl)]
  <1>0. gdl \in Seq(Slots) /\ Len(gdl) \in 1 .. Len(gdl)
    BY DEF IInv, TypeOK, SyncNode
  <1>1. s \in InUse /\ s \in Slots /\ inode_number[s] \in Inodes
    <2>1. op = Idle
      BY DEF IInv, UnmountIdle, SyncNode
    <2>2. ~Reloading
      BY <2>1 DEF Reloading, Idle
    <2>3. s \in Range(gdl)
      BY <1>0 DEF Range
    <2> QED BY <2>2, <2>3, InUseIs DEF IInv, GdlSlots, PagesLoaded
  <1>2. /\ disk' = [disk EXCEPT ![block_number[s]] = page_data[s]]
        /\ unsynced' = [k \in Inodes |-> unsynced[k] \ {block_number[s]}]
        /\ dirty_bit' = [dirty_bit EXCEPT ![s] = FALSE]
        /\ gdl_pos' = [gdl_pos EXCEPT ![s] = "null"]
        /\ gdl' = RemoveAt(gdl, Len(gdl))
        /\ \/ dirty_list' = dirty_list
           \/ dirty_list' = [dirty_list EXCEPT ![inode_number[s]] = @ \ {block_number[s]}]
        /\ UNCHANGED <<proc, op, pin_count, block_number, inode_number, page_data, pci, pci_chain, lru, free_list>>
    BY DEF SyncNode, disk_write_block, WrittenBack, dl_remove_block, indexVars
  <1>3. /\ gdl' \in Seq(Slots)
        /\ Range(gdl) \ {s} \subseteq Range(gdl') /\ Range(gdl') \subseteq Range(gdl)
    BY <1>0, <1>2, RemoveAtIs, RemoveAtKeeps
  <1> HIDE DEF s
  <1> QED BY <1>1, <1>2, <1>3, WriteBackInv

\* A step into undefined behaviour may have written the disk.
LEMMA FaultInv ==
    ASSUME IInv, (\E i \in DOMAIN lru : EvictFault(i)) \/ (\E b \in Blocks : FsyncFault(b))
    PROVE  IInv'
  <1> USE DEF IInv
  <1>1. /\ UNCHANGED <<op, slotVars, indexVars, lru, free_list, dirty_list, gdl, unsynced>>
        /\ proc' \in Faults
        /\ disk' = disk \/ \E s \in InUse : disk' = [disk EXCEPT ![block_number[s]] = page_data[s]]
    <2>1. ASSUME NEW i \in DOMAIN lru, EvictFault(i)
          PROVE  disk' = disk \/ disk' = [disk EXCEPT ![block_number[lru[i]]] = page_data[lru[i]]]
      BY <2>1 DEF EvictFault, disk_write_block
    <2>2. ASSUME NEW b \in Blocks, FsyncFault(b)
          PROVE  disk' = disk \/ (pci[b] # None /\ disk' = [disk EXCEPT ![block_number[pci[b]]] = page_data[pci[b]]])
      BY <2>2 DEF FsyncFault, disk_write_block
    <2>3. disk' = disk \/ \E s \in InUse : disk' = [disk EXCEPT ![block_number[s]] = page_data[s]]
      BY <2>1, <2>2, InUseIs
    <2> QED BY <2>3 DEF EvictFault, FsyncFault, Faults
  <1>2. disk' \in [Blocks -> Pages]
    BY <1>1, InUseIs DEF TypeOK, PagesLoaded
  <1>3. TypeOK'
    BY <1>1, <1>2 DEF TypeOK, slotVars, indexVars
  <1>4. InUse' = InUse
    BY <1>1 DEF InUse
  <1>5. PagesLoaded' /\ GdlSlots' /\ UnmountIdle'
    BY <1>1, <1>4 DEF PagesLoaded, GdlSlots, Reloading, UnmountIdle, slotVars, indexVars, Faults
  <1>6. UNCHANGED <<cacheVars, dirty_list, unsynced>>
    BY <1>1 DEF cacheVars, slotVars, indexVars
  <1> QED BY <1>3, <1>5, <1>6, QuietInv

-----------------------------------------------------------------------------
\* Every step of the cache keeps the invariant.
LEMMA NextInv == IInv /\ [Next]_vars => IInv'
  <1> SUFFICES ASSUME IInv, [Next]_vars PROVE IInv'
    OBVIOUS
  <1>1. CASE Step
    <2>1. CASE SyncReturn
      BY <2>1, GoneInv DEF SyncReturn
    <2> QED
      BY <1>1, <2>1, GetHitInv, LoadInv, WriteHitInv, PageInv, EvictInv, FsyncBlockInv, FaultInv,
         ControlInv, SyncNodeInv
      DEF Step
  <1>2. CASE Kill
    BY <1>2, GoneInv DEF Kill
  <1>3. CASE UNCHANGED vars
    BY <1>3
    DEF vars, slotVars, indexVars, IInv, TypeOK, SlotsAccounted, IndexConsistent, PagesLoaded, ChainsComplete,
        GdlPosValid, GdlSlots, Reloading, FsyncCovers, UnmountIdle, InUse
  <1> QED
    BY <1>1, <1>2, <1>3, ControlInv, PageInv DEF Next

\* The invariant holds of every state of every behaviour.
THEOREM Invariance == Spec => []IInv
  BY InitInv, NextInv, PTL DEF Spec

\* Every list and field of the cache keeps its type: no list ever names a slot
\* outside the array, whatever sequence of calls, evictions and kills ran.
THEOREM TypeCorrect == Spec => []TypeOK
  BY Invariance, PTL DEF IInv

\* The LRU list and the free list partition the slots (get_block, lru.c, fl.c).
THEOREM SlotsNeverLost == Spec => []SlotsAccounted
  BY Invariance, PTL DEF IInv

\* The PCI finds every cached block, in the one slot that caches it (pci.c).
THEOREM IndexAlwaysConsistent == Spec => []IndexConsistent
  BY Invariance, PTL DEF IInv

\* Every dirty page is in the global dirty list (write_block, gdl.c).
THEOREM DirtyAlwaysTracked == Spec => []DirtyTracked
  <1>1. IInv => DirtyTracked
    BY InUseIs DEF IInv, GdlPosValid, DirtyTracked
  <1> QED BY <1>1, Invariance, PTL

\* cache_sync reads no slot without a page.
THEOREM GdlAlwaysNamesPages == Spec => []GdlNamesPages
  <1>1. IInv => GdlNamesPages
    BY DEF IInv, GdlSlots, GdlNamesPages, Reloading, Idle
  <1> QED BY <1>1, Invariance, PTL

\* Data written for an inode stays listed for its fsync until it is written back.
THEOREM FsyncAlwaysCovers == Spec => []FsyncCovers
  BY Invariance, PTL DEF IInv

\* cache_fsync returns only when everything written for the inode is on disk.
THEOREM FsyncIsDurable == Spec => FsyncDurable
  <1>1. ASSUME IInv, Next, op.fn = "fsync", op' = Idle, proc' = "mounted"
        PROVE  unsynced[op.inum] = {}
    <2>1. op # Idle /\ op.inum \in Inodes
      BY <1>1, CallTypes DEF IInv, TypeOK
    <2>2. FsyncReturn
      BY <1>1, <2>1
      DEF Next, Step, GetHit, Load, WriteHit, IncreasePin, DecreasePin, Evict, EvictFault, FsyncBlock, FsyncFault,
          SyncNode, SyncReturn, Call, Through, Poke, Mount, Unmount, Kill, Hit, Miss
    <2> QED BY <2>1, <2>2, <1>1 DEF FsyncReturn, IInv, FsyncCovers
  <1>2. IInv /\ [Next]_vars =>
          [op.fn = "fsync" /\ op' = Idle /\ proc' = "mounted" => unsynced[op.inum] = {}]_vars
    BY <1>1
  <1> QED BY <1>2, Invariance, PTL DEF Spec, FsyncDurable

\* No eviction takes a pinned page.
THEOREM PinnedPagesStay == Spec => PinnedStays
  <1> DEFINE Stays == \A b \in Blocks :
                pci[b] # None /\ pin_count[pci[b]] > 0 /\ proc' \notin {"killed", "unmounted"}
                    => pci'[b] = pci[b]
  <1>1. ASSUME IInv, Next PROVE Stays
    <2>1. CASE UNCHANGED pci
      BY <2>1
    <2>2. CASE Load
      <3>1. op.block \in Blocks /\ pci[op.block] = None /\ pci' = [pci EXCEPT ![op.block] = Head(free_list)]
        BY <1>1, <2>2, CallTypes DEF IInv, TypeOK, Load, Miss, pci_insert
      <3> QED BY <1>1, <3>1 DEF IInv, TypeOK
    <2>3. ASSUME NEW i \in DOMAIN lru, Evict(i) PROVE Stays
      <3>1. /\ block_number[lru[i]] \in Blocks /\ pci[block_number[lru[i]]] = lru[i]
            /\ pin_count[lru[i]] = 0 /\ pci' = [pci EXCEPT ![block_number[lru[i]]] = None]
        BY <1>1, <2>3, InUseIs DEF Evict, IsVictim, pci_delete
      <3> QED BY <1>1, <3>1 DEF IInv, TypeOK
    <2>4. CASE proc' \in {"killed", "unmounted"}
      BY <2>4
    <2> HIDE DEF Stays
    <2> QED
      BY <1>1, <2>1, <2>2, <2>3, <2>4
      DEF Next, Step, GetHit, WriteHit, IncreasePin, DecreasePin, EvictFault, FsyncBlock, FsyncFault,
          FsyncReturn, SyncNode, SyncReturn, Call, Through, Poke, Mount, Unmount, Kill, indexVars
  <1> HIDE DEF Stays
  <1>2. IInv /\ [Next]_vars => [Stays]_vars
    BY <1>1
  <1> QED BY <1>2, Invariance, PTL DEF Spec, PinnedStays, Stays
=============================================================================
