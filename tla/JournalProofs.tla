--------------------------- MODULE JournalProofs ----------------------------
(***************************************************************************)
(* The journal is a queue of what has to be executed again, for every size *)
(* of the ring and any files, and a replay restores the modes.             *)
(***************************************************************************)
EXTENDS Journal, FiniteSetTheorems, TLAPS

-----------------------------------------------------------------------------
(***************************************************************************)
(* The shapes of the state.                                                *)
(***************************************************************************)
InodeType == [mode : Modes, size : 0 .. 1, ptr : Blocks \cup {Null}]

\* The argument of an operation: a mode, a size or a block.
ArgsOf(type) ==
    CASE type = "CHMOD" -> Modes
      [] type = "TRUNCATE" -> 0 .. 1
      [] type = "WRITE" -> Blocks \cup {Null}
LoggedTypes == {"CHMOD", "TRUNCATE", "WRITE"}

Args == Modes \cup 0 .. 1 \cup Blocks \cup {Null}

\* Journal entries.
Entries ==
    {e \in [type : LoggedTypes, f : Files, arg : Args, synced : BOOLEAN] : e.arg \in ArgsOf(e.type)}

\* Calls of the handlers.
Requests == {r \in [type : LoggedTypes, arg : Args] : r.arg \in ArgsOf(r.type)}
ShortCalls ==
    {c \in [fn : {"chmod", "truncate"}, f : Files, slot : Slots, entry : Requests] :
        c.entry.type = IF c.fn = "chmod" THEN "CHMOD" ELSE "TRUNCATE"}
WriteCalls ==
    {c \in [fn : {"write"}, f : Files, slot : Slots, node : InodeType, entry : Requests] :
        c.entry.type = "WRITE"}
Calls == ShortCalls \cup WriteCalls

\* A metadata operation that has begun.
Running == pc \in {"run", "clear", "resize"}
RunOK ==
    /\ run.type \in LoggedTypes /\ run.f \in Files /\ run.arg \in ArgsOf(run.type)
    /\ run.through \in BOOLEAN
    /\ pc \in {"clear", "resize"} => run.type = "TRUNCATE"

Shapes ==
    /\ mem \in [Files -> InodeType]
    /\ disk \in [Files -> InodeType]
    /\ bitmap \subseteq Blocks
    /\ ring \in [Slots -> Entries \cup {Uninitialized}]
    /\ head \in Slots
    /\ rounds \in 0 .. RingSize
    /\ queue \in Seq(Entries)
    /\ committed \in [Files -> Modes]

\* Which steps belong to which phase of the process.
Control ==
    \/ /\ proc = "down"
       /\ op = Idle /\ pc = "idle" /\ rounds = 0
    \/ /\ proc = "replaying"
       /\ op = Idle
       /\ pc = "visit" \/ (rounds < RingSize /\ pc \in {"run", "clear", "resize", "mark", "next"})
       /\ Running => RunOK /\ run.through
    \/ /\ proc = "destroying"
       /\ op = Idle
       /\ pc = "visit" \/ (rounds < RingSize /\ pc \in {"mark", "next"})
    \/ /\ proc = "mounted" /\ rounds = 0
       /\ op = Idle /\ pc = "idle"
    \/ /\ proc = "mounted" /\ rounds = 0
       /\ op \in Calls
       /\ \/ pc \in {"prev", "run", "clear", "resize", "mark", "advance", "entry"}
          \/ op \in WriteCalls /\ pc \in {"alloc", "set", "data"}
       /\ Running => RunOK

\* Where the step under way stands with respect to the entry at the head.
HeadStep ==
    /\ Running /\ run.through =>
          /\ Pending(ring[head])
          /\ run.type = ring[head].type /\ run.f = ring[head].f /\ run.arg = ring[head].arg
    /\ pc = "mark" => ~ring[head].synced
    /\ pc \in {"advance", "next"} => ~Pending(ring[head])
    /\ pc = "entry" => head = Following(op.slot) /\ ~Pending(ring[op.slot])

\* The loop over the ring has left nothing to execute behind it.
RoundsDone ==
    \A k \in 1 .. RingSize : k > RingSize - rounds => ~Pending(RingFrom(head)[k])

JInv == Shapes /\ Control /\ HeadStep /\ RingIsQueue /\ RoundsDone

-----------------------------------------------------------------------------
(***************************************************************************)
(* Modes.                                                                  *)
(***************************************************************************)
ChangesMode(i, f) == queue[i].type = "CHMOD" /\ queue[i].f = f

\* The last entry of a file that sets its mode has the mode last logged, and a
\* file without one has that mode, in the cache and on the disk.
ModesKept ==
    \A f \in Files :
        \/ \E i \in 1 .. Len(queue) :
            /\ ChangesMode(i, f) /\ queue[i].arg = committed[f]
            /\ \A j \in 1 .. Len(queue) : j > i => ~ChangesMode(j, f)
        \/ /\ \A i \in 1 .. Len(queue) : ~ChangesMode(i, f)
           /\ mem[f].mode = committed[f] /\ disk[f].mode = committed[f]

\* A change of mode under way is in the journal, and one that sync_entry has
\* executed has reached the disk.
ModeSteps ==
    /\ pc = "run" /\ run.type = "CHMOD" => \E i \in 1 .. Len(queue) : ChangesMode(i, run.f)
    /\ pc = "mark" /\ ring[head].type = "CHMOD" =>
          LET e == ring[head] IN mem[e.f].mode = e.arg /\ disk[e.f].mode = e.arg

\* Without unmounts and writes, which can lose a mode.
ModeOps == Ops \subseteq {"chmod", "truncate"}

MInv == JInv /\ proc # "destroying" /\ op.fn # "write" /\ ModesKept /\ ModeSteps

-----------------------------------------------------------------------------
(***************************************************************************)
(* The ring.                                                               *)
(***************************************************************************)
\* The block met in round k of a loop that starts at h.
Place(h, k) == IF h + k =< RingSize THEN h + k - 1 ELSE h + k - 1 - RingSize

LEMMA PlaceIs ==
    ASSUME NEW h \in Slots, NEW k \in 1 .. RingSize
    PROVE  /\ Place(h, k) \in Slots
           /\ RingFrom(h)[k] = ring[Place(h, k)]
           /\ RingFrom(h)'[k] = ring'[Place(h, k)]
           /\ Place(h, 1) = h
           /\ Place(h, k) = h => k = 1
  BY RingAssumption DEF Place, Slots, RingFrom

\* The rounds after the head has advanced: one place closer, and the block that
\* was the head is met last.
LEMMA FollowingIs ==
    ASSUME NEW h \in Slots
    PROVE  /\ Following(h) \in Slots
           /\ Place(Following(h), RingSize) = h
           /\ \A k \in 1 .. RingSize - 1 : Place(Following(h), k) = Place(h, k + 1)
           /\ \A k \in 1 .. RingSize : Place(Following(h), k) = h => k = RingSize
  BY RingAssumption DEF Place, Slots, Following

\* What RingIsQueue says, with the places of the ring.
Enumerates(pos) ==
    /\ \A i, j \in 1 .. Len(queue) : i < j => pos[i] < pos[j]
    /\ \A i \in 1 .. Len(queue) : queue[i] = ring[Place(head, pos[i])]
    /\ \A k \in 1 .. RingSize :
            Pending(ring[Place(head, k)]) <=> \E i \in 1 .. Len(queue) : pos[i] = k

LEMMA QueueIs ==
    ASSUME head \in Slots
    PROVE  RingIsQueue <=> \E pos \in [1 .. Len(queue) -> 1 .. RingSize] : Enumerates(pos)
  <1>1. \A k \in 1 .. RingSize : RingFrom(head)[k] = ring[Place(head, k)]
    BY PlaceIs
  <1>2. ASSUME NEW pos \in [1 .. Len(queue) -> 1 .. RingSize]
        PROVE  Enumerates(pos) <=>
                /\ \A i, j \in 1 .. Len(queue) : i < j => pos[i] < pos[j]
                /\ \A i \in 1 .. Len(queue) : queue[i] = RingFrom(head)[pos[i]]
                /\ \A k \in 1 .. RingSize :
                      Pending(RingFrom(head)[k]) <=> \E i \in 1 .. Len(queue) : pos[i] = k
    BY <1>1 DEF Enumerates
  <1> QED BY <1>2 DEF RingIsQueue

\* The same after a step.
LEMMA QueueIsNext ==
    ASSUME head' \in Slots, NEW pos \in [1 .. Len(queue') -> 1 .. RingSize],
           \A i, j \in 1 .. Len(queue') : i < j => pos[i] < pos[j],
           \A i \in 1 .. Len(queue') : queue'[i] = ring'[Place(head', pos[i])],
           \A k \in 1 .. RingSize :
                Pending(ring'[Place(head', k)]) <=> \E i \in 1 .. Len(queue') : pos[i] = k
    PROVE  RingIsQueue'
  <1>1. \A k \in 1 .. RingSize : RingFrom(head)'[k] = ring'[Place(head', k)]
    BY RingAssumption DEF RingFrom, Place
  <1>2. \A i \in 1 .. Len(queue') : queue'[i] = RingFrom(head)'[pos[i]]
    BY <1>1
  <1>3. \A k \in 1 .. RingSize :
            Pending(RingFrom(head)'[k]) <=> \E i \in 1 .. Len(queue') : pos[i] = k
    BY <1>1
  <1> QED BY <1>2, <1>3 DEF RingIsQueue, Pending

\* An entry at the head that is to be executed is the first of the queue.
LEMMA HeadOfQueue ==
    ASSUME Shapes, NEW pos \in [1 .. Len(queue) -> 1 .. RingSize], Enumerates(pos),
           Pending(ring[head])
    PROVE  Len(queue) > 0 /\ pos[1] = 1 /\ queue[1] = ring[head]
  <1> USE RingAssumption
  <1>1. head \in Slots /\ queue \in Seq(Entries)
    BY DEF Shapes
  <1>2. 1 \in 1 .. RingSize /\ Place(head, 1) = head
    BY <1>1, PlaceIs
  <1>3. PICK n \in 1 .. Len(queue) : pos[n] = 1
    BY <1>2 DEF Enumerates
  <1>4. n = 1
    <2>1. 1 \in 1 .. Len(queue) /\ pos[1] \in 1 .. RingSize
      BY <1>1, <1>3
    <2>2. 1 < n => pos[1] < pos[n]
      BY <2>1 DEF Enumerates
    <2> QED BY <1>3, <2>1, <2>2
  <1> QED BY <1>1, <1>2, <1>3, <1>4 DEF Enumerates
LEMMA HeadFirst ==
    ASSUME Shapes, RingIsQueue, Pending(ring[head])
    PROVE  Len(queue) > 0 /\ queue[1] = ring[head]
  BY QueueIs, HeadOfQueue DEF Shapes

\* Mark: the first of the queue leaves it.
LEMMA MarkQueue ==
    ASSUME Shapes, RingIsQueue, Pending(ring[head]),
           ring' = [ring EXCEPT ![head].synced = TRUE], queue' = Tail(queue), head' = head
    PROVE  RingIsQueue'
  <1> USE RingAssumption
  <1>1. head \in Slots /\ queue \in Seq(Entries)
    BY DEF Shapes
  <1>2. PICK pos \in [1 .. Len(queue) -> 1 .. RingSize] : Enumerates(pos)
    BY <1>1, QueueIs
  <1>3. Len(queue) > 0 /\ pos[1] = 1 /\ queue[1] = ring[head]
    BY <1>2, HeadOfQueue
  <1>4. Len(queue') = Len(queue) - 1 /\ \A i \in 1 .. Len(queue') : queue'[i] = queue[i + 1]
    BY <1>1, <1>3
  <1> DEFINE next == [i \in 1 .. Len(queue') |-> pos[i + 1]]
  <1>5. next \in [1 .. Len(queue') -> 1 .. RingSize]
    BY <1>1, <1>4
  <1>6. \A i, j \in 1 .. Len(queue') : i < j => next[i] < next[j]
    BY <1>1, <1>2, <1>4 DEF Enumerates
  <1>7. \A k \in 1 .. RingSize :
            /\ k # 1 => ring'[Place(head, k)] = ring[Place(head, k)]
            /\ k = 1 => ~Pending(ring'[Place(head, k)])
    <2>1. ring[head] \in Entries
      BY <1>1 DEF Shapes, Pending, Uninitialized
    <2>2. ring'[head].synced = TRUE
      BY <1>1, <2>1 DEF Shapes, Entries
    <2> QED BY <1>1, <2>2, PlaceIs DEF Pending, Shapes
  <1>8. ASSUME NEW i \in 1 .. Len(queue') PROVE next[i] # 1
    <2>1. 1 \in 1 .. Len(queue) /\ i + 1 \in 1 .. Len(queue) /\ 1 < i + 1
      BY <1>1, <1>3, <1>4
    <2>2. pos[1] < pos[i + 1]
      BY <1>2, <2>1 DEF Enumerates
    <2> QED BY <1>3, <2>2
  <1>9. ASSUME NEW i \in 1 .. Len(queue') PROVE queue'[i] = ring'[Place(head', next[i])]
    <2>1. i + 1 \in 1 .. Len(queue) /\ next[i] = pos[i + 1] /\ queue'[i] = queue[i + 1]
      BY <1>1, <1>4
    <2>2. queue[i + 1] = ring[Place(head, pos[i + 1])]
      BY <1>2, <2>1 DEF Enumerates
    <2>3. ring'[Place(head, next[i])] = ring[Place(head, next[i])]
      BY <1>5, <1>7, <1>8
    <2> QED BY <2>1, <2>2, <2>3
  <1>10. ASSUME NEW k \in 1 .. RingSize
         PROVE  Pending(ring'[Place(head', k)]) <=> \E i \in 1 .. Len(queue') : next[i] = k
    <2>1. CASE k = 1
      BY <1>7, <1>8, <2>1
    <2>2. CASE k # 1
      <3>1. Pending(ring'[Place(head', k)]) <=> \E i \in 1 .. Len(queue) : pos[i] = k
        BY <1>2, <1>7, <2>2 DEF Enumerates
      <3>2. ASSUME NEW i \in 1 .. Len(queue), pos[i] = k
            PROVE  i - 1 \in 1 .. Len(queue') /\ next[i - 1] = k
        BY <1>1, <1>3, <1>4, <2>2, <3>2
      <3>3. ASSUME NEW i \in 1 .. Len(queue'), next[i] = k
            PROVE  i + 1 \in 1 .. Len(queue) /\ pos[i + 1] = k
        BY <1>1, <1>4, <3>3
      <3> QED BY <3>1, <3>2, <3>3
    <2> QED BY <2>1, <2>2
  <1> HIDE DEF next
  <1> QED BY <1>1, <1>5, <1>6, <1>9, <1>10, QueueIsNext

\* The head passes an entry that needs no execution.
LEMMA AdvanceQueue ==
    ASSUME Shapes, RingIsQueue, ~Pending(ring[head]),
           ring' = ring, queue' = queue, head' = Following(head)
    PROVE  RingIsQueue'
  <1> USE RingAssumption
  <1>1. head \in Slots /\ queue \in Seq(Entries)
    BY DEF Shapes
  <1>2. PICK pos \in [1 .. Len(queue) -> 1 .. RingSize] : Enumerates(pos)
    BY <1>1, QueueIs
  <1>3. \A i \in 1 .. Len(queue) : pos[i] # 1
    BY <1>1, <1>2, PlaceIs DEF Enumerates
  <1> DEFINE next == [i \in 1 .. Len(queue') |-> pos[i] - 1]
  <1>4. next \in [1 .. Len(queue') -> 1 .. RingSize]
    BY <1>1, <1>3
  <1>5. \A i, j \in 1 .. Len(queue') : i < j => next[i] < next[j]
    BY <1>1, <1>2 DEF Enumerates
  <1>6. \A i \in 1 .. Len(queue') :
            next[i] \in 1 .. RingSize - 1 /\ Place(head', next[i]) = Place(head, pos[i])
    <2>1. \A k \in 1 .. RingSize - 1 : Place(head', k) = Place(head, k + 1)
      BY <1>1, FollowingIs
    <2> QED BY <1>1, <1>3, <2>1
  <1>7. \A i \in 1 .. Len(queue') : queue'[i] = ring'[Place(head', next[i])]
    BY <1>2, <1>6 DEF Enumerates
  <1>8. ASSUME NEW k \in 1 .. RingSize
        PROVE  Pending(ring'[Place(head', k)]) <=> \E i \in 1 .. Len(queue') : next[i] = k
    <2>1. CASE k = RingSize
      <3>1. ~Pending(ring'[Place(head', k)])
        BY <1>1, <2>1, FollowingIs
      <3> QED BY <1>6, <2>1, <3>1
    <2>2. CASE k # RingSize
      <3>1. k + 1 \in 1 .. RingSize /\ Place(head', k) = Place(head, k + 1)
        BY <1>1, <2>2, FollowingIs
      <3>2. Pending(ring[Place(head, k + 1)]) <=> \E i \in 1 .. Len(queue) : pos[i] = k + 1
        BY <1>2, <3>1 DEF Enumerates
      <3>3. \A i \in 1 .. Len(queue') : next[i] = k <=> pos[i] = k + 1
        BY <1>1
      <3> QED BY <3>1, <3>2, <3>3
    <2> QED BY <2>1, <2>2
  <1>9. head' \in Slots
    BY <1>1, FollowingIs
  <1> HIDE DEF next
  <1> QED BY <1>4, <1>5, <1>7, <1>8, <1>9, QueueIsNext

\* An entry logged behind the head is the last of the queue.
LEMMA LogQueue ==
    ASSUME Shapes, RingIsQueue, NEW s \in Slots, head = Following(s), ~Pending(ring[s]),
           NEW e \in Entries, ring' = [ring EXCEPT ![s] = e], head' = head,
           queue' = IF e.synced THEN queue ELSE Append(queue, e)
    PROVE  RingIsQueue'
  <1> USE RingAssumption
  <1>1. head \in Slots /\ queue \in Seq(Entries) /\ RingSize \in 1 .. RingSize
    BY DEF Shapes
  <1>2. PICK pos \in [1 .. Len(queue) -> 1 .. RingSize] : Enumerates(pos)
    BY <1>1, QueueIs
  <1>3. Place(head, RingSize) = s /\ \A k \in 1 .. RingSize : Place(head, k) = s => k = RingSize
    BY FollowingIs
  <1>4. \A i \in 1 .. Len(queue) : pos[i] # RingSize /\ pos[i] < RingSize
    BY <1>1, <1>2, <1>3 DEF Enumerates
  <1>5. /\ \A k \in 1 .. RingSize : k # RingSize => ring'[Place(head, k)] = ring[Place(head, k)]
        /\ ring'[Place(head, RingSize)] = e
    BY <1>1, <1>3, PlaceIs DEF Shapes
  <1>6. \A i \in 1 .. Len(queue) : queue[i] = ring'[Place(head, pos[i])]
    BY <1>2, <1>4, <1>5 DEF Enumerates
  <1>7. \A k \in 1 .. RingSize : k # RingSize =>
            (Pending(ring'[Place(head, k)]) <=> \E i \in 1 .. Len(queue) : pos[i] = k)
    BY <1>2, <1>5 DEF Enumerates
  <1>8. Pending(e) <=> ~e.synced
    BY DEF Pending, Entries, LoggedTypes
  <1>9. CASE e.synced
    <2>1. queue' = queue
      BY <1>9
    <2>2. \A i, j \in 1 .. Len(queue) : i < j => pos[i] < pos[j]
      BY <1>2 DEF Enumerates
    <2>3. \A k \in 1 .. RingSize :
            Pending(ring'[Place(head', k)]) <=> \E i \in 1 .. Len(queue') : pos[i] = k
      BY <1>4, <1>5, <1>7, <1>8, <1>9, <2>1
    <2> QED BY <1>1, <1>6, <2>1, <2>2, <2>3, QueueIsNext
  <1>10. CASE ~e.synced
    <2> DEFINE n == Len(queue)
               next == [i \in 1 .. Len(queue') |-> IF i = n + 1 THEN RingSize ELSE pos[i]]
    <2>1. Len(queue') = n + 1 /\ queue'[n + 1] = e /\ \A i \in 1 .. n : queue'[i] = queue[i]
      BY <1>1, <1>10
    <2>2. next \in [1 .. Len(queue') -> 1 .. RingSize]
      BY <1>1, <2>1
    <2>3. \A i, j \in 1 .. Len(queue') : i < j => next[i] < next[j]
      BY <1>1, <1>2, <1>4, <2>1 DEF Enumerates
    <2>4. \A i \in 1 .. Len(queue') : queue'[i] = ring'[Place(head', next[i])]
      BY <1>1, <1>5, <1>6, <2>1
    <2>5. ASSUME NEW k \in 1 .. RingSize
          PROVE  Pending(ring'[Place(head', k)]) <=> \E i \in 1 .. Len(queue') : next[i] = k
      <3>1. CASE k = RingSize
        <4>1. Len(queue) + 1 \in 1 .. Len(queue') /\ next[Len(queue) + 1] = k
          BY <1>1, <2>1, <3>1
        <4> QED BY <1>5, <1>8, <1>10, <3>1, <4>1
      <3>2. CASE k # RingSize
        <4>1. \A i \in 1 .. Len(queue) : i \in 1 .. Len(queue') /\ next[i] = pos[i]
          BY <1>1, <2>1
        <4>2. \A i \in 1 .. Len(queue') : next[i] = k => i \in 1 .. Len(queue)
          BY <1>1, <2>1, <3>2
        <4> HIDE DEF next
        <4> QED BY <1>7, <3>2, <4>1, <4>2
      <3> QED BY <3>1, <3>2
    <2> HIDE DEF next
    <2> QED BY <1>1, <2>2, <2>3, <2>4, <2>5, QueueIsNext
  <1> QED BY <1>9, <1>10

-----------------------------------------------------------------------------
(***************************************************************************)
(* The steps that keep the invariant.                                      *)
(***************************************************************************)
\* A step that leaves the ring, the head and the queue leaves what relates them.
LEMMA QuietQueue ==
    ASSUME JInv, UNCHANGED <<ring, head, queue>>, rounds' \in {rounds, 0}
    PROVE  RingIsQueue' /\ RoundsDone'
  <1>1. RingFrom(head)' = RingFrom(head)
    BY DEF RingFrom
  <1>2. RingIsQueue'
    BY <1>1 DEF JInv, RingIsQueue, Pending
  <1>3. RoundsDone'
    BY <1>1, RingAssumption DEF JInv, RoundsDone, Pending
  <1> QED BY <1>2, <1>3

\* inode_write keeps inodes inodes.
LEMMA InodeWriteTypes ==
    ASSUME Shapes, NEW f \in Files, NEW node \in InodeType, NEW through, inode_write(f, node, through)
    PROVE  mem' \in [Files -> InodeType] /\ disk' \in [Files -> InodeType]
  BY DEF Shapes, inode_write

\* What is logged of a call, and the block it is given.
LEMMA CallIs ==
    ASSUME op \in Calls
    PROVE  /\ op # Idle /\ op.f \in Files
           /\ op.entry.type \in LoggedTypes /\ op.entry.arg \in ArgsOf(op.entry.type)
           /\ op.entry.arg \in Args
           /\ op.slot \in Slots
           /\ op \in WriteCalls <=> op.fn = "write"
           /\ op.fn = "write" <=> op.entry.type = "WRITE"
           /\ op.fn = "chmod" <=> op.entry.type = "CHMOD"
           /\ op.fn = "write" => op.node \in InodeType
  BY DEF Calls, ShortCalls, WriteCalls, Requests, Idle, LoggedTypes
LEMMA CallSlot ==
    ASSUME op \in Calls, NEW k \in Slots
    PROVE  [op EXCEPT !.slot = k] \in Calls /\ [op EXCEPT !.slot = k].slot = k
  BY DEF Calls, ShortCalls, WriteCalls
LEMMA CallBlock ==
    ASSUME op \in WriteCalls, NEW b \in Blocks
    PROVE  [op EXCEPT !.entry.arg = b, !.node.ptr = b] \in WriteCalls
  BY DEF WriteCalls, Requests, ArgsOf, Args, LoggedTypes, InodeType

\* An entry to execute is one of the logged kinds.
LEMMA PendingIs ==
    ASSUME Shapes, NEW k \in Slots
    PROVE  /\ ring[k] = Uninitialized \/ ring[k] \in Entries
           /\ ring[k].type # "UNINITIALIZED" <=> ring[k] \in Entries
           /\ ring[k].type = "UNINITIALIZED" => ~ring[k].synced
           /\ ring[k] \in Entries =>
                /\ ring[k].type \in LoggedTypes /\ ring[k].f \in Files
                /\ ring[k].arg \in ArgsOf(ring[k].type) /\ ring[k].synced \in BOOLEAN
  BY DEF Shapes, Uninitialized, Entries, LoggedTypes

LEMMA InitJ == Init => JInv
  <1> SUFFICES ASSUME Init PROVE JInv
    OBVIOUS
  <1> USE RingAssumption, ModesAssumption
  <1>1. Shapes
    BY DEF Init, Shapes, InodeType, EmptyFile, Slots, Null
  <1>2. Control
    BY DEF Init, Control
  <1>3. HeadStep
    BY DEF Init, HeadStep, Running
  <1>4. \A k \in 1 .. RingSize : ~Pending(RingFrom(head)[k])
    BY DEF Init, RingFrom, Pending, Uninitialized, Slots
  <1>5. RingIsQueue
    <2>1. Len(queue) = 0 /\ \A i \in 1 .. Len(queue) : FALSE
      BY DEF Init
    <2>2. PICK pos : pos \in [1 .. Len(queue) -> 1 .. RingSize]
      <3>1. [i \in 1 .. Len(queue) |-> 1] \in [1 .. Len(queue) -> 1 .. RingSize]
        OBVIOUS
      <3> QED BY <3>1
    <2> QED BY <1>4, <2>1, <2>2 DEF RingIsQueue
  <1> QED BY <1>1, <1>2, <1>3, <1>4, <1>5 DEF JInv, RoundsDone

\* The end of a metadata operation, whoever called it.
LEMMA RunEndsKeeps ==
    ASSUME JInv, Running, RunEnds, UNCHANGED <<proc, rounds, ring, head, queue>>
    PROVE  Control' /\ HeadStep' /\ RingIsQueue' /\ RoundsDone'
  <1>1. RingIsQueue' /\ RoundsDone'
    BY QuietQueue
  <1>2. Control'
    BY DEF JInv, Control, Running, RunOK, RunEnds
  <1>3. HeadStep'
    BY DEF JInv, Control, HeadStep, Running, RunEnds, Pending
  <1> QED BY <1>1, <1>2, <1>3

\* A metadata operation that has begun is well-formed.
LEMMA RunIs ==
    ASSUME Control, Running
    PROVE  RunOK /\ proc \in {"mounted", "replaying"}
  BY DEF Control, Running

\* A metadata operation that begins is well-formed.
LEMMA RunBegins ==
    ASSUME NEW type \in LoggedTypes, NEW f \in Files, NEW arg \in ArgsOf(type), NEW through \in BOOLEAN,
           run' = [type |-> type, f |-> f, arg |-> arg, through |-> through], pc' = "run"
    PROVE  RunOK' /\ run'.through = through
  <1>1. run'.type = type /\ run'.f = f /\ run'.arg = arg /\ run'.through = through
    OBVIOUS
  <1> QED BY <1>1 DEF RunOK

LEMMA StepRunChmod == ASSUME JInv, RunChmod PROVE JInv'
  <1>1. Running /\ RunOK
    BY RunIs DEF RunChmod, Running, JInv
  <1>2. Control' /\ HeadStep' /\ RingIsQueue' /\ RoundsDone'
    BY <1>1, RunEndsKeeps DEF RunChmod, journalVars
  <1>3. [mem[run.f] EXCEPT !.mode = run.arg] \in InodeType
    BY <1>1 DEF RunOK, RunChmod, ArgsOf, JInv, Shapes, InodeType
  <1>4. mem' \in [Files -> InodeType] /\ disk' \in [Files -> InodeType]
    BY <1>1, <1>3, InodeWriteTypes DEF RunOK, RunChmod, JInv
  <1> QED BY <1>2, <1>4 DEF JInv, Shapes, RunChmod, journalVars

LEMMA StepRunTruncateFree == ASSUME JInv, RunTruncateFree PROVE JInv'
  <1>1. Running /\ RunOK
    BY RunIs DEF RunTruncateFree, Running, JInv
  <1>2. RingIsQueue' /\ RoundsDone'
    BY QuietQueue DEF RunTruncateFree, journalVars
  <1>3. Shapes' /\ HeadStep'
    BY <1>1 DEF RunTruncateFree, JInv, Shapes, HeadStep, Running, journalVars
  <1>4. Control'
    BY <1>1 DEF RunTruncateFree, JInv, Control, Running, RunOK
  <1> QED BY <1>2, <1>3, <1>4 DEF JInv

LEMMA StepRunTruncateClear == ASSUME JInv, RunTruncateClear PROVE JInv'
  <1>1. Running /\ RunOK
    BY RunIs DEF RunTruncateClear, Running, JInv
  <1>2. RingIsQueue' /\ RoundsDone'
    BY QuietQueue DEF RunTruncateClear, journalVars
  <1>3. [mem[run.f] EXCEPT !.ptr = Null] \in InodeType
    BY <1>1 DEF RunOK, JInv, Shapes, InodeType
  <1>4. mem' \in [Files -> InodeType] /\ disk' \in [Files -> InodeType]
    BY <1>1, <1>3, InodeWriteTypes DEF RunOK, RunTruncateClear, JInv
  <1>5. Shapes' /\ HeadStep'
    BY <1>1, <1>4 DEF RunTruncateClear, JInv, Shapes, HeadStep, Running, journalVars
  <1>6. Control'
    BY <1>1 DEF RunTruncateClear, JInv, Control, Running, RunOK
  <1> QED BY <1>2, <1>5, <1>6 DEF JInv

LEMMA StepRunTruncateSize == ASSUME JInv, RunTruncateSize PROVE JInv'
  <1>1. Running /\ RunOK
    BY RunIs DEF RunTruncateSize, Running, JInv
  <1>2. Control' /\ HeadStep' /\ RingIsQueue' /\ RoundsDone'
    BY <1>1, RunEndsKeeps DEF RunTruncateSize, journalVars
  <1>3. [mem[run.f] EXCEPT !.size = run.arg] \in InodeType
    <2>1. run.arg \in 0 .. 1
      BY <1>1 DEF RunOK, RunTruncateSize, ArgsOf
    <2>2. mem[run.f] \in InodeType
      BY <1>1 DEF RunOK, JInv, Shapes
    <2> QED BY <2>1, <2>2 DEF InodeType
  <1>4. mem' \in [Files -> InodeType] /\ disk' \in [Files -> InodeType]
    BY <1>1, <1>3, InodeWriteTypes DEF RunOK, RunTruncateSize, JInv
  <1> QED BY <1>2, <1>4 DEF JInv, Shapes, RunTruncateSize, journalVars

LEMMA StepRunWrite == ASSUME JInv, RunWrite PROVE JInv'
  <1>1. Running /\ RunOK
    BY RunIs DEF RunWrite, Running, JInv
  <1>2. Control' /\ HeadStep' /\ RingIsQueue' /\ RoundsDone'
    BY <1>1, RunEndsKeeps DEF RunWrite, journalVars
  <1>3. [mem[run.f] EXCEPT !.ptr = run.arg] \in InodeType
    BY <1>1 DEF RunOK, RunWrite, ArgsOf, JInv, Shapes, InodeType
  <1>4. mem' \in [Files -> InodeType] /\ disk' \in [Files -> InodeType]
    BY <1>1, <1>3, InodeWriteTypes DEF RunOK, RunWrite, JInv
  <1> QED BY <1>2, <1>4 DEF JInv, Shapes, RunWrite, journalVars

LEMMA StepPrev == ASSUME JInv, Prev PROVE JInv'
  <1>1. RingIsQueue' /\ RoundsDone' /\ Shapes'
    BY QuietQueue DEF Prev, JInv, Shapes, journalVars, inodeVars
  <1>2. head \in Slots /\ Shapes
    BY DEF JInv, Shapes
  <1>3. Control'
    <2>1. proc = "mounted" /\ rounds = 0 /\ op \in Calls
      BY DEF Prev, JInv, Control
    <2>2. Running' => RunOK'
      <3> SUFFICES ASSUME Running' PROVE RunOK'
        OBVIOUS
      <3>1. /\ pc' = "run" /\ ring[head] \in Entries
            /\ run' = [type |-> ring[head].type, f |-> ring[head].f, arg |-> ring[head].arg,
                       through |-> TRUE]
        BY <1>2, PendingIs DEF Prev, Running
      <3> QED BY <1>2, <3>1, PendingIs, RunBegins
    <2> QED BY <2>1, <2>2 DEF Prev, Control
  <1>4. HeadStep'
    BY <1>2, PendingIs DEF Prev, HeadStep, Running, journalVars, Pending
  <1> QED BY <1>1, <1>3, <1>4 DEF JInv

LEMMA StepMark == ASSUME JInv, Mark PROVE JInv'
  <1>1. Shapes /\ head \in Slots /\ ~ring[head].synced
    BY DEF JInv, Shapes, Mark, HeadStep
  <1>2. proc \in {"mounted", "replaying", "destroying"} /\ Control'
    BY DEF JInv, Control, Mark, Running
  <1>3. CASE ring[head].type = "UNINITIALIZED"
    <2>1. RingIsQueue' /\ RoundsDone'
      BY <1>3, QuietQueue DEF Mark
    <2>2. Shapes' /\ HeadStep'
      BY <1>3 DEF Mark, JInv, Shapes, HeadStep, Running, inodeVars, Pending
    <2> QED BY <1>2, <2>1, <2>2 DEF JInv
  <1>4. CASE ring[head].type # "UNINITIALIZED"
    <2>1. Pending(ring[head]) /\ ring[head] \in Entries
      BY <1>1, <1>4, PendingIs DEF Pending
    <2>2. ring' = [ring EXCEPT ![head].synced = TRUE] /\ queue' = Tail(queue) /\ head' = head
      BY <1>4 DEF Mark
    <2>3. RingIsQueue' /\ Len(queue) > 0
      BY <1>1, <2>1, <2>2, HeadFirst, MarkQueue DEF JInv
    <2>4. [ring[head] EXCEPT !.synced = TRUE] \in Entries
      BY <2>1 DEF Entries
    <2>5. Shapes'
      <3>1. ring' \in [Slots -> Entries \cup {Uninitialized}]
        BY <1>1, <2>2, <2>4 DEF Shapes
      <3>2. queue' \in Seq(Entries)
        BY <1>1, <2>2, <2>3 DEF Shapes
      <3> QED BY <1>1, <2>2, <3>1, <3>2 DEF Shapes, Mark, inodeVars
    <2>6. ring'[head].synced = TRUE /\ \A k \in Slots : k # head => ring'[k] = ring[k]
      BY <1>1, <2>1, <2>2 DEF Shapes, Entries
    <2>7. HeadStep'
      BY <1>2, <2>2, <2>6 DEF HeadStep, Running, Mark, Pending
    <2>8. RoundsDone'
      <3> SUFFICES ASSUME NEW k \in 1 .. RingSize, k > RingSize - rounds'
                   PROVE  ~Pending(RingFrom(head)'[k])
        BY DEF RoundsDone, Pending
      <3>1. RingFrom(head)'[k] = ring'[Place(head, k)] /\ Place(head, k) \in Slots
        BY <1>1, <2>2, PlaceIs
      <3>2. ~Pending(ring[Place(head, k)])
        BY <1>1, PlaceIs DEF JInv, RoundsDone, Mark
      <3> QED BY <2>6, <3>1, <3>2 DEF Pending
    <2> QED BY <1>2, <2>3, <2>5, <2>7, <2>8 DEF JInv
  <1> QED BY <1>3, <1>4

\* The head advances, past an entry that needs no execution.
LEMMA AdvanceKeeps ==
    ASSUME JInv, ~Pending(ring[head]), ring' = ring, queue' = queue, head' = Following(head),
           \/ rounds' = 0
           \/ rounds < RingSize /\ rounds' = rounds + 1
    PROVE  RingIsQueue' /\ RoundsDone' /\ head' \in Slots
  <1>1. Shapes /\ head \in Slots /\ rounds \in 0 .. RingSize
    BY DEF JInv, Shapes
  <1>2. RingIsQueue' /\ head' \in Slots
    BY <1>1, AdvanceQueue, FollowingIs DEF JInv
  <1>3. RoundsDone'
    <2> SUFFICES ASSUME NEW k \in 1 .. RingSize, k > RingSize - rounds'
                 PROVE  ~Pending(RingFrom(head)'[k])
      BY DEF RoundsDone, Pending
    <2>1. RingFrom(head)'[k] = ring[Place(Following(head), k)]
      BY <1>2, RingAssumption DEF RingFrom, Place
    <2>2. CASE k = RingSize
      BY <1>1, <2>1, <2>2, FollowingIs
    <2>3. CASE k # RingSize
      <3>1. k + 1 \in 1 .. RingSize /\ k + 1 > RingSize - rounds
        BY <1>1, <2>3, RingAssumption
      <3>2. Place(Following(head), k) = Place(head, k + 1)
        BY <1>1, <2>3, FollowingIs, RingAssumption
      <3>3. ~Pending(RingFrom(head)[k + 1])
        BY <3>1 DEF JInv, RoundsDone
      <3> QED BY <1>1, <2>1, <3>1, <3>2, <3>3, PlaceIs
    <2> QED BY <2>2, <2>3
  <1> QED BY <1>2, <1>3

LEMMA StepAdvance == ASSUME JInv, Advance PROVE JInv'
  <1>1. head \in Slots /\ ~Pending(ring[head])
    BY DEF JInv, Shapes, Advance, HeadStep
  <1>2. proc = "mounted" /\ rounds = 0 /\ op \in Calls
    BY DEF JInv, Control, Advance
  <1>3. RingIsQueue' /\ RoundsDone' /\ head' \in Slots
    BY <1>1, <1>2, AdvanceKeeps DEF Advance
  <1>4. Shapes'
    BY <1>3 DEF Advance, JInv, Shapes, inodeVars
  <1>5. op' \in Calls /\ op'.slot = head
    BY <1>1, <1>2, CallSlot DEF Advance
  <1>6. Control'
    BY <1>2, <1>5 DEF Advance, Control, Running
  <1>7. HeadStep'
    BY <1>1, <1>5 DEF Advance, HeadStep, Running, Pending
  <1> QED BY <1>3, <1>4, <1>6, <1>7 DEF JInv

LEMMA StepNextRound == ASSUME JInv, NextRound PROVE JInv'
  <1>1. head \in Slots /\ ~Pending(ring[head])
    BY DEF JInv, Shapes, NextRound, HeadStep
  <1>2. proc \in {"replaying", "destroying"} /\ rounds < RingSize /\ op = Idle
    BY DEF JInv, Control, NextRound
  <1>3. RingIsQueue' /\ RoundsDone' /\ head' \in Slots
    BY <1>1, <1>2, AdvanceKeeps DEF NextRound
  <1>4. Shapes'
    BY <1>2, <1>3, RingAssumption DEF NextRound, JInv, Shapes, inodeVars
  <1>5. Control' /\ HeadStep'
    BY <1>2 DEF NextRound, Control, HeadStep, Running
  <1> QED BY <1>3, <1>4, <1>5 DEF JInv

LEMMA StepLogEntry == ASSUME JInv, LogEntry PROVE JInv'
  <1>1. Shapes /\ head \in Slots /\ head = Following(op.slot) /\ ~Pending(ring[op.slot])
    BY DEF JInv, Shapes, LogEntry, HeadStep
  <1>2. proc = "mounted" /\ rounds = 0 /\ op \in Calls
    BY DEF JInv, Control, LogEntry
  <1>3. PICK synced \in BOOLEAN :
            /\ ring' = [ring EXCEPT ![op.slot] =
                    [type |-> op.entry.type, f |-> op.f, arg |-> op.entry.arg, synced |-> synced]]
            /\ queue' = IF synced THEN queue ELSE Append(queue, ring'[op.slot])
    BY DEF LogEntry
  <1> DEFINE e == [type |-> op.entry.type, f |-> op.f, arg |-> op.entry.arg, synced |-> synced]
  <1>4. e \in Entries /\ e.synced = synced /\ op.slot \in Slots
    BY <1>2, CallIs DEF Entries
  <1>5. ring' = [ring EXCEPT ![op.slot] = e] /\ ring'[op.slot] = e
    BY <1>1, <1>3, <1>4 DEF Shapes
  <1> HIDE DEF e
  <1>6. queue' = IF e.synced THEN queue ELSE Append(queue, e)
    BY <1>3, <1>4, <1>5
  <1>7. RingIsQueue'
    BY <1>1, <1>4, <1>5, <1>6, LogQueue DEF LogEntry, JInv
  <1>8. RoundsDone'
    BY <1>2, RingAssumption DEF LogEntry, RoundsDone
  <1>9. Shapes'
    <2>1. committed' \in [Files -> Modes]
      BY <1>1, <1>2, CallIs DEF LogEntry, Shapes, ArgsOf
    <2>2. ring' \in [Slots -> Entries \cup {Uninitialized}] /\ queue' \in Seq(Entries)
      BY <1>1, <1>4, <1>5, <1>6 DEF Shapes
    <2> QED BY <1>1, <2>1, <2>2 DEF LogEntry, Shapes, inodeVars
  <1>10. Running' => RunOK' /\ run'.through = FALSE
    <2> SUFFICES ASSUME Running' PROVE RunOK' /\ run'.through = FALSE
      OBVIOUS
    <2>1. /\ pc' = "run"
          /\ run' = [type |-> op.entry.type, f |-> op.f, arg |-> op.entry.arg, through |-> FALSE]
      BY DEF LogEntry, Running
    <2> QED BY <1>2, <2>1, CallIs, RunBegins
  <1>11. Control'
    BY <1>2, <1>10, CallIs DEF LogEntry, Control
  <1>12. HeadStep'
    BY <1>10 DEF LogEntry, HeadStep
  <1> QED BY <1>7, <1>8, <1>9, <1>11, <1>12 DEF JInv

\* The handlers enter.
LEMMA StepCalls ==
    ASSUME JInv, NEW f \in Files,
           (\E m \in Modes : CallChmod(f, m)) \/ (\E n \in 0 .. 1 : CallTruncate(f, n)) \/ CallWrite(f)
    PROVE  JInv'
  <1>1. UNCHANGED <<proc, run, inodeVars, journalVars, rounds, committed, queue>> /\ proc = "mounted"
    BY DEF CallChmod, CallTruncate, CallWrite, Ready
  <1>2. RingIsQueue' /\ RoundsDone' /\ Shapes'
    BY <1>1, QuietQueue DEF JInv, Shapes, inodeVars, journalVars
  <1>3. rounds = 0 /\ Null \in Slots /\ mem[f] \in InodeType
    BY <1>1, RingAssumption DEF JInv, Control, Null, Slots, Shapes
  <1>4. op' \in Calls /\ pc' \in {"prev", "alloc", "data"} /\ (pc' # "prev" => op' \in WriteCalls)
    <2>1. ASSUME NEW m \in Modes, CallChmod(f, m) PROVE op' \in ShortCalls /\ pc' = "prev"
      <3>1. [type |-> "CHMOD", arg |-> m] \in Requests
        BY DEF Requests, Args, ArgsOf, LoggedTypes
      <3> QED BY <1>3, <2>1, <3>1 DEF CallChmod, ShortCalls
    <2>2. ASSUME NEW n \in 0 .. 1, CallTruncate(f, n) PROVE op' \in ShortCalls /\ pc' = "prev"
      <3>1. [type |-> "TRUNCATE", arg |-> n] \in Requests
        BY DEF Requests, Args, ArgsOf, LoggedTypes
      <3> QED BY <1>3, <2>2, <3>1 DEF CallTruncate, ShortCalls
    <2>3. CASE CallWrite(f)
      <3>1. [type |-> "WRITE", arg |-> Null] \in Requests
        BY DEF Requests, Args, ArgsOf, LoggedTypes
      <3> QED BY <1>3, <2>3, <3>1 DEF CallWrite, WriteCalls, Calls
    <2> QED BY <2>1, <2>2, <2>3 DEF Calls
  <1>5. Control' /\ HeadStep'
    BY <1>1, <1>3, <1>4 DEF Control, HeadStep, Running
  <1> QED BY <1>2, <1>5 DEF JInv

LEMMA StepWriteAlloc == ASSUME JInv, WriteAlloc PROVE JInv'
  <1>1. RingIsQueue' /\ RoundsDone' /\ Shapes'
    BY QuietQueue DEF WriteAlloc, JInv, Shapes, journalVars
  <1>2. proc = "mounted" /\ rounds = 0 /\ op \in WriteCalls
    BY DEF JInv, Control, WriteAlloc
  <1>3. (op' = Idle /\ pc' = "idle") \/ (op' \in WriteCalls /\ pc' = "set")
    BY <1>2, CallBlock DEF WriteAlloc
  <1>4. Control' /\ HeadStep'
    BY <1>2, <1>3 DEF WriteAlloc, Control, HeadStep, Running, Calls
  <1> QED BY <1>1, <1>4 DEF JInv

LEMMA StepWriteSet == ASSUME JInv, WriteSet PROVE JInv'
  <1>1. RingIsQueue' /\ RoundsDone'
    BY QuietQueue DEF WriteSet, journalVars
  <1>2. proc = "mounted" /\ rounds = 0 /\ op \in WriteCalls /\ op \in Calls
    BY DEF JInv, Control, WriteSet, Calls
  <1>3. mem' \in [Files -> InodeType] /\ disk' \in [Files -> InodeType]
    BY <1>2, CallIs, InodeWriteTypes DEF WriteSet, JInv
  <1>4. Shapes' /\ Control' /\ HeadStep'
    BY <1>2, <1>3 DEF WriteSet, JInv, Shapes, journalVars, Control, HeadStep, Running
  <1> QED BY <1>1, <1>4 DEF JInv

LEMMA StepWriteData == ASSUME JInv, WriteData PROVE JInv'
  <1>1. RingIsQueue' /\ RoundsDone'
    BY QuietQueue DEF WriteData, journalVars
  <1>2. proc = "mounted" /\ rounds = 0 /\ op \in WriteCalls /\ op \in Calls
    BY DEF JInv, Control, WriteData, Calls
  <1>3. mem' \in [Files -> InodeType] /\ disk' \in [Files -> InodeType]
    <2>1. CASE op.node.size < 1
      <3>1. op.f \in Files /\ [op.node EXCEPT !.size = 1] \in InodeType
        BY <1>2, CallIs DEF InodeType
      <3> QED BY <2>1, <3>1, InodeWriteTypes DEF WriteData, JInv
    <2>2. CASE ~(op.node.size < 1)
      BY <2>2 DEF WriteData, JInv, Shapes
    <2> QED BY <2>1, <2>2
  <1>4. Shapes' /\ Control' /\ HeadStep'
    BY <1>2, <1>3 DEF WriteData, JInv, Shapes, journalVars, Control, HeadStep, Running
  <1> QED BY <1>1, <1>4 DEF JInv

LEMMA StepVisit == ASSUME JInv, Visit PROVE JInv'
  <1>1. RingIsQueue' /\ RoundsDone' /\ Shapes'
    BY QuietQueue DEF Visit, JInv, Shapes, journalVars, inodeVars
  <1>2. head \in Slots /\ Shapes /\ rounds < RingSize
    BY DEF JInv, Shapes, Visit
  <1>3. proc \in {"replaying", "destroying"} /\ op = Idle
    BY DEF JInv, Control, Visit
  <1>4. Running' => RunOK' /\ run'.through = TRUE /\ proc = "replaying"
    <2> SUFFICES ASSUME Running' PROVE RunOK' /\ run'.through = TRUE /\ proc = "replaying"
      OBVIOUS
    <2>1. /\ pc' = "run" /\ ring[head] \in Entries /\ proc = "replaying"
          /\ run' = [type |-> ring[head].type, f |-> ring[head].f, arg |-> ring[head].arg,
                     through |-> TRUE]
      BY <1>2, <1>3, PendingIs DEF Visit, Running
    <2> QED BY <1>2, <2>1, PendingIs, RunBegins
  <1>5. Control'
    BY <1>2, <1>3, <1>4 DEF Visit, Control
  <1>6. HeadStep'
    BY <1>2, PendingIs DEF Visit, HeadStep, Running, journalVars, Pending
  <1> QED BY <1>1, <1>5, <1>6 DEF JInv

\* The beginning and the end of the phases of the process.
LEMMA StepPhases ==
    ASSUME JInv, Mount \/ Destroy \/ Replayed \/ Unmounted \/ Kill
    PROVE  JInv'
  <1>1. UNCHANGED <<ring, head, queue>> /\ rounds' \in {rounds, 0}
    BY DEF Mount, Destroy, Replayed, Unmounted, Kill, journalVars
  <1>2. RingIsQueue' /\ RoundsDone'
    BY <1>1, QuietQueue
  <1>3. Shapes'
    BY RingAssumption DEF Mount, Destroy, Replayed, Unmounted, Kill, JInv, Shapes, journalVars, inodeVars
  <1>4. Control'
    BY DEF Mount, Destroy, Replayed, Unmounted, Kill, Ready, JInv, Control, Running, Calls
  <1>5. HeadStep'
    BY DEF Mount, Destroy, Replayed, Unmounted, Kill, HeadStep, Running
  <1> QED BY <1>2, <1>3, <1>4, <1>5 DEF JInv

\* Every step keeps the invariant.
LEMMA StepJ == JInv /\ [Next]_vars => JInv'
  <1> SUFFICES ASSUME JInv, [Next]_vars PROVE JInv'
    OBVIOUS
  <1>1. CASE UNCHANGED vars
    <2>1. RingIsQueue' /\ RoundsDone'
      BY <1>1, QuietQueue DEF vars, journalVars
    <2>2. Shapes' /\ Control' /\ HeadStep'
      BY <1>1 DEF vars, journalVars, inodeVars, JInv, Shapes, Control, HeadStep, Running, RunOK
    <2> QED BY <2>1, <2>2 DEF JInv
  <1>2. CASE Step
    BY <1>2, StepRunChmod, StepRunTruncateFree, StepRunTruncateClear, StepRunTruncateSize,
       StepRunWrite, StepPrev, StepMark, StepAdvance, StepLogEntry, StepWriteAlloc, StepWriteSet,
       StepWriteData, StepVisit, StepNextRound, StepPhases DEF Step
  <1> QED BY <1>1, <1>2, StepCalls, StepPhases DEF Next

\* A queue is no longer than the ring.
LEMMA QueueFits ==
    ASSUME Shapes, RingIsQueue
    PROVE  Len(queue) =< RingSize
  <1>1. Len(queue) \in Nat /\ RingSize \in Nat
    BY RingAssumption DEF Shapes
  <1>2. PICK pos \in [1 .. Len(queue) -> 1 .. RingSize] :
            \A i, j \in 1 .. Len(queue) : i < j => pos[i] < pos[j]
    BY DEF RingIsQueue
  <1>3. \A i, j \in 1 .. Len(queue) : i # j => pos[i] # pos[j]
    BY <1>1, <1>2
  <1>4. \A n \in Nat : IsFiniteSet(1 .. n) /\ Cardinality(1 .. n) = IF 1 > n THEN 0 ELSE n - 1 + 1
    BY FS_Interval
  <1>5. /\ IsFiniteSet(1 .. Len(queue)) /\ Cardinality(1 .. Len(queue)) = Len(queue)
        /\ IsFiniteSet(1 .. RingSize) /\ Cardinality(1 .. RingSize) = RingSize
    BY <1>1, <1>4
  <1> QED BY <1>1, <1>3, <1>5, FS_PigeonHole

-----------------------------------------------------------------------------
LEMMA JournalInvariance == Spec => []JInv
  BY InitJ, StepJ, PTL DEF Spec

\* Every variable of the journal keeps its type, and the entries to execute
\* never outnumber the blocks of the ring.
THEOREM JournalTypes == Spec => []TypeOK
  <1>1. JInv => TypeOK
    <2> SUFFICES ASSUME JInv PROVE TypeOK
      OBVIOUS
    <2>1. Shapes /\ Len(queue) =< RingSize
      BY QueueFits DEF JInv
    <2>2. \A k \in Slots : ring[k].type \in {"UNINITIALIZED", "CHMOD", "TRUNCATE", "WRITE"}
      BY <2>1, PendingIs DEF LoggedTypes
    <2>3. proc \in {"down", "replaying", "mounted", "destroying"}
      BY DEF JInv, Control
    <2> QED BY <2>1, <2>2, <2>3 DEF TypeOK, Shapes, InodeType
  <1> QED BY <1>1, JournalInvariance, PTL

\* The ring is a queue for every size of the ring: the entries that are not
\* synced are met from the head on in the order in which they were logged,
\* across wraps of the head and kills between any two steps of logging, replay
\* and unmount.
THEOREM JournalIsQueue == Spec => []RingIsQueue
  <1>1. JInv => RingIsQueue
    BY DEF JInv
  <1> QED BY <1>1, JournalInvariance, PTL

\* A queue with no pending entry in the ring is empty.
LEMMA NothingLeft ==
    ASSUME JInv, rounds = RingSize
    PROVE  queue = <<>>
  <1>1. \A k \in 1 .. RingSize : ~Pending(RingFrom(head)[k])
    BY RingAssumption DEF JInv, RoundsDone
  <1>2. PICK pos \in [1 .. Len(queue) -> 1 .. RingSize] :
            \A k \in 1 .. RingSize :
                Pending(RingFrom(head)[k]) <=> \E i \in 1 .. Len(queue) : pos[i] = k
    BY DEF JInv, RingIsQueue
  <1>3. ~(1 \in 1 .. Len(queue))
    BY <1>1, <1>2
  <1>4. queue \in Seq(Entries)
    BY DEF JInv, Shapes
  <1> QED BY <1>3, <1>4

\* Only the end of sync_journal makes a replaying process serve calls.
LEMMA ReplayedIs == ASSUME Next, proc = "replaying", proc' = "mounted" PROVE Replayed
  BY DEF Next, Step, RunChmod, RunTruncateFree, RunTruncateClear, RunTruncateSize, RunWrite,
     Prev, Mark, Advance, LogEntry, WriteAlloc, WriteSet, WriteData, Visit, NextRound,
     Unmounted, CallChmod, CallTruncate, CallWrite, Ready, Mount, Destroy, Kill

\* sync_journal leaves nothing to execute: when the mount begins to serve
\* calls, every entry logged before has been executed and marked.
THEOREM ReplayIsComplete == Spec => ReplayComplete
  <1>1. JInv /\ [Next]_vars =>
            [proc = "replaying" /\ proc' = "mounted" => queue' = <<>>]_vars
    <2> SUFFICES ASSUME JInv, Next, proc = "replaying", proc' = "mounted"
                 PROVE  queue' = <<>>
      OBVIOUS
    <2>1. Replayed
      BY ReplayedIs
    <2>2. rounds = RingSize /\ queue' = queue
      BY <2>1 DEF Replayed
    <2> QED BY <2>2, NothingLeft
  <1> QED BY <1>1, JournalInvariance, PTL DEF Spec, ReplayComplete

-----------------------------------------------------------------------------
(***************************************************************************)
(* Recovery of modes.                                                      *)
(***************************************************************************)
\* A step that logs and marks nothing, with what is cached kept or reread.
LEMMA ModesQuiet ==
    ASSUME ModesKept, UNCHANGED <<queue, committed, disk>>, mem' \in {mem, disk}
    PROVE  ModesKept'
  BY DEF ModesKept, ChangesMode

\* An inode_write that keeps the mode, or of a file whose last change of mode is
\* in the journal.
LEMMA ModesWrite ==
    ASSUME Shapes, ModesKept, UNCHANGED <<queue, committed>>,
           NEW f \in Files, NEW node \in InodeType, NEW through, inode_write(f, node, through),
           node.mode = mem[f].mode \/ \E i \in 1 .. Len(queue) : ChangesMode(i, f)
    PROVE  ModesKept'
  <1> SUFFICES ASSUME NEW g \in Files,
                      \A i \in 1 .. Len(queue) : ~ChangesMode(i, g),
                      mem[g].mode = committed[g], disk[g].mode = committed[g]
               PROVE  mem'[g].mode = committed[g] /\ disk'[g].mode = committed[g]
    BY DEF ModesKept, ChangesMode
  <1>1. mem'[g].mode = mem[g].mode
    BY DEF Shapes, inode_write
  <1>2. disk'[g] \in {mem'[g], disk[g]}
    BY DEF Shapes, inode_write
  <1> QED BY <1>1, <1>2

\* The metadata operations.
LEMMA ModesRun ==
    ASSUME MInv, JInv', RunChmod \/ RunTruncateClear \/ RunTruncateSize \/ RunWrite
    PROVE  ModesKept' /\ ModeSteps'
  <1>1. Shapes /\ Running /\ RunOK /\ run.f \in Files /\ mem[run.f] \in InodeType
    BY RunIs DEF MInv, JInv, Running, RunOK, Shapes, RunChmod, RunTruncateClear, RunTruncateSize, RunWrite
  <1>2. UNCHANGED <<queue, committed, ring, head>>
    BY DEF RunChmod, RunTruncateClear, RunTruncateSize, RunWrite, journalVars
  <1>3. CASE RunChmod
    <2>1. [mem[run.f] EXCEPT !.mode = run.arg] \in InodeType
      BY <1>1, <1>3 DEF RunOK, RunChmod, ArgsOf, InodeType
    <2>2. \E i \in 1 .. Len(queue) : ChangesMode(i, run.f)
      BY <1>3 DEF RunChmod, MInv, ModeSteps
    <2>3. ModesKept'
      BY <1>1, <1>2, <1>3, <2>1, <2>2, ModesWrite DEF RunChmod, MInv
    <2>4. ModeSteps'
      <3> SUFFICES ASSUME run.through
                   PROVE  mem'[run.f].mode = run.arg /\ disk'[run.f].mode = run.arg
        BY <1>1, <1>2, <1>3 DEF RunChmod, RunEnds, ModeSteps, MInv, JInv, HeadStep
      <3> QED BY <1>1, <1>3 DEF RunChmod, inode_write, Shapes, InodeType
    <2> QED BY <2>3, <2>4
  <1>4. CASE RunTruncateClear
    <2>1. [mem[run.f] EXCEPT !.ptr = Null] \in InodeType
          /\ [mem[run.f] EXCEPT !.ptr = Null].mode = mem[run.f].mode
      BY <1>1 DEF InodeType
    <2>2. ModesKept'
      BY <1>1, <1>2, <1>4, <2>1, ModesWrite DEF RunTruncateClear, MInv
    <2> QED BY <1>4, <2>2 DEF RunTruncateClear, ModeSteps
  <1>5. CASE RunTruncateSize
    <2>1. run.arg \in 0 .. 1 /\ run.type = "TRUNCATE"
      BY <1>1, <1>5 DEF RunOK, RunTruncateSize, ArgsOf
    <2>2. [mem[run.f] EXCEPT !.size = run.arg] \in InodeType
          /\ [mem[run.f] EXCEPT !.size = run.arg].mode = mem[run.f].mode
      BY <1>1, <2>1 DEF InodeType
    <2>3. ModesKept'
      BY <1>1, <1>2, <1>5, <2>2, ModesWrite DEF RunTruncateSize, MInv
    <2> QED BY <1>1, <1>2, <1>5, <2>1, <2>3 DEF RunTruncateSize, RunEnds, ModeSteps, MInv, JInv, HeadStep
  <1>6. CASE RunWrite
    <2>1. [mem[run.f] EXCEPT !.ptr = run.arg] \in InodeType
          /\ [mem[run.f] EXCEPT !.ptr = run.arg].mode = mem[run.f].mode
      BY <1>1, <1>6 DEF RunOK, RunWrite, ArgsOf, InodeType
    <2>2. ModesKept'
      BY <1>1, <1>2, <1>6, <2>1, ModesWrite DEF RunWrite, MInv
    <2> QED BY <1>1, <1>2, <1>6, <2>2 DEF RunWrite, RunEnds, ModeSteps, MInv, JInv, HeadStep
  <1> QED BY <1>3, <1>4, <1>5, <1>6

\* An entry that begins to be executed again is in the queue.
LEMMA ModesAgain ==
    ASSUME MInv, Prev \/ Visit
    PROVE  ModesKept' /\ ModeSteps'
  <1>1. UNCHANGED <<queue, committed, disk, mem, ring, head>> /\ Shapes /\ head \in Slots
    BY DEF Prev, Visit, inodeVars, journalVars, MInv, JInv, Shapes
  <1>2. ModesKept'
    BY <1>1, ModesQuiet DEF MInv
  <1>3. ASSUME pc' = "run" PROVE \E i \in 1 .. Len(queue) : queue[i].type = run'.type /\ queue[i].f = run'.f
    <2>1. Pending(ring[head]) /\ run'.type = ring[head].type /\ run'.f = ring[head].f
      BY <1>1, <1>3, PendingIs DEF Prev, Visit, Pending
    <2>2. Len(queue) > 0 /\ queue[1] = ring[head] /\ queue \in Seq(Entries)
      BY <1>1, <2>1, HeadFirst DEF MInv, JInv, Shapes
    <2>3. 1 \in 1 .. Len(queue)
      BY <2>2
    <2> QED BY <2>1, <2>2, <2>3
  <1>4. pc' = "mark" => ring[head].type = "UNINITIALIZED"
    BY DEF Prev, Visit, MInv
  <1> QED BY <1>1, <1>2, <1>3, <1>4 DEF ModeSteps, ChangesMode

\* The entry marked was the first of the queue: if it was the last change of a
\* mode, that mode has reached cache and disk.
LEMMA ModesMark ==
    ASSUME MInv, Mark
    PROVE  ModesKept' /\ ModeSteps'
  <1>1. ModeSteps' /\ Shapes /\ head \in Slots /\ ~ring[head].synced
    BY DEF Mark, ModeSteps, MInv, JInv, HeadStep, Shapes
  <1>2. CASE ring[head].type = "UNINITIALIZED"
    <2>1. ModesKept'
      BY <1>2, ModesQuiet DEF Mark, MInv, inodeVars
    <2> QED BY <1>1, <2>1
  <1>3. CASE ring[head].type # "UNINITIALIZED"
    <2>1. /\ Len(queue) > 0 /\ queue[1] = ring[head] /\ queue \in Seq(Entries)
          /\ queue' = Tail(queue) /\ UNCHANGED <<mem, disk, committed>>
      BY <1>1, <1>3, HeadFirst DEF Pending, Mark, MInv, JInv, Shapes, inodeVars
    <2>2. /\ Len(queue') = Len(queue) - 1
          /\ \A i \in 1 .. Len(queue') : queue'[i] = queue[i + 1]
          /\ Len(queue) \in Nat
      BY <2>1
    <2>3. ASSUME NEW f \in Files
          PROVE  \/ \E i \in 1 .. Len(queue') :
                      /\ queue'[i].type = "CHMOD" /\ queue'[i].f = f /\ queue'[i].arg = committed[f]
                      /\ \A j \in 1 .. Len(queue') :
                            j > i => ~(queue'[j].type = "CHMOD" /\ queue'[j].f = f)
                 \/ /\ \A i \in 1 .. Len(queue') : ~(queue'[i].type = "CHMOD" /\ queue'[i].f = f)
                    /\ mem[f].mode = committed[f] /\ disk[f].mode = committed[f]
      <3>1. CASE \A i \in 1 .. Len(queue) : ~ChangesMode(i, f)
        BY <2>2, <3>1 DEF MInv, ModesKept, ChangesMode
      <3>2. ASSUME NEW i \in 1 .. Len(queue), ChangesMode(i, f), queue[i].arg = committed[f],
                   \A j \in 1 .. Len(queue) : j > i => ~ChangesMode(j, f), i = 1
            PROVE  /\ \A k \in 1 .. Len(queue') : ~(queue'[k].type = "CHMOD" /\ queue'[k].f = f)
                   /\ mem[f].mode = committed[f] /\ disk[f].mode = committed[f]
        <4>1. ring[head].type = "CHMOD" /\ ring[head].f = f /\ ring[head].arg = committed[f]
          BY <2>1, <3>2 DEF ChangesMode
        <4>2. mem[f].mode = committed[f] /\ disk[f].mode = committed[f]
          BY <4>1 DEF MInv, ModeSteps, Mark
        <4>3. \A k \in 1 .. Len(queue') : k + 1 \in 1 .. Len(queue) /\ k + 1 > 1
          BY <2>2
        <4> QED BY <2>2, <3>2, <4>2, <4>3 DEF ChangesMode
      <3>3. ASSUME NEW i \in 1 .. Len(queue), ChangesMode(i, f), queue[i].arg = committed[f],
                   \A j \in 1 .. Len(queue) : j > i => ~ChangesMode(j, f), i # 1
            PROVE  \E k \in 1 .. Len(queue') :
                      /\ queue'[k].type = "CHMOD" /\ queue'[k].f = f /\ queue'[k].arg = committed[f]
                      /\ \A j \in 1 .. Len(queue') :
                            j > k => ~(queue'[j].type = "CHMOD" /\ queue'[j].f = f)
        <4>1. i - 1 \in 1 .. Len(queue') /\ queue'[i - 1] = queue[i]
          BY <2>2, <3>3
        <4>2. \A j \in 1 .. Len(queue') :
                 j > i - 1 => j + 1 \in 1 .. Len(queue) /\ j + 1 > i /\ queue'[j] = queue[j + 1]
          BY <2>2
        <4> QED BY <3>3, <4>1, <4>2 DEF ChangesMode
      <3> QED BY <3>1, <3>2, <3>3 DEF MInv, ModesKept
    <2>4. ModesKept'
      BY <2>1, <2>3 DEF ModesKept, ChangesMode
    <2> QED BY <1>1, <2>4
  <1> QED BY <1>2, <1>3

\* A change of mode is logged and becomes the last one.
LEMMA ModesLog ==
    ASSUME MInv, LogEntry
    PROVE  ModesKept' /\ ModeSteps'
  <1>1. proc = "mounted" /\ op \in Calls /\ op.fn # "write"
    BY DEF MInv, JInv, Control, LogEntry
  <1> DEFINE e == [type |-> op.entry.type, f |-> op.f, arg |-> op.entry.arg, synced |-> FALSE]
  <1>2. /\ e.type = op.entry.type /\ e.f = op.f /\ e.arg = op.entry.arg
        /\ op.f \in Files /\ op.slot \in Slots
        /\ e.type # "WRITE" /\ (e.type = "CHMOD" <=> op.fn = "chmod")
    BY <1>1, CallIs
  <1>3. ring' = [ring EXCEPT ![op.slot] = e] /\ queue' = Append(queue, ring'[op.slot])
    BY <1>2 DEF LogEntry
  <1>4. /\ ring'[op.slot] = e /\ queue' = Append(queue, e) /\ queue \in Seq(Entries)
        /\ committed \in [Files -> Modes]
    BY <1>2, <1>3 DEF MInv, JInv, Shapes
  <1>5. run'.type = e.type /\ run'.f = e.f /\ pc' = "run"
    BY <1>1 DEF LogEntry
  <1> HIDE DEF e
  <1>6. /\ Len(queue') = Len(queue) + 1 /\ queue'[Len(queue) + 1] = e /\ Len(queue) \in Nat
        /\ \A i \in 1 .. Len(queue) : queue'[i] = queue[i]
    BY <1>4
  <1>7. ModeSteps'
    <2>1. Len(queue) + 1 \in 1 .. Len(queue')
      BY <1>6
    <2> QED BY <1>5, <1>6, <2>1 DEF ModeSteps, ChangesMode
  <1>8. ASSUME NEW f \in Files
        PROVE  \/ \E i \in 1 .. Len(queue') :
                    /\ queue'[i].type = "CHMOD" /\ queue'[i].f = f /\ queue'[i].arg = committed'[f]
                    /\ \A j \in 1 .. Len(queue') :
                          j > i => ~(queue'[j].type = "CHMOD" /\ queue'[j].f = f)
               \/ /\ \A i \in 1 .. Len(queue') : ~(queue'[i].type = "CHMOD" /\ queue'[i].f = f)
                  /\ mem[f].mode = committed'[f] /\ disk[f].mode = committed'[f]
    <2>1. CASE e.type = "CHMOD" /\ e.f = f
      <3>1. committed'[f] = e.arg
        BY <1>2, <1>4, <2>1 DEF LogEntry
      <3>2. /\ Len(queue) + 1 \in 1 .. Len(queue')
            /\ \A j \in 1 .. Len(queue') : ~(j > Len(queue) + 1)
        BY <1>6
      <3> QED BY <1>6, <2>1, <3>1, <3>2
    <2>2. CASE ~(e.type = "CHMOD" /\ e.f = f)
      <3>1. committed'[f] = committed[f]
        BY <1>2, <1>4, <2>2 DEF LogEntry
      <3>2. \A j \in 1 .. Len(queue') :
                queue'[j].type = "CHMOD" /\ queue'[j].f = f => j \in 1 .. Len(queue) /\ ChangesMode(j, f)
        BY <1>6, <2>2 DEF ChangesMode
      <3>3. \A j \in 1 .. Len(queue) : j \in 1 .. Len(queue') /\ queue'[j] = queue[j]
        BY <1>6
      <3>4. CASE \A i \in 1 .. Len(queue) : ~ChangesMode(i, f)
        BY <3>1, <3>2, <3>4 DEF MInv, ModesKept
      <3>5. ASSUME NEW i \in 1 .. Len(queue), ChangesMode(i, f), queue[i].arg = committed[f],
                   \A j \in 1 .. Len(queue) : j > i => ~ChangesMode(j, f)
            PROVE  /\ i \in 1 .. Len(queue')
                   /\ queue'[i].type = "CHMOD" /\ queue'[i].f = f /\ queue'[i].arg = committed'[f]
                   /\ \A j \in 1 .. Len(queue') :
                          j > i => ~(queue'[j].type = "CHMOD" /\ queue'[j].f = f)
        BY <3>1, <3>2, <3>3, <3>5 DEF ChangesMode
      <3> QED BY <3>4, <3>5 DEF MInv, ModesKept
    <2> QED BY <2>1, <2>2
  <1>9. ModesKept'
    BY <1>8 DEF LogEntry, inodeVars, ModesKept, ChangesMode
  <1> QED BY <1>7, <1>9

\* The steps that touch neither inodes nor the queue, and the ends of phases.
LEMMA ModesOther ==
    ASSUME MInv, UNCHANGED <<queue, committed, disk>>, mem' \in {mem, disk}, pc' \notin {"run", "mark"}
    PROVE  ModesKept' /\ ModeSteps'
  BY ModesQuiet DEF MInv, ModeSteps

\* Every step of a mount that serves chmod and truncate keeps the invariant.
LEMMA StepM == ModeOps /\ MInv /\ [Next]_vars => MInv'
  <1> SUFFICES ASSUME ModeOps, MInv, [Next]_vars PROVE MInv'
    OBVIOUS
  <1>1. JInv'
    BY StepJ DEF MInv
  <1>2. "write" \notin Ops /\ "unmount" \notin Ops
    BY DEF ModeOps
  <1>3. proc # "destroying" /\ op \notin WriteCalls
    BY CallIs DEF MInv, Calls
  <1> SUFFICES proc' # "destroying" /\ op'.fn # "write" /\ ModesKept' /\ ModeSteps'
    BY <1>1 DEF MInv
  <1>4. CASE UNCHANGED vars
    <2>1. ModesKept'
      BY <1>4, ModesQuiet DEF MInv, vars, inodeVars
    <2> QED BY <1>4, <2>1 DEF MInv, vars, inodeVars, journalVars, ModeSteps, ChangesMode
  <1>5. CASE RunChmod \/ RunTruncateClear \/ RunTruncateSize \/ RunWrite
    <2>1. ModesKept' /\ ModeSteps'
      BY <1>1, <1>5, ModesRun
    <2>2. proc' = proc /\ (op' = op \/ op' = Idle)
      BY <1>5 DEF RunChmod, RunTruncateClear, RunTruncateSize, RunWrite, RunEnds
    <2> QED BY <1>3, <2>1, <2>2 DEF MInv, Idle
  <1>6. CASE RunTruncateFree
    BY <1>6, ModesOther DEF MInv, RunTruncateFree
  <1>7. CASE Prev \/ Visit
    BY <1>7, ModesAgain DEF MInv, Prev, Visit
  <1>8. CASE Mark
    BY <1>8, ModesMark DEF MInv, Mark
  <1>9. CASE Advance
    <2>1. op \in Calls /\ head \in Slots
      BY <1>9 DEF MInv, JInv, Control, Shapes, Advance
    <2>2. [op EXCEPT !.slot = head].fn = op.fn
      BY <2>1, CallSlot
    <2> QED BY <1>9, <2>2, ModesOther DEF MInv, Advance, inodeVars
  <1>10. CASE LogEntry
    BY <1>10, ModesLog DEF MInv, LogEntry
  <1>11. CASE WriteAlloc \/ WriteSet \/ WriteData
    BY <1>3, <1>11 DEF WriteAlloc, WriteSet, WriteData, MInv, JInv, Control
  <1>12. CASE NextRound \/ Replayed
    BY <1>12, ModesOther DEF MInv, NextRound, Replayed, inodeVars
  <1>13. CASE Mount \/ Kill
    BY <1>13, ModesOther DEF MInv, Mount, Kill, Idle
  <1>14. CASE Unmounted \/ Destroy
    BY <1>2, <1>3, <1>14 DEF Unmounted, Destroy, Ready
  <1>15. ASSUME NEW f \in Files, (\E m \in Modes : CallChmod(f, m)) \/ (\E n \in 0 .. 1 : CallTruncate(f, n))
         PROVE  proc' # "destroying" /\ op'.fn # "write" /\ ModesKept' /\ ModeSteps'
    BY <1>15, ModesOther DEF MInv, CallChmod, CallTruncate, inodeVars
  <1>16. ASSUME NEW f \in Files, CallWrite(f)
         PROVE  FALSE
    BY <1>2, <1>16 DEF CallWrite, Ready
  <1> QED
    BY <1>4, <1>5, <1>6, <1>7, <1>8, <1>9, <1>10, <1>11, <1>12, <1>13, <1>14, <1>15, <1>16
    DEF Next, Step

LEMMA InitM == Init => MInv
  <1> SUFFICES ASSUME Init PROVE MInv
    OBVIOUS
  <1>1. JInv
    BY InitJ
  <1>2. ModesKept
    <2>1. \A i \in 1 .. Len(queue) : FALSE
      BY DEF Init
    <2> QED BY <2>1 DEF Init, ModesKept, EmptyFile
  <1> QED BY <1>1, <1>2 DEF Init, MInv, ModeSteps, Idle

\* Crash recovery of modes for every ring and any number of files: where chmod
\* and truncate are all that is called and the process is never unmounted but
\* only killed, the mount that follows serves every file with the mode last
\* logged for it, although old entries are executed again on the way.
THEOREM ModesAreRecovered == ModeOps => (Spec => ModeRecovered)
  <1> SUFFICES ASSUME ModeOps PROVE Spec => ModeRecovered
    OBVIOUS
  <1>1. MInv /\ [Next]_vars => MInv'
    BY StepM
  <1>2. MInv /\ [Next]_vars =>
            [proc = "replaying" /\ proc' = "mounted"
                => \A f \in Files : mem'[f].mode = committed[f]]_vars
    <2> SUFFICES ASSUME MInv, Next, proc = "replaying", proc' = "mounted", NEW f \in Files
                 PROVE  mem'[f].mode = committed[f]
      OBVIOUS
    <2>1. Replayed
      BY ReplayedIs
    <2>2. queue = <<>> /\ mem' = mem
      BY <2>1, NothingLeft DEF Replayed, inodeVars, MInv
    <2>3. \A i \in 1 .. Len(queue) : FALSE
      BY <2>2
    <2> QED BY <2>2, <2>3 DEF MInv, ModesKept
  <1> QED BY <1>1, <1>2, InitM, PTL DEF Spec, ModeRecovered
=============================================================================
