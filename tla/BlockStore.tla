----------------------------- MODULE BlockStore -----------------------------
(***************************************************************************)
(* What the block cache promises its callers, without slots, indexes or    *)
(* lists: every block has the contents callers see (mem), the contents the *)
(* disk image holds (disk), and a mark once write_block was called for it  *)
(* and its contents have not been written back since.  A marked block is   *)
(* never forgotten, except by a crash, and a clean unmount leaves no mark. *)
(***************************************************************************)
CONSTANTS
    Blocks,     \* block numbers of the disk image
    Pages       \* contents a block can have

VARIABLES
    mode,       \* "up" while mounted, "clean" after an unmount, "crashed" after a crash
    mem,        \* contents of each block as the file system sees them
    disk,       \* contents of each block in the disk image
    marked      \* blocks written by write_block and not written back yet

vars == <<mode, mem, disk, marked>>

Init ==
    /\ mode = "clean"
    /\ disk \in [Blocks -> Pages]
    /\ mem = disk
    /\ marked = {}

\* The file system is mounted: it sees what the disk holds.
Start ==
    /\ mode # "up"
    /\ mode' = "up"
    /\ UNCHANGED <<mem, disk, marked>>

\* write_block: new contents, to be written back.
Write(b, p) ==
    /\ mode = "up"
    /\ mem' = [mem EXCEPT ![b] = p]
    /\ marked' = marked \cup {b}
    /\ UNCHANGED <<mode, disk>>

\* A caller changes a page through the pointer get_block gave it.
Scribble(b, p) ==
    /\ mode = "up"
    /\ mem' = [mem EXCEPT ![b] = p]
    /\ UNCHANGED <<mode, disk, marked>>

\* A caller copies the page to the disk itself (disk_write_block).
WriteThrough(b) ==
    /\ mode = "up"
    /\ disk' = [disk EXCEPT ![b] = mem[b]]
    /\ UNCHANGED <<mode, mem, marked>>

\* The cache writes a block back: eviction, fsync or sync.
Flush(b) ==
    /\ mode = "up"
    /\ disk' = [disk EXCEPT ![b] = mem[b]]
    /\ marked' = marked \ {b}
    /\ UNCHANGED <<mode, mem>>

\* The cache drops a page that nobody asked it to write back.
Forget(b) ==
    /\ mode = "up"
    /\ b \notin marked
    /\ mem' = [mem EXCEPT ![b] = disk[b]]
    /\ UNCHANGED <<mode, disk, marked>>

\* A clean unmount: nothing is left to write back.
Stop ==
    /\ mode = "up"
    /\ marked = {}
    /\ mode' = "clean"
    /\ mem' = disk
    /\ UNCHANGED <<disk, marked>>

\* The process dies: the disk image keeps what was written to it.
Crash ==
    /\ mode = "up"
    /\ mode' = "crashed"
    /\ mem' = disk
    /\ marked' = {}
    /\ UNCHANGED disk

Next ==
    \/ Start
    \/ Stop
    \/ Crash
    \/ \E b \in Blocks :
        \/ \E p \in Pages : Write(b, p) \/ Scribble(b, p)
        \/ WriteThrough(b)
        \/ Flush(b)
        \/ Forget(b)

Spec == Init /\ [][Next]_vars
=============================================================================
