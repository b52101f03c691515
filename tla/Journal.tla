------------------------------ MODULE Journal -------------------------------
(***************************************************************************)
(* The metadata journal (journal.c) under the handlers nbtrfs_chmod,       *)
(* nbtrfs_truncate and nbtrfs_write (fuse.c), the replay at mount and      *)
(* nbtrfs_destroy, on the single-threaded mount, with a kill between any   *)
(* two steps.                                                              *)
(*                                                                         *)
(* Journal blocks, the superblock and the block bitmap are written through *)
(* to the disk image; inodes change in the cache, and reach the disk when  *)
(* an inode_write with write_through, or the unmount, writes their page.   *)
(* A file has one page, found by one direct pointer; its inode is          *)
(* abstracted to mode, size and that pointer.                              *)
(***************************************************************************)
EXTENDS Integers, Sequences

CONSTANTS
    Files,          \* files, by inode
    InodePage,      \* the page of the inode table that holds a file's inode
    Modes,          \* modes of a file
    InitMode,       \* the mode the files start with
    NBlocks,        \* data blocks 1 .. NBlocks
    RingSize,       \* journal blocks used: calculate_journal_size() - 1
    Ops,            \* what the users do: of "chmod", "truncate", "write", "unmount"
    KillIn          \* the phases in which the process may be killed

ASSUME ModesAssumption == InitMode \in Modes
ASSUME RingAssumption == RingSize \in Nat \ {0} /\ NBlocks \in Nat
ASSUME OpsAssumption == Ops \subseteq {"chmod", "truncate", "write", "unmount"}
ASSUME KillAssumption == KillIn \subseteq {"replaying", "mounted", "destroying"}

VARIABLES
    proc,           \* "down", "replaying", "mounted", "destroying"
    op,             \* the handler being executed
    pc,             \* its next step
    run,            \* the metadata operation under way, and whether it writes through
    mem,            \* inodes in the cache
    disk,           \* inodes in the disk image
    bitmap,         \* blocks marked as allocated
    ring,           \* journal blocks
    head,           \* superblock.journal_head
    superblock,     \* whether block 0 of the disk image is the superblock
    rounds,         \* journal blocks the loop at mount or unmount has visited
    committed,      \* history: the mode last logged for a file
    queue           \* history: entries logged and neither executed nor marked

inodeVars == <<mem, disk, bitmap>>
journalVars == <<ring, head, superblock>>
vars == <<proc, op, pc, run, inodeVars, journalVars, rounds, committed, queue>>

-----------------------------------------------------------------------------
Slots == 0 .. RingSize - 1
Null == 0
Blocks == 1 .. NBlocks

Idle == [fn |-> "none"]
NoRun == [type |-> "none"]
Uninitialized == [type |-> "UNINITIALIZED", synced |-> FALSE]
EmptyFile == [mode |-> InitMode, size |-> 0, ptr |-> Null]

\* Mutant of Following: the head wraps one block too late.
FollowingLate(h) == IF h = RingSize THEN 0 ELSE h + 1

\* The position after head: the last block of the journal is never used.
Following(h) == IF h = RingSize - 1 THEN 0 ELSE h + 1

Init ==
    /\ proc = "down"
    /\ op = Idle /\ pc = "idle" /\ run = NoRun
    /\ mem = [f \in Files |-> EmptyFile]
    /\ disk = [f \in Files |-> EmptyFile]
    /\ bitmap = {}
    /\ ring = [k \in Slots |-> Uninitialized]
    /\ head = 0
    /\ superblock = TRUE
    /\ rounds = 0
    /\ committed = [f \in Files |-> InitMode]
    /\ queue = <<>>

-----------------------------------------------------------------------------
\* Mutant of inode_write: write_through is ignored.
inode_write_cached(f, node, write_through) ==
    /\ mem' = [mem EXCEPT ![f] = node]
    /\ UNCHANGED disk

\* inode_write: the inode in the cache; with write_through its whole page goes
\* to the disk.
inode_write(f, node, write_through) ==
    /\ mem' = [mem EXCEPT ![f] = node]
    /\ disk' = IF write_through
               THEN [g \in Files |-> IF InodePage[g] = InodePage[f] THEN mem'[g] ELSE disk[g]]
               ELSE disk

\* Steps below belong to `run', an operation of metadata-api.c: called by a
\* handler, or by sync_entry with write_through.  Then sync_entry marks the
\* entry; a handler returns.
RunEnds ==
    /\ run' = NoRun
    /\ IF run.through THEN pc' = "mark" /\ UNCHANGED op ELSE pc' = "idle" /\ op' = Idle

\* _chmod.
RunChmod ==
    /\ pc = "run"
    /\ run.type = "CHMOD"
    /\ inode_write(run.f, [mem[run.f] EXCEPT !.mode = run.arg], run.through)
    /\ RunEnds
    /\ UNCHANGED <<proc, bitmap, journalVars, rounds, committed, queue>>

\* _truncate: the page is freed, its pointer is cleared, the size is set.
RunTruncateFree ==
    /\ pc = "run"
    /\ run.type = "TRUNCATE"
    /\ IF run.arg < mem[run.f].size /\ mem[run.f].ptr # Null
       THEN bitmap' = bitmap \ {mem[run.f].ptr} /\ pc' = "clear"
       ELSE UNCHANGED bitmap /\ pc' = "resize"
    /\ UNCHANGED <<proc, op, run, mem, disk, journalVars, rounds, committed, queue>>
RunTruncateClear ==
    /\ pc = "clear"
    /\ inode_write(run.f, [mem[run.f] EXCEPT !.ptr = Null], TRUE)
    /\ pc' = "resize"
    /\ UNCHANGED <<proc, op, run, bitmap, journalVars, rounds, committed, queue>>
RunTruncateSize ==
    /\ pc = "resize"
    /\ inode_write(run.f, [mem[run.f] EXCEPT !.size = run.arg], run.through)
    /\ RunEnds
    /\ UNCHANGED <<proc, bitmap, journalVars, rounds, committed, queue>>

\* sync_entry of a WRITE entry: the pointer is set again.
RunWrite ==
    /\ pc = "run"
    /\ run.type = "WRITE"
    /\ inode_write(run.f, [mem[run.f] EXCEPT !.ptr = run.arg], TRUE)
    /\ RunEnds
    /\ UNCHANGED <<proc, bitmap, journalVars, rounds, committed, queue>>

-----------------------------------------------------------------------------
\* Mutant of Prev: the entry at the head is overwritten without being executed.
PrevSkips ==
    /\ pc = "prev"
    /\ pc' = "advance"
    /\ UNCHANGED <<proc, op, run, inodeVars, journalVars, rounds, committed, queue>>

\* initialize_journal_entry, first part: an entry at the head that is not
\* synced is executed again (sync_entry), whether or not it took effect.
Prev ==
    /\ pc = "prev"
    /\ LET e == ring[head] IN
        IF e.synced THEN pc' = "advance" /\ UNCHANGED run
        ELSE IF e.type = "UNINITIALIZED" THEN pc' = "mark" /\ UNCHANGED run
        ELSE /\ pc' = "run"
             /\ run' = [type |-> e.type, f |-> e.f, arg |-> e.arg, through |-> TRUE]
    /\ UNCHANGED <<proc, op, inodeVars, journalVars, rounds, committed, queue>>

\* sync_entry and mark_entry_synced, last part: the journal block is written to
\* entry->block_number, which an uninitialised entry has as 0.
Mark ==
    /\ pc = "mark"
    /\ IF ring[head].type = "UNINITIALIZED"
       THEN superblock' = FALSE /\ UNCHANGED <<ring, queue>>
       ELSE /\ ring' = [ring EXCEPT ![head].synced = TRUE]
            /\ queue' = Tail(queue)
            /\ UNCHANGED superblock
    /\ pc' = IF proc = "mounted" THEN "advance" ELSE "next"
    /\ UNCHANGED <<proc, op, run, inodeVars, head, rounds, committed>>

\* initialize_journal_entry: superblock_write with the new head, then the entry
\* is written to the block that was the head.
Advance ==
    /\ pc = "advance"
    /\ head' = Following(head)
    /\ superblock' = TRUE
    /\ op' = [op EXCEPT !.slot = head]
    /\ pc' = "entry"
    /\ UNCHANGED <<proc, run, inodeVars, ring, rounds, committed, queue>>

\* The handlers set synced to false, except that nbtrfs_write does not set it.
LogEntry ==
    /\ pc = "entry"
    /\ \E synced \in IF op.entry.type = "WRITE" THEN BOOLEAN ELSE {FALSE} :
        /\ ring' = [ring EXCEPT ![op.slot] =
                [type |-> op.entry.type, f |-> op.f, arg |-> op.entry.arg, synced |-> synced]]
        /\ queue' = IF synced THEN queue ELSE Append(queue, ring'[op.slot])
    /\ IF op.fn = "write"
       THEN pc' = "data" /\ UNCHANGED <<run, committed>>
       ELSE /\ pc' = "run"
            /\ run' = [type |-> op.entry.type, f |-> op.f, arg |-> op.entry.arg, through |-> FALSE]
            /\ committed' = IF op.fn = "chmod" THEN [committed EXCEPT ![op.f] = op.entry.arg]
                            ELSE committed
    /\ UNCHANGED <<proc, op, inodeVars, head, superblock, rounds>>

-----------------------------------------------------------------------------
Ready(fn) ==
    /\ proc = "mounted"
    /\ op = Idle
    /\ fn \in Ops

\* nbtrfs_chmod and nbtrfs_truncate log, then execute.
CallChmod(f, m) ==
    /\ Ready("chmod")
    /\ op' = [fn |-> "chmod", f |-> f, slot |-> Null, entry |-> [type |-> "CHMOD", arg |-> m]]
    /\ pc' = "prev"
    /\ UNCHANGED <<proc, run, inodeVars, journalVars, rounds, committed, queue>>
CallTruncate(f, n) ==
    /\ Ready("truncate")
    /\ op' = [fn |-> "truncate", f |-> f, slot |-> Null, entry |-> [type |-> "TRUNCATE", arg |-> n]]
    /\ pc' = "prev"
    /\ UNCHANGED <<proc, run, inodeVars, journalVars, rounds, committed, queue>>

\* nbtrfs_write copies the inode; a file without a page gets one first: the
\* block is marked, the pointer is set and written through, and only then
\* logged.
CallWrite(f) ==
    /\ Ready("write")
    /\ op' = [fn |-> "write", f |-> f, slot |-> Null, node |-> mem[f],
              entry |-> [type |-> "WRITE", arg |-> Null]]
    /\ pc' = IF mem[f].ptr = Null THEN "alloc" ELSE "data"
    /\ UNCHANGED <<proc, run, inodeVars, journalVars, rounds, committed, queue>>
WriteAlloc ==
    /\ pc = "alloc"
    /\ \/ /\ Blocks \subseteq bitmap
          /\ op' = Idle /\ pc' = "idle"
          /\ UNCHANGED bitmap
       \/ \E b \in Blocks \ bitmap :
          /\ \A c \in Blocks \ bitmap : b =< c
          /\ bitmap' = bitmap \cup {b}
          /\ op' = [op EXCEPT !.entry.arg = b, !.node.ptr = b]
          /\ pc' = "set"
    /\ UNCHANGED <<proc, run, mem, disk, journalVars, rounds, committed, queue>>
WriteSet ==
    /\ pc = "set"
    /\ inode_write(op.f, op.node, TRUE)
    /\ pc' = "prev"
    /\ UNCHANGED <<proc, op, run, bitmap, journalVars, rounds, committed, queue>>

\* The data is copied to the page; a file that has grown gets the copy of the
\* inode back, with its new size.
WriteData ==
    /\ pc = "data"
    /\ IF op.node.size < 1
       THEN inode_write(op.f, [op.node EXCEPT !.size = 1], FALSE)
       ELSE UNCHANGED <<mem, disk>>
    /\ op' = Idle /\ pc' = "idle"
    /\ UNCHANGED <<proc, run, bitmap, journalVars, rounds, committed, queue>>

-----------------------------------------------------------------------------
\* main: disk_open, alloc_cache, and sync_journal begins.
Mount ==
    /\ proc = "down"
    /\ superblock
    /\ proc' = "replaying"
    /\ pc' = "visit"
    /\ mem' = disk
    /\ UNCHANGED <<op, run, disk, bitmap, journalVars, rounds, committed, queue>>

\* nbtrfs_destroy: mark_journal_synced begins.
Destroy ==
    /\ Ready("unmount")
    /\ proc' = "destroying"
    /\ pc' = "visit"
    /\ UNCHANGED <<op, run, inodeVars, journalVars, rounds, committed, queue>>

\* One round of sync_journal, which executes an entry that is not synced, or of
\* mark_journal_synced, which only marks it.
Visit ==
    /\ pc = "visit"
    /\ rounds < RingSize
    /\ LET e == ring[head] IN
        IF e.type = "UNINITIALIZED" \/ e.synced THEN pc' = "next" /\ UNCHANGED run
        ELSE IF proc = "destroying" THEN pc' = "mark" /\ UNCHANGED run
        ELSE /\ pc' = "run"
             /\ run' = [type |-> e.type, f |-> e.f, arg |-> e.arg, through |-> TRUE]
    /\ UNCHANGED <<proc, op, inodeVars, journalVars, rounds, committed, queue>>
\* Mutant of NextRound: the loop's counter is not incremented.
NextRoundUncounted ==
    /\ pc = "next"
    /\ head' = Following(head)
    /\ superblock' = TRUE
    /\ pc' = "visit"
    /\ UNCHANGED <<proc, op, run, inodeVars, ring, rounds, committed, queue>>

\* The end of a round: the head advances, and the superblock is written.
NextRound ==
    /\ pc = "next"
    /\ head' = Following(head)
    /\ superblock' = TRUE
    /\ rounds' = rounds + 1
    /\ pc' = "visit"
    /\ UNCHANGED <<proc, op, run, inodeVars, ring, committed, queue>>

\* Mutant of Replayed: the loop ends one block early.
ReplayedEarly ==
    /\ proc = "replaying"
    /\ pc = "visit"
    /\ rounds >= RingSize - 1
    /\ proc' = "mounted"
    /\ pc' = "idle"
    /\ rounds' = 0
    /\ UNCHANGED <<op, run, inodeVars, journalVars, committed, queue>>

\* sync_journal returns: the mount serves calls.
Replayed ==
    /\ proc = "replaying"
    /\ pc = "visit"
    /\ rounds = RingSize
    /\ proc' = "mounted"
    /\ pc' = "idle"
    /\ rounds' = 0
    /\ UNCHANGED <<op, run, inodeVars, journalVars, committed, queue>>

\* mark_journal_synced has returned: cache_sync writes the inodes.
Unmounted ==
    /\ proc = "destroying"
    /\ pc = "visit"
    /\ rounds = RingSize
    /\ proc' = "down"
    /\ pc' = "idle"
    /\ rounds' = 0
    /\ disk' = mem
    /\ UNCHANGED <<op, run, mem, bitmap, journalVars, committed, queue>>

\* The process is killed between two steps: what is in memory is gone.
Kill ==
    /\ proc \in KillIn
    /\ proc' = "down"
    /\ op' = Idle /\ pc' = "idle" /\ run' = NoRun /\ rounds' = 0
    /\ mem' = disk
    /\ UNCHANGED <<disk, bitmap, journalVars, committed, queue>>

-----------------------------------------------------------------------------
Step ==
    \/ RunChmod \/ RunTruncateFree \/ RunTruncateClear \/ RunTruncateSize \/ RunWrite
    \/ Prev \/ Mark \/ Advance \/ LogEntry
    \/ WriteAlloc \/ WriteSet \/ WriteData
    \/ Visit \/ NextRound \/ Replayed \/ Unmounted

Next ==
    \/ Step
    \/ \E f \in Files :
        \/ \E m \in Modes : CallChmod(f, m)
        \/ \E n \in 0 .. 1 : CallTruncate(f, n)
        \/ CallWrite(f)
    \/ Mount \/ Destroy \/ Kill

Spec == Init /\ [][Next]_vars

\* The thread of the mount keeps executing what it has begun.
FairSpec == Spec /\ WF_vars(Step)

-----------------------------------------------------------------------------
\* Every variable has its type.
TypeOK ==
    /\ proc \in {"down", "replaying", "mounted", "destroying"}
    /\ mem \in [Files -> [mode : Modes, size : 0 .. 1, ptr : Blocks \cup {Null}]]
    /\ disk \in [Files -> [mode : Modes, size : 0 .. 1, ptr : Blocks \cup {Null}]]
    /\ bitmap \subseteq Blocks
    /\ \A k \in Slots : ring[k].type \in {"UNINITIALIZED", "CHMOD", "TRUNCATE", "WRITE"}
    /\ head \in Slots
    /\ rounds \in 0 .. RingSize
    /\ Len(queue) =< RingSize

\* The blocks of the ring, in the order in which sync_journal meets them.
RingFrom(h) ==
    [k \in 1 .. RingSize |-> ring[IF h + k =< RingSize THEN h + k - 1 ELSE h + k - 1 - RingSize]]
Pending(e) == e.type # "UNINITIALIZED" /\ ~e.synced

\* The ring is a queue (superblock.h "Position of earliest journal entry"):
\* the entries that are not synced are met from the head on in the order in
\* which they were logged, none is lost to a wrap or a kill, and none is
\* executed out of turn, whatever kills interrupted logging, replay or unmount.
RingIsQueue ==
    \E pos \in [1 .. Len(queue) -> 1 .. RingSize] :
        /\ \A i, j \in 1 .. Len(queue) : i < j => pos[i] < pos[j]
        /\ \A i \in 1 .. Len(queue) : queue[i] = RingFrom(head)[pos[i]]
        /\ \A k \in 1 .. RingSize :
                Pending(RingFrom(head)[k]) <=> \E i \in 1 .. Len(queue) : pos[i] = k

\* After a replay nothing is left to execute.
ReplayComplete == [][proc = "replaying" /\ proc' = "mounted" => queue' = <<>>]_vars

\* Crash recovery of modes: when sync_journal returns, every file has the mode
\* last logged for it, whatever was killed, executed again or flushed before.
ModeRecovered ==
    [][proc = "replaying" /\ proc' = "mounted"
        => \A f \in Files : mem'[f].mode = committed[f]]_vars

\* Mounting and unmounting end: the loops over the ring visit each block once.
LoopsEnd == (pc = "visit") ~> (proc \in {"down", "mounted"})
=============================================================================
