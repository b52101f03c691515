------------------------------ MODULE MCJournal -----------------------------
(***************************************************************************)
(* Small instances of the journal for TLC: a ring of two or three entries, *)
(* so that the next operation of a mount wraps around it.                  *)
(***************************************************************************)
EXTENDS Journal

\* The inodes of all files share a page of the inode table.
MCInodePage == [f \in Files |-> 0]
=============================================================================
