---------------------------- MODULE MCAllocator -----------------------------
(***************************************************************************)
(* Small instances of the allocator for TLC: six blocks in bitmap pages of *)
(* four bits and words of two, so that a search crosses a word and a page  *)
(* boundary and reaches a full disk.                                       *)
(***************************************************************************)
EXTENDS Allocator
=============================================================================
