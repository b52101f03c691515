---------------------------- MODULE MCBlockCache ----------------------------
(***************************************************************************)
(* Small instances of the block cache for TLC: two slots under three       *)
(* blocks, so that a load evicts, and two inodes, of which one rewrites    *)
(* what the other loaded.  No symmetry: block numbers and slots are        *)
(* ordered by the hash and by the free list.                               *)
(***************************************************************************)
EXTENDS BlockCache
=============================================================================
