------------------------------ MODULE MCFileMap -----------------------------
(***************************************************************************)
(* Small instances of the block maps for TLC: one direct pointer and two  *)
(* or three pointers to an indirect block, so that pages 0 and 1 lie on    *)
(* the two sides of the first boundary, page Ptrs past the bound of        *)
(* inode_get_block and page Ptrs + 1 past the end of the indirect block.   *)
(***************************************************************************)
EXTENDS FileMap, TLC

Symmetry == Permutations(Values)
=============================================================================
