------------------------------- MODULE MCBTree ------------------------------
(***************************************************************************)
(* Small instances of the B-tree for TLC: nodes of four keys, so that a    *)
(* handful of entries fills a node and splits it.                          *)
(***************************************************************************)
EXTENDS BTree
=============================================================================
