--------------------------- MODULE MCBlockIndexer ---------------------------
(***************************************************************************)
(* The block indexer over the small trees of BlockTrees.                   *)
(***************************************************************************)
EXTENDS BlockIndexer, BlockTrees
=============================================================================
