---------------------------- MODULE MCBlockCache ----------------------------
(* BlockCache on small sets of threads and blocks. *)
EXTENDS BlockCache, TLC

Interchangeable == Permutations(Threads) \cup Permutations(Keys)
=============================================================================
