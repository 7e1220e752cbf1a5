---------------------------- MODULE MCChainIndex ----------------------------
(* ChainIndex with two algorithms, chains of up to three blocks after      *)
(* genesis, and windows of two and three blocks standing for the 720 and   *)
(* 5040 blocks of getminingstats.  A window longer than the chain, a       *)
(* window starting at genesis, 'nblocks' -1 and 0, and a height below the  *)
(* tip all occur.                                                          *)
EXTENDS ChainIndex

MCWorks == {1}
MCTimes == {0, 1}
MCRewards == {1, 2}
MCMaxHeight == 3
MCDiffInterval == 2
MCWorkModulus == 2^8
MCBlocks24h == 2
MCBlocks7d == 3
MCLookups == {-1, 0, 1, 2, 4}
MCQueryHeights == {-1, 0, 1, 2}
=============================================================================
