----------------------------- MODULE MCHalving ------------------------------
(***************************************************************************)
(* Halving for TLC.  Named epochs of one block and a first interval of one *)
(* block put the first numbered epoch at height 4; with subsidy 4, blocks  *)
(* of subsidy 4 or 2 and a 75% target, a numbered epoch may or may not     *)
(* halve, so nine blocks reach epochs halved once and twice and epochs     *)
(* repeated before and after a halving.  2^64 is scaled to 2^6.            *)
(***************************************************************************)
EXTENDS Halving

MCNamedEpochLength == 1
MCInitialInterval == 1
MCInitialSubsidy == 4
MCMinSupplyTargetPct == 75
MCMaxHeight == 9
MCUintModulus == 64
====
