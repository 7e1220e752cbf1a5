-------------------------- MODULE MCBlockTemplate --------------------------
(* Model values for BlockTemplate: two RPC threads, two algorithms, one   *)
(* tip change and one mempool update.  The 5-second limit of line 914 is   *)
(* scaled to 1: the code only compares the age with it, and ages below, at *)
(* and above the limit all occur.  The long-poll deadlines are not counted *)
(* (BlockTemplate lets them expire at any step).                           *)
EXTENDS BlockTemplate

MCMaxTip == 1
MCMaxTxUpdated == 1
MCTemplateMaxAge == 1
=============================================================================
