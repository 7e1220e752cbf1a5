---------------------------- MODULE MCGenerator -----------------------------
(***************************************************************************)
(* Generator for TLC.  Two RPC threads race each other and one network     *)
(* block.  The nonce range 0x10000 is scaled to 2 and 2^64 to 4, so a      *)
(* 'maxtries' of -1 wraps to 3 tries: enough to exhaust the range once,    *)
(* re-assemble, and run out of tries in the second scan.                   *)
(***************************************************************************)
EXTENDS Generator

MCNGenerateArgs == {2}
MCMaxTriesArgs == {-1}
MCTriesModulus == 4
MCInnerLoopCount == 2
MCMaxNetworkBlocks == 1
====
