------------------------------ MODULE MCSubmit ------------------------------
(***************************************************************************)
(* Submit for TLC.  Two competing blocks on genesis (b1 and c1), b2 on b1, *)
(* and bx on genesis whose scripts fail: enough for a side chain that later *)
(* overtakes the tip, a header submitted before its block, a child         *)
(* submitted before its parent, and a failed block submitted twice.        *)
(***************************************************************************)
EXTENDS Submit

CONSTANTS g, b1, b2, c1, bx

MCBlocks == {b1, b2, c1, bx}
MCParent == (b1 :> g) @@ (b2 :> b1) @@ (c1 :> g) @@ (bx :> g)
MCBadScript == {bx}
MCMaxCalls == 3
====
