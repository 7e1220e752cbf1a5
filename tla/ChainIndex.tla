----------------------------- MODULE ChainIndex -----------------------------
(***************************************************************************)
(* The per-algorithm views over the active chain in src/rpc/mining.cpp:    *)
(* GetNetworkHashPS, GetLastAlgoBlock, CountAlgoBlocks and                 *)
(* CountAlgoBlockRewards, read by getnetworkhashps, getmininginfo,         *)
(* getmultialgoinfo and getminingstats.                                    *)
(*                                                                         *)
(* The chain is a function from heights 0..Height to block index entries;  *)
(* a back-walk over pprev is a recursion on the height.  Validation        *)
(* (outside src/) extends the chain or replaces its tip (a one-block       *)
(* reorganisation).  The queries are operators evaluated on the chain at   *)
(* the moment they read chainActive.Tip(); entries behind a tip are never  *)
(* modified, so a walk started from a tip sees a fixed chain.              *)
(*                                                                         *)
(* getminingstats takes no lock (lines 500-562): each of its reads of the  *)
(* tip is a step of its own, and validation may run between them.          *)
(***************************************************************************)
EXTENDS Integers, FiniteSets, FiniteSetsExt, Functions

CONSTANTS
    Algos,          \* the algorithm identifiers (nVersion & ALGO_VERSION_MASK)
    GenesisAlgo,    \* algorithm field of the genesis header
    GenesisWork,    \* block proof of the genesis block
    Works,          \* possible block proofs of later blocks
    Times,          \* possible block times
    Rewards,        \* possible block subsidies (GetBlockSubsidy)
    MaxHeight,      \* bound on the chain height
    DiffInterval,   \* DifficultyAdjustmentInterval()
    WorkModulus,    \* 2^256 of arith_uint256, scaled down
    Blocks24h,      \* nBlocksTotal24h of getminingstats
    Blocks7d,       \* nBlocksTotal7d of getminingstats
    Lookups,        \* 'nblocks' arguments of getnetworkhashps
    QueryHeights    \* 'height' arguments of getnetworkhashps

ASSUME GenesisAlgo \in Algos /\ Blocks24h <= Blocks7d

VARIABLES
    chain,    \* the active chain: height -> [algo, time, work, reward]
    stats     \* one getminingstats iteration: program counter and locals

vars == <<chain, stats>>

Block == [algo : Algos, time : Times, work : Works, reward : Rewards]
Genesis == [algo |-> GenesisAlgo, time |-> Min(Times), work |-> GenesisWork,
            reward |-> Min(Rewards)]

TipHeight == Max(DOMAIN chain)

StatsPc == {"idle", "count24", "count7", "rewards24", "rewards7", "done"}

-----------------------------------------------------------------------------
(* Per-algorithm chain work (CBlockIndex::nChainWorkAlgo, spec section 3):  *)
(* the summed proof of every block up to h mined by the algorithm of h.     *)
ChainWorkAlgo(h) ==
    SumFunctionOnSet([j \in DOMAIN chain |-> chain[j].work],
                     {j \in 0..h : chain[j].algo = chain[h].algo})

(* Walk back from height h to the latest block mined by algorithm a, or    *)
(* to genesis when there is none: the loops of GetLastAlgoBlock and of     *)
(* GetNetworkHashPS ('while (pb->pprev && nAlgo != ...)').                  *)
RECURSIVE LastAlgoFromSkipSelf(_, _)
LastAlgoFromSkipSelf(h, a) ==
    IF h = 0 THEN 0
    ELSE IF chain[h - 1].algo = a THEN h - 1 ELSE LastAlgoFromSkipSelf(h - 1, a)

RECURSIVE LastAlgoFrom(_, _)
LastAlgoFrom(h, a) ==
    IF chain[h].algo = a \/ h = 0 THEN h ELSE LastAlgoFrom(h - 1, a)


(* The loops of CountAlgoBlocks and CountAlgoBlockRewards: n steps back    *)
(* from height h, never counting genesis ('while (nBlocks && pb->pprev)'). *)
RECURSIVE CountAlgoBlocksFromNoDecrement(_, _, _)
CountAlgoBlocksFromNoDecrement(h, n, a) ==
    IF n = 0 \/ h = 0 THEN 0
    ELSE (IF chain[h].algo = a THEN 1 ELSE 0) + CountAlgoBlocksFromNoDecrement(h - 1, n, a)

RECURSIVE CountAlgoBlocksFrom(_, _, _)
CountAlgoBlocksFrom(h, n, a) ==
    IF n = 0 \/ h = 0 THEN 0
    ELSE (IF chain[h].algo = a THEN 1 ELSE 0) + CountAlgoBlocksFrom(h - 1, n - 1, a)

RECURSIVE CountAlgoBlockRewardsFrom(_, _, _)
CountAlgoBlockRewardsFrom(h, n, a) ==
    IF n = 0 \/ h = 0 THEN 0
    ELSE (IF chain[h].algo = a THEN chain[h].reward ELSE 0)
           + CountAlgoBlockRewardsFrom(h - 1, n - 1, a)

CountAlgoBlocks(a, n) == CountAlgoBlocksFrom(TipHeight, n, a)
CountAlgoBlockRewards(a, n) == CountAlgoBlockRewardsFrom(TipHeight, n, a)

(* The block a getnetworkhashps window ends at, and the window's length.   *)
HashPSEnd(height) ==
    IF height >= 0 /\ height < TipHeight THEN height ELSE TipHeight

HashPSLookup(lookup, height) ==
    LET pb == HashPSEnd(height)
        lk == IF lookup <= 0 THEN (pb % DiffInterval) + 1 ELSE lookup
    IN  IF lk > pb THEN pb ELSE lk

(* GetNetworkHashPS as the pair (work, seconds) whose quotient it returns; *)
(* the early 'return 0's are the pair (0, 1).  The per-algorithm work     *)
(* delta is an arith_uint256 subtraction, so it wraps.                     *)
NoHashRate == [work |-> 0, span |-> 1]

GetNetworkHashPS(lookup, height, a) ==
    LET pb    == HashPSEnd(height)
        pb0   == pb - HashPSLookup(lookup, height)
        times == {chain[h].time : h \in pb0..pb}
        workDiff == (ChainWorkAlgo(LastAlgoFrom(pb, a))
                       - ChainWorkAlgo(LastAlgoFrom(pb0, a))) % WorkModulus
    IN  IF pb = 0 \/ Min(times) = Max(times) THEN NoHashRate
        ELSE [work |-> workDiff, span |-> Max(times) - Min(times)]

-----------------------------------------------------------------------------
TypeOK ==
    /\ DOMAIN chain = 0..TipHeight
    /\ TipHeight \in 0..MaxHeight
    /\ chain[0] = Genesis
    /\ \A h \in 1..TipHeight : chain[h] \in Block
    /\ stats.pc \in StatsPc
    /\ stats.algo \in Algos
    /\ stats.n24 \in 0..Blocks24h
    /\ stats.n7 \in 0..Blocks7d
    /\ {stats.avg24, stats.avg7} \subseteq Nat

Init ==
    /\ chain = [h \in {0} |-> Genesis]
    /\ stats = [pc |-> "idle", algo |-> GenesisAlgo,
                n24 |-> 0, n7 |-> 0, avg24 |-> 0, avg7 |-> 0]

(* Validation connects a new block on top of the tip (spec section 4.3).   *)
ConnectBlock ==
    /\ TipHeight < MaxHeight
    /\ \E b \in Block : chain' = [h \in 0..TipHeight + 1 |->
                                     IF h <= TipHeight THEN chain[h] ELSE b]
    /\ UNCHANGED stats

(* Validation replaces the tip by a competing block at the same height.    *)
ReorgTip ==
    /\ TipHeight > 0
    /\ \E b \in Block \ {chain[TipHeight]} : chain' = [chain EXCEPT ![TipHeight] = b]
    /\ UNCHANGED stats

(* getminingstats, one iteration of its loop over the algorithms          *)
(* (lines 535-559); each step reads chainActive.Tip() afresh.  The first   *)
(* reads GetLastAlgoBlock for last_block_reward, which no property         *)
(* inspects, so only the choice of algorithm is kept.                      *)
StatsLastBlock ==
    /\ stats.pc \in {"idle", "done"}
    /\ \E a \in Algos :
         stats' = [pc |-> "count24", algo |-> a,
                   n24 |-> 0, n7 |-> 0, avg24 |-> 0, avg7 |-> 0]
    /\ UNCHANGED chain

StatsCount24 ==
    /\ stats.pc = "count24"
    /\ stats' = [stats EXCEPT !.pc = "count7",
                              !.n24 = CountAlgoBlocks(stats.algo, Blocks24h)]
    /\ UNCHANGED chain

StatsCount7 ==
    /\ stats.pc = "count7"
    /\ stats' = [stats EXCEPT !.pc = "rewards24",
                              !.n7 = CountAlgoBlocks(stats.algo, Blocks7d)]
    /\ UNCHANGED chain

(* 'CountAlgoBlockRewards(...) / nAlgoBlocks' is CAmount division.         *)
StatsRewards24 ==
    /\ stats.pc = "rewards24"
    /\ stats' = [stats EXCEPT !.pc = "rewards7",
                   !.avg24 = IF stats.n24 > 0
                             THEN CountAlgoBlockRewards(stats.algo, Blocks24h) \div stats.n24
                             ELSE 0]
    /\ UNCHANGED chain

StatsRewards7 ==
    /\ stats.pc = "rewards7"
    /\ stats' = [stats EXCEPT !.pc = "done",
                   !.avg7 = IF stats.n7 > 0
                            THEN CountAlgoBlockRewards(stats.algo, Blocks7d) \div stats.n7
                            ELSE 0]
    /\ UNCHANGED chain

Next ==
    \/ ConnectBlock
    \/ ReorgTip
    \/ StatsLastBlock
    \/ StatsCount24
    \/ StatsCount7
    \/ StatsRewards24
    \/ StatsRewards7

Spec == Init /\ [][Next]_vars

-----------------------------------------------------------------------------
(* The algorithm's work inside the window (pb0, pb]: what spec section 8   *)
(* (scenario 3) says getnetworkhashps divides by the time span.            *)
WindowAlgoWork(lookup, height, a) ==
    LET pb  == HashPSEnd(height)
        pb0 == pb - HashPSLookup(lookup, height)
    IN  SumFunctionOnSet([j \in DOMAIN chain |-> chain[j].work],
                         {j \in pb0 + 1..pb : chain[j].algo = a})

(* Whenever the back-scan of GetNetworkHashPS from the window's first      *)
(* block finds a block of the algorithm, the work it reports is exactly    *)
(* the algorithm's work inside the window, for every nblocks and height    *)
(* argument: both back-scans and the per-algorithm chain work agree.       *)
HashRateMatchesWindowWhenAnchored ==
    \A lookup \in Lookups, height \in QueryHeights, a \in Algos :
        LET pb0 == HashPSEnd(height) - HashPSLookup(lookup, height)
            est == GetNetworkHashPS(lookup, height, a)
        IN  est # NoHashRate /\ chain[LastAlgoFrom(pb0, a)].algo = a
              => est.work = WindowAlgoWork(lookup, height, a)

(* Spec section 8: the estimate is the algorithm's work in the window      *)
(* over the time span, for every nblocks and height argument.              *)
HashRateMatchesWindow ==
    \A lookup \in Lookups, height \in QueryHeights, a \in Algos :
        LET est == GetNetworkHashPS(lookup, height, a)
        IN  est # NoHashRate => est.work = WindowAlgoWork(lookup, height, a)

(* getminingstats reports avg_block_reward_24h and _7d as averages of      *)
(* block rewards: neither can exceed the largest block reward.             *)
MiningStatsAverageBounded ==
    stats.pc = "done" => \A avg \in {stats.avg24, stats.avg7} : avg <= Max(Rewards)
=============================================================================
