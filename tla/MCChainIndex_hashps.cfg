CONSTANTS
    Algos = {SHA256D, X16R}
    GenesisAlgo = SHA256D
    GenesisWork = 1
    Works <- MCWorks
    Times <- MCTimes
    Rewards <- MCRewards
    MaxHeight <- MCMaxHeight
    DiffInterval <- MCDiffInterval
    WorkModulus <- MCWorkModulus
    Blocks24h <- MCBlocks24h
    Blocks7d <- MCBlocks7d
    Lookups <- MCLookups
    QueryHeights <- MCQueryHeights

SPECIFICATION Spec


INVARIANT HashRateMatchesWindow
