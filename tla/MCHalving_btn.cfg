CONSTANTS
    NamedEpochLength <- MCNamedEpochLength
    InitialInterval <- MCInitialInterval
    InitialSubsidy <- MCInitialSubsidy
    MinSupplyTargetPct <- MCMinSupplyTargetPct
    MaxHeight <- MCMaxHeight
    UintModulus <- MCUintModulus
SPECIFICATION Spec
INVARIANT BlocksToNextEpochBounded
