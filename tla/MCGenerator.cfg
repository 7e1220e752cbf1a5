CONSTANTS
    Miners = {m1, m2}
    NGenerateArgs <- MCNGenerateArgs
    MaxTriesArgs <- MCMaxTriesArgs
    TriesModulus <- MCTriesModulus
    InnerLoopCount <- MCInnerLoopCount
    MaxNetworkBlocks <- MCMaxNetworkBlocks
SPECIFICATION Spec
INVARIANT TypeOK
INVARIANT ReturnsRequestedBlocks
PROPERTY GeneratorReturns
