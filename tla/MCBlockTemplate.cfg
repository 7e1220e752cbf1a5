CONSTANTS
    Clients = {c1, c2}
    Algos = {SHA256D, X16R}
    AlgoNull = AlgoNull
    InitialAlgo = SHA256D
    MaxTip <- MCMaxTip
    MaxTxUpdated <- MCMaxTxUpdated
    TemplateMaxAge <- MCTemplateMaxAge
    BackCompatible = FALSE
    NoLP = NoLP
    NonStringLP = NonStringLP
    NULL = NULL

SPECIFICATION Spec
INVARIANT TypeOK
INVARIANT CacheCoherent
PROPERTY TemplateMatchesRequest
PROPERTY ShutdownReleasesWaiters
PROPERTY ImplementsTemplateService
