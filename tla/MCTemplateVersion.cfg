CONSTANTS
    dep1 = dep1
    dep2 = dep2
    Deployments <- MCDeployments
    Force <- MCForce
    RuleSets <- MCRuleSets
    MaxTip <- MCMaxTip
SPECIFICATION Spec
INVARIANT VersionHidesUnsupported
INVARIANT LockedInSignalled
