CONSTANTS
    Clients = {s1, s2}
    g = g
    b1 = b1
    b2 = b2
    c1 = c1
    bx = bx
    Genesis = g
    NULL = NULL
    Blocks <- MCBlocks
    Parent <- MCParent
    BadScript <- MCBadScript
    MaxCalls <- MCMaxCalls
SPECIFICATION Spec
INVARIANT OwnOutcomeReported
