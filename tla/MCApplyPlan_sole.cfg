SPECIFICATION TidyFairSpec
CONSTANTS
    Runners = {r1}
    Classes = {c1, c2}
    Names = {n1, n2}
    Nodes = {k1}
    MaxCount = 2
    Prices <- MCPrices
    Raised <- MCRaised
    Modes <- SomeModes
    PoolsMayFail = TRUE
    None = None
INVARIANTS
    TypeOK
    RetireOnlyAfterProvision
    OnePoolPerClass
    UnusedPoolsRetired
    RetryBidEnough
PROPERTIES
    OnlyUnusedOrLostDeleted
    DryRunReadOnly
    UncordonsLast
    KeepsPromise
    RunEndsOrUncordons
