SPECIFICATION TidySpec
CONSTANTS
    Runners = {r1, r2}
    Classes = {c1, c2}
    Names = {n1, n2}
    Nodes = {}
    MaxCount = 1
    Prices <- MCPrices
    Raised = {}
    Modes <- ApplyOnly
    PoolsMayFail = FALSE
    Listed = {c1}
    ProbeBid = 1
    None = None
SYMMETRY SymmetricRuns
PROPERTIES
    DeletionsMeant
