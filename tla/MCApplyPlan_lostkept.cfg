SPECIFICATION TidySpec
CONSTANTS
    Runners = {r1}
    Classes = {c1, c2}
    Names = {n1, n2, n3}
    Nodes = {}
    MaxCount = 1
    Prices <- MCOneBid
    Raised = {}
    Modes <- ApplyOnly
    PoolsMayFail = FALSE
    None = None
INVARIANTS
    ReplacedByHealthy
